CONSTANTS
  Devices = {d1, d2}
  Animals = {"Cat", "Owl"}
  Tags = {"Lazy_1", "Cozy_2", "Tidy_3"}
  Chains = {c1}
  MaxActs = 3
  Others <- MCOthers
  ReadFails = FALSE
SPECIFICATION PatientSpec
CHECK_DEADLOCK FALSE
INVARIANTS KeptIsTaken CandidateIsReserved
PROPERTIES NamesAreNotLost
