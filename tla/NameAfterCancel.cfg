CONSTANTS
  Devices = {d1}
  Animals = {"Cat", "Owl"}
  Tags = {"Lazy_1", "Cozy_2"}
  Chains = {c1}
  MaxActs = 2
  Others <- MCOthers
  ReadFails = FALSE
SPECIFICATION CancelSpec
CHECK_DEADLOCK FALSE
INVARIANTS KeptIsTaken
