CONSTANTS
  Devices = {d1}
  Animals = {"Cat", "Owl"}
  Tags = {"Lazy_1", "Cozy_2", "Tidy_3"}
  Chains = {c1, c2}
  MaxActs = 2
  Others = {}
  ReadFails = TRUE
SPECIFICATION FairSpec
CHECK_DEADLOCK FALSE
INVARIANTS TypeOK
PROPERTIES ChainsEnd
