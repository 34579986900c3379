CONSTANTS
  Slots = {s1, s2, s3}
  MaxActs = 1
SPECIFICATION FairSpec
INVARIANTS TypeOK KeychainNamesFeed
PROPERTIES RefreshKeepsKeys ContractSettles ChangeFlagClears
CHECK_DEADLOCK FALSE
