CONSTANTS
  Slots = {s1, s2, s3}
  MaxActs = 3
SPECIFICATION PatientSpec
INVARIANT SelectedServerShown
PROPERTY ImplementsSelectedServer
CHECK_DEADLOCK FALSE
