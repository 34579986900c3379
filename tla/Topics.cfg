CONSTANTS
  Slots = {s1, s2}
  MaxActs = 2
  MaxPending = 2
SPECIFICATION TopicsSpec
INVARIANTS TopicsTypeOK TopicsMatch SettingsTellState
SYMMETRY SlotSymmetry
CHECK_DEADLOCK FALSE
