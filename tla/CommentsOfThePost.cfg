CONSTANTS
  Slots = {s1, s2, s3, s4}
  MaxActs = 2
SPECIFICATION Spec
INVARIANT CommentsOfThePost
CHECK_DEADLOCK FALSE
