CONSTANTS
  Jobs = {j1, j2}
  MaxPosts = 5
  FirstPage = 2
  NextPage = 2
  MaxActs = 6
  Title <- MCTitle
  Banned <- MCBanned
  ReadFails = TRUE
SPECIFICATION CalmSpec
CHECK_DEADLOCK FALSE
INVARIANTS NoDuplicates NoGaps EndMeansEnd
PROPERTY OnlyVisibleEnters
SYMMETRY JobSymmetry
