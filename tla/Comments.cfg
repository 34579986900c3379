CONSTANTS
  FirstPage = 4
  NextPage = 3
  Banned = {5, 6}
  MaxComments = 6
  MaxPages = 2
  MaxRows = 11
  MaxActs = 1
SPECIFICATION Spec
CHECK_DEADLOCK FALSE
INVARIANTS TypeOK EndIsSeen EndMeansEnd
PROPERTIES TempIsShown EndIsReached CalmRefreshEnds
