CONSTANTS
  Jobs = {j1, j2}
  MaxPosts = 4
  FirstPage = 2
  NextPage = 2
  MaxActs = 2
  Title <- MCTitle
  Banned <- MCBanned
  ReadFails = TRUE
SPECIFICATION FairSpec
CHECK_DEADLOCK FALSE
INVARIANTS TypeOK PagesAtPosts
PROPERTIES GatheredIsShown PagesEnd
