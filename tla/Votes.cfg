CONSTANTS
  Posts = {p1, p2}
  Servers = {s1, s2}
  Containers = {c1, c2}
  MaxActs = 6
SPECIFICATION PresentSpec
CHECK_DEADLOCK FALSE
INVARIANTS TypeOK KeptIsCounted BlocksTellVotes PostsUpvoted
SYMMETRY VotesSymmetry
