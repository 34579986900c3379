----------------------------- MODULE VotesProofs -----------------------------
(***************************************************************************)
(* Proofs about Votes, for any posts, servers, containers and number of     *)
(* taps: what is kept of a user who votes on present rows only is what is   *)
(* counted, what the rows show and what the profile numbers.               *)
(***************************************************************************)
EXTENDS Votes, FiniteSetTheorems, TLAPS

\* A vote waits for keys only while there are some.
NoneWaitsForKeys == address = NoAddress => NothingWaits

\* The container of the present view has what is saved, that of an older row
\* what is saved of its post: the whole-dictionary writes lose nothing.
ContainersAgree ==
  /\ dict[home] = saved
  /\ \A p \in Posts : OnScreen(p) =>
       dict[block[p].container][<<p, block[p].server>>] = saved[<<p, block[p].server>>]

\* Neither KeptIsCounted nor BlocksTellVotes is inductive alone: a tap counts on
\* the vote its row shows and writes the dictionary of its row's container, and
\* a look-up changes the server for which the waiting votes are counted.
VotesInv ==
  /\ TypeOK
  /\ NoneWaitsForKeys
  /\ ContainersAgree
  /\ KeptIsCounted
  /\ BlocksTellVotes

-----------------------------------------------------------------------------
\* A row on screen shows a vote of a server, through a container.
LEMMA RowType ==
  ASSUME TypeOK, NEW p \in Posts, OnScreen(p)
  PROVE  /\ block[p].server \in Servers
         /\ block[p].container \in Containers
         /\ block[p].vote \in Vote
BY DEF TypeOK, OnScreen, Block

\* A new block is one.
LEMMA NewBlockType ==
  ASSUME TypeOK, NEW p \in Posts, NEW server \in Servers, NEW c \in Containers
  PROVE  NewBlock(p, server, c) \in Block
<1>1. dict[c][<<p, address>>] \in Vote
  BY DEF TypeOK, Votes
<1> QED
  BY <1>1 DEF NewBlock, Block

\* At the start nothing is voted, kept or shown.
LEMMA VotesBegin == Init => VotesInv
<1> SUFFICES ASSUME Init PROVE VotesInv
  OBVIOUS
<1> USE DEF Init
<1>1. saved \in Votes
  BY DEF Votes, Vote
<1>2. TypeOK
  BY <1>1, VotesAssumption DEF TypeOK
<1>3. \A p \in Posts : ~OnScreen(p)
  BY DEF OnScreen
<1>4. NoneWaitsForKeys
  BY DEF NoneWaitsForKeys, NothingWaits
<1>5. KeptIsCounted
  BY VotesAssumption DEF KeptIsCounted, Direction
<1> QED
  BY <1>2, <1>3, <1>4, <1>5 DEF VotesInv, ContainersAgree, BlocksTellVotes

-----------------------------------------------------------------------------
(* Rows.                                                                   *)

\* A step that only makes one block, from a container that agrees, keeps the
\* invariant.
LEMMA RowMade ==
  ASSUME VotesInv, NEW p \in Posts, NEW c \in Containers, address \in Servers,
         block' = [block EXCEPT ![p] = NewBlock(p, address, c)],
         dict[c][<<p, address>>] = saved[<<p, address>>],
         UNCHANGED <<address, kept, waiting, counter, stats, acts>>
  PROVE  VotesInv'
<1> USE DEF VotesInv, kept, stats
<1>1. NewBlock(p, address, c) \in Block
  BY NewBlockType
<1>2. TypeOK'
  BY <1>1 DEF TypeOK
<1>3. /\ block'[p] = NewBlock(p, address, c)
      /\ \A q \in Posts : q # p => block'[q] = block[q]
  BY DEF TypeOK
<1>4. ContainersAgree'
  BY <1>3 DEF ContainersAgree, OnScreen, NewBlock
<1>5. BlocksTellVotes'
  BY <1>3 DEF BlocksTellVotes, OnScreen, NewBlock
<1>6. NoneWaitsForKeys' /\ KeptIsCounted'
  BY DEF NoneWaitsForKeys, NothingWaits, KeptIsCounted
<1> QED
  BY <1>2, <1>4, <1>5, <1>6

\* A page brings a row.
LEMMA RowAppearsKeeps ==
  ASSUME VotesInv, NEW p \in Posts, RowAppears(p)
  PROVE  VotesInv'
<1>1. home \in Containers /\ dict[home] = saved
  BY DEF VotesInv, TypeOK, ContainersAgree
<1> QED
  BY <1>1, RowMade DEF RowAppears

\* A row is drawn again, from its own container or the present one.
LEMMA BlockIsMadeAgainKeeps ==
  ASSUME VotesInv, NEW p \in Posts, InItsPlace(p), BlockIsMadeAgain(p)
  PROVE  VotesInv'
<1>1. OnScreen(p) /\ block[p].server = address
  BY DEF InItsPlace
<1>2. address \in Servers /\ block[p].container \in Containers
  BY <1>1, RowType DEF VotesInv
<1>3. home \in Containers
  BY DEF VotesInv, TypeOK
<1>4. PICK c \in {block[p].container, home} :
        block' = [block EXCEPT ![p] = NewBlock(p, address, c)]
  BY <1>1 DEF BlockIsMadeAgain
<1>5. dict[c][<<p, address>>] = saved[<<p, address>>]
  BY <1>1 DEF VotesInv, ContainersAgree
<1> QED
  BY <1>2, <1>3, <1>4, <1>5, RowMade DEF BlockIsMadeAgain

\* The list is emptied.
LEMMA ListIsEmptiedKeeps ==
  ASSUME VotesInv, ListIsEmptied
  PROVE  VotesInv'
<1> USE DEF VotesInv, ListIsEmptied, kept, stats
<1>1. \A p \in Posts : ~OnScreen(p)'
  BY DEF OnScreen
<1>2. TypeOK'
  BY DEF TypeOK
<1>3. NoneWaitsForKeys' /\ KeptIsCounted'
  BY DEF NoneWaitsForKeys, NothingWaits, KeptIsCounted
<1>4. ContainersAgree' /\ BlocksTellVotes'
  BY <1>1 DEF ContainersAgree, BlocksTellVotes
<1> QED
  BY <1>2, <1>3, <1>4

\* A new view starts from what is saved, in a container no row on screen has.
LEMMA NewHomeViewKeeps ==
  ASSUME VotesInv, NEW c \in Containers, NewHomeView(c)
  PROVE  VotesInv'
<1> USE DEF VotesInv, NewHomeView, stats
<1>1. TypeOK'
  BY DEF TypeOK
<1>2. NoneWaitsForKeys' /\ KeptIsCounted' /\ BlocksTellVotes'
  BY DEF NoneWaitsForKeys, NothingWaits, KeptIsCounted, BlocksTellVotes, OnScreen
<1>3. dict'[home'] = saved'
  BY DEF TypeOK
<1>4. ASSUME NEW p \in Posts, OnScreen(p)'
      PROVE  dict'[block'[p].container][<<p, block'[p].server>>] = saved'[<<p, block'[p].server>>]
  <2>1. OnScreen(p) /\ block'[p] = block[p] /\ block[p].container # c
    BY <1>4 DEF OnScreen
  <2>2. dict'[block[p].container] = dict[block[p].container]
    BY <2>1, RowType DEF TypeOK
  <2> QED
    BY <2>1, <2>2 DEF ContainersAgree
<1>5. ContainersAgree'
  BY <1>3, <1>4 DEF ContainersAgree
<1> QED
  BY <1>1, <1>2, <1>5

-----------------------------------------------------------------------------
(* Votes.                                                                  *)

\* A tap on a row of the present view gives or takes back the vote that is kept.
LEMMA TapKeeps ==
  ASSUME VotesInv, NEW p \in Posts, NEW d \in Direction,
         InItsPlace(p), block[p].container = home, Tap(p, d)
  PROVE  VotesInv'
<1> DEFINE n == IF block[p].vote = d THEN -1 ELSE 1
           v == IF n = 1 THEN d ELSE "none"
<1>1. OnScreen(p) /\ block[p].server = address
  BY DEF InItsPlace
<1>2. address \in Servers
  BY <1>1, RowType DEF VotesInv
<1>3. block[p].vote = saved[<<p, address>>] /\ block[p].vote \in {d, "none"}
  BY <1>1 DEF VotesInv, BlocksTellVotes, Tap
<1>4. n \in {1, -1} /\ v \in Vote
  BY DEF Vote
<1>5. /\ block' = [block EXCEPT ![p].vote = v]
      /\ Keep(p, home, v)
      /\ Statistics(d, n)
      /\ waiting' = [waiting EXCEPT ![<<p, d, n>>] = @ + 1]
      /\ UNCHANGED <<address, counter>>
      /\ acts' \in 0 .. MaxActs
  BY VotesAssumption DEF Tap, VotesInv, TypeOK, UserActs
<1>6. \/ n = 1 /\ v = d /\ saved[<<p, address>>] = "none"
      \/ n = -1 /\ v = "none" /\ saved[<<p, address>>] = d
  BY <1>3 DEF Direction
<1> HIDE DEF n, v
<1>7. home \in Containers /\ saved \in Votes /\ dict \in [Containers -> Votes]
      /\ dict[home] = saved
  BY DEF VotesInv, TypeOK, ContainersAgree
<1>8. /\ saved' = [saved EXCEPT ![<<p, address>>] = v]
      /\ dict' = [dict EXCEPT ![home] = saved']
      /\ home' = home
  BY <1>5, <1>7 DEF Keep
<1>9. <<p, address>> \in Posts \X (Servers \cup {NoAddress})
  BY <1>2
<1>10. saved' \in Votes
  BY <1>4, <1>7, <1>8, <1>9 DEF Votes
<1>11. TypeOK'
  <2>1. block' \in [Posts -> Block \cup {Absent}]
    <3>1. block[p] \in Block
      BY <1>1 DEF VotesInv, TypeOK, OnScreen
    <3>2. [block[p] EXCEPT !.vote = v] \in Block
      BY <1>4, <3>1 DEF Block
    <3> QED
      BY <1>5, <3>2 DEF VotesInv, TypeOK
  <2>2. waiting' \in [Posts \X Direction \X {1, -1} -> Nat]
    BY <1>4, <1>5 DEF VotesInv, TypeOK
  <2>3. upVoted' \in Int /\ downVoted' \in Int
    BY <1>4, <1>5 DEF VotesInv, TypeOK, Statistics
  <2>4. dict' \in [Containers -> Votes]
    BY <1>7, <1>8, <1>10
  <2> QED
    BY <1>5, <1>7, <1>8, <1>10, <2>1, <2>2, <2>3, <2>4 DEF VotesInv, TypeOK
<1>12. NoneWaitsForKeys'
  BY <1>2, <1>5, VotesAssumption DEF NoneWaitsForKeys
<1>13. /\ saved'[<<p, address>>] = v
       /\ \A q \in Posts, s \in Servers :
            <<q, s>> # <<p, address>> => saved'[<<q, s>>] = saved[<<q, s>>]
  BY <1>7, <1>8, <1>9 DEF Votes
<1>14. /\ block'[p] = [block[p] EXCEPT !.vote = v]
       /\ \A q \in Posts : q # p => block'[q] = block[q]
  BY <1>5 DEF VotesInv, TypeOK
<1>15. KeptIsCounted'
  <2> SUFFICES ASSUME NEW q \in Posts, NEW s \in Servers, NEW e \in Direction
               PROVE  counter[<<q, s, e>>]
                        + (IF s = address THEN waiting'[<<q, e, 1>>] - waiting'[<<q, e, -1>>] ELSE 0)
                        = IF saved'[<<q, s>>] = e THEN 1 ELSE 0
    BY <1>5 DEF KeptIsCounted
  <2>1. counter[<<q, s, e>>]
          + (IF s = address THEN waiting[<<q, e, 1>>] - waiting[<<q, e, -1>>] ELSE 0)
          = IF saved[<<q, s>>] = e THEN 1 ELSE 0
    BY DEF VotesInv, KeptIsCounted
  <2>2. /\ waiting[<<q, e, 1>>] \in Nat /\ waiting[<<q, e, -1>>] \in Nat
        /\ counter[<<q, s, e>>] \in Int
    BY DEF VotesInv, TypeOK
  <2>3. \A m \in {1, -1} :
          waiting'[<<q, e, m>>] = IF q = p /\ e = d /\ m = n THEN waiting[<<q, e, m>>] + 1
                                                            ELSE waiting[<<q, e, m>>]
    BY <1>4, <1>5 DEF VotesInv, TypeOK
  <2>4. CASE q = p /\ s = address
    <3>1. saved'[<<q, s>>] = v
      BY <1>13, <2>4
    <3>2. v = "none" => v # e
      BY DEF Direction
    <3> QED
      BY <1>6, <2>1, <2>2, <2>3, <2>4, <3>1, <3>2 DEF Direction
  <2>5. CASE q # p
    <3>1. saved'[<<q, s>>] = saved[<<q, s>>]
      BY <1>13, <2>5
    <3> QED
      BY <2>1, <2>3, <2>5, <3>1
  <2>6. CASE s # address
    <3>1. saved'[<<q, s>>] = saved[<<q, s>>]
      BY <1>13, <2>6
    <3> QED
      BY <2>1, <2>6, <3>1
  <2> QED
    BY <2>4, <2>5, <2>6
<1>16. ASSUME NEW q \in Posts, OnScreen(q)'
       PROVE  /\ dict'[block'[q].container][<<q, block'[q].server>>] = saved'[<<q, block'[q].server>>]
              /\ block'[q].vote = saved'[<<q, block'[q].server>>]
  <2>1. CASE q = p
    <3>1. block'[p].server = address /\ block'[p].container = home /\ block'[p].vote = v
      BY <1>1, <1>14, RowType DEF VotesInv, TypeOK, OnScreen, Block
    <3> QED
      BY <1>7, <1>8, <1>13, <2>1, <3>1
  <2>2. CASE q # p
    <3>1. OnScreen(q) /\ block'[q] = block[q]
      BY <1>14, <1>16, <2>2 DEF OnScreen
    <3>2. block[q].server \in Servers /\ block[q].container \in Containers
      BY <3>1, RowType DEF VotesInv
    <3>3. saved'[<<q, block[q].server>>] = saved[<<q, block[q].server>>]
      BY <1>13, <2>2, <3>2
    <3>4. dict'[block[q].container] = IF block[q].container = home THEN saved'
                                      ELSE dict[block[q].container]
      BY <1>7, <1>8, <3>2
    <3>5. /\ dict[block[q].container][<<q, block[q].server>>] = saved[<<q, block[q].server>>]
          /\ block[q].vote = saved[<<q, block[q].server>>]
      BY <3>1 DEF VotesInv, ContainersAgree, BlocksTellVotes
    <3> QED
      BY <3>1, <3>3, <3>4, <3>5
  <2> QED
    BY <2>1, <2>2
<1>17. dict'[home'] = saved'
  BY <1>7, <1>8
<1>18. ContainersAgree' /\ BlocksTellVotes'
  BY <1>16, <1>17 DEF ContainersAgree, BlocksTellVotes
<1> QED
  BY <1>11, <1>12, <1>15, <1>18 DEF VotesInv

\* A timer moves a vote from those that wait to those that are counted.
LEMMA TimerFiresKeeps ==
  ASSUME VotesInv, NEW p \in Posts, NEW d \in Direction, NEW n \in {1, -1},
         TimerFires(p, d, n)
  PROVE  VotesInv'
<1> USE DEF VotesInv
<1>1. /\ waiting' = [waiting EXCEPT ![<<p, d, n>>] = @ - 1]
      /\ counter' = [counter EXCEPT ![<<p, address, d>>] = @ + n]
      /\ waiting[<<p, d, n>>] > 0 /\ address \in Servers
      /\ UNCHANGED <<address, saved, dict, home, block, upVoted, downVoted, acts>>
  BY DEF TimerFires, kept, stats
<1>2. TypeOK'
  <2>1. waiting' \in [Posts \X Direction \X {1, -1} -> Nat]
    BY <1>1 DEF TypeOK
  <2>2. counter' \in [Posts \X Servers \X Direction -> Int]
    BY <1>1 DEF TypeOK
  <2> QED
    BY <1>1, <2>1, <2>2 DEF TypeOK
<1>3. NoneWaitsForKeys'
  BY <1>1, VotesAssumption DEF NoneWaitsForKeys
<1>4. ContainersAgree' /\ BlocksTellVotes'
  BY <1>1 DEF ContainersAgree, BlocksTellVotes, OnScreen
<1>5. KeptIsCounted'
  <2> SUFFICES ASSUME NEW q \in Posts, NEW s \in Servers, NEW e \in Direction
               PROVE  counter'[<<q, s, e>>]
                        + (IF s = address THEN waiting'[<<q, e, 1>>] - waiting'[<<q, e, -1>>] ELSE 0)
                        = IF saved[<<q, s>>] = e THEN 1 ELSE 0
    <3>1. UNCHANGED <<address, saved>>
      BY <1>1
    <3> QED
      BY <3>1 DEF KeptIsCounted
  <2>1. counter[<<q, s, e>>]
          + (IF s = address THEN waiting[<<q, e, 1>>] - waiting[<<q, e, -1>>] ELSE 0)
          = IF saved[<<q, s>>] = e THEN 1 ELSE 0
    BY DEF KeptIsCounted
  <2>2. /\ waiting[<<q, e, 1>>] \in Nat /\ waiting[<<q, e, -1>>] \in Nat
        /\ counter[<<q, s, e>>] \in Int
    BY DEF TypeOK
  <2>3. \A m \in {1, -1} :
          waiting'[<<q, e, m>>] = IF q = p /\ e = d /\ m = n THEN waiting[<<q, e, m>>] - 1
                                                            ELSE waiting[<<q, e, m>>]
    BY <1>1 DEF TypeOK
  <2>4. counter'[<<q, s, e>>] = IF q = p /\ s = address /\ e = d THEN counter[<<q, s, e>>] + n
                                                               ELSE counter[<<q, s, e>>]
    BY <1>1 DEF TypeOK
  <2>5. CASE q = p /\ s = address /\ e = d
    BY <2>1, <2>2, <2>3, <2>4, <2>5
  <2>6. CASE s = address /\ ~(q = p /\ e = d)
    BY <2>1, <2>3, <2>4, <2>6
  <2>7. CASE s # address
    BY <2>1, <2>4, <2>7
  <2> QED
    BY <2>5, <2>6, <2>7
<1> QED
  BY <1>2, <1>3, <1>4, <1>5

-----------------------------------------------------------------------------
(* The rest of the application.                                            *)

\* With nothing waiting, what is kept is counted whatever server is looked at.
LEMMA CountedAnywhere ==
  ASSUME TypeOK, KeptIsCounted, NothingWaits,
         UNCHANGED <<saved, counter>>, \A w \in DOMAIN waiting : waiting'[w] = 0
  PROVE  KeptIsCounted'
<1> SUFFICES ASSUME NEW p \in Posts, NEW s \in Servers, NEW d \in Direction
             PROVE  counter[<<p, s, d>>]
                      + (IF s = address' THEN waiting'[<<p, d, 1>>] - waiting'[<<p, d, -1>>] ELSE 0)
                      = IF saved[<<p, s>>] = d THEN 1 ELSE 0
  BY DEF KeptIsCounted
<1>1. /\ waiting[<<p, d, 1>>] = 0 /\ waiting[<<p, d, -1>>] = 0
      /\ waiting'[<<p, d, 1>>] = 0 /\ waiting'[<<p, d, -1>>] = 0
  BY DEF TypeOK, NothingWaits
<1>2. counter[<<p, s, d>>] \in Int
  BY DEF TypeOK
<1>3. counter[<<p, s, d>>]
        + (IF s = address THEN waiting[<<p, d, 1>>] - waiting[<<p, d, -1>>] ELSE 0)
        = IF saved[<<p, s>>] = d THEN 1 ELSE 0
  BY DEF KeptIsCounted
<1> QED
  BY <1>1, <1>2, <1>3

\* A switch or a look-up changes the keys while no vote waits for them.
LEMMA KeysChangeKeeps ==
  ASSUME VotesInv, NothingWaits, address' \in Servers \cup {NoAddress}, acts' \in 0 .. MaxActs,
         UNCHANGED <<kept, block, waiting, counter, stats>>
  PROVE  VotesInv'
<1> USE DEF VotesInv, kept, stats
<1>1. TypeOK'
  BY DEF TypeOK
<1>2. NoneWaitsForKeys'
  BY DEF NoneWaitsForKeys, NothingWaits
<1>3. ContainersAgree' /\ BlocksTellVotes'
  BY DEF ContainersAgree, BlocksTellVotes, OnScreen
<1>4. KeptIsCounted'
  BY CountedAnywhere DEF NothingWaits
<1> QED
  BY <1>1, <1>2, <1>3, <1>4

\* A restart while no vote waits loses none.
LEMMA RestartKeeps ==
  ASSUME VotesInv, NothingWaits, Restart
  PROVE  VotesInv'
<1> USE DEF VotesInv, Restart, stats
<1>1. acts' \in 0 .. MaxActs
  BY VotesAssumption DEF UserActs, TypeOK
<1>2. \A w \in DOMAIN waiting : waiting'[w] = 0
  OBVIOUS
<1>3. TypeOK'
  BY <1>1 DEF TypeOK
<1>4. NoneWaitsForKeys'
  BY <1>2 DEF NoneWaitsForKeys, NothingWaits
<1>5. \A p \in Posts : ~OnScreen(p)'
  BY DEF OnScreen
<1>6. dict'[home'] = saved'
  BY DEF TypeOK
<1>7. ContainersAgree' /\ BlocksTellVotes'
  BY <1>5, <1>6 DEF ContainersAgree, BlocksTellVotes
<1>8. KeptIsCounted'
  BY <1>2, CountedAnywhere
<1> QED
  BY <1>3, <1>4, <1>7, <1>8

\* Every step of a user who votes on present rows keeps the invariant.
LEMMA VotesPreserved ==
  ASSUME VotesInv, [PresentNext]_vars
  PROVE  VotesInv'
<1>1. CASE Elsewhere
  <2>1. CASE LookUp
    <3>1. NothingWaits
      BY <2>1 DEF LookUp, VotesInv, NoneWaitsForKeys
    <3> QED
      BY <2>1, <3>1, KeysChangeKeeps DEF LookUp, VotesInv, TypeOK
  <2> QED
    BY <1>1, <2>1, RowAppearsKeeps, TimerFiresKeeps, ListIsEmptiedKeeps, NewHomeViewKeeps
       DEF Elsewhere
<1>2. CASE \E p \in Posts : InItsPlace(p) /\ BlockIsMadeAgain(p)
  BY <1>2, BlockIsMadeAgainKeeps
<1>3. CASE \E p \in Posts, d \in Direction :
             InItsPlace(p) /\ block[p].container = home /\ Tap(p, d)
  BY <1>3, TapKeeps
<1>4. CASE NothingWaits /\ Switch
  <2>1. acts' \in 0 .. MaxActs
    BY <1>4, VotesAssumption DEF Switch, UserActs, VotesInv, TypeOK
  <2> QED
    BY <1>4, <2>1, KeysChangeKeeps DEF Switch
<1>5. CASE NothingWaits /\ Restart
  BY <1>5, RestartKeeps
<1>6. CASE UNCHANGED vars
  <2> USE DEF VotesInv, vars, kept, stats
  <2>1. TypeOK'
    BY <1>6 DEF TypeOK
  <2>2. NoneWaitsForKeys' /\ KeptIsCounted'
    BY <1>6 DEF NoneWaitsForKeys, NothingWaits, KeptIsCounted
  <2>3. ContainersAgree' /\ BlocksTellVotes'
    BY <1>6 DEF ContainersAgree, BlocksTellVotes, OnScreen
  <2> QED
    BY <2>1, <2>2, <2>3
<1> QED
  BY <1>1, <1>2, <1>3, <1>4, <1>5, <1>6 DEF PresentNext

\* Type correctness of the dictionaries, rows, timers and counters.
THEOREM VotesTypeCorrect == PresentSpec => []TypeOK
<1>1. VotesInv => TypeOK
  BY DEF VotesInv
<1> QED
  BY <1>1, VotesBegin, VotesPreserved, PTL DEF PresentSpec

\* Of a user who votes on rows of the present container, while its keys are there,
\* and lets a vote be counted before a switch or a restart: no vote is counted twice,
\* for and against, or taken back that was not given.  What is counted, or waits to
\* be, is what is kept.
THEOREM VotesAreCounted == PresentSpec => []KeptIsCounted
<1>1. VotesInv => KeptIsCounted
  BY DEF VotesInv
<1> QED
  BY <1>1, VotesBegin, VotesPreserved, PTL DEF PresentSpec

\* Of that user: a row shows the vote that is kept, though an earlier row of the post
\* may have given it.
THEOREM RowsTellVotes == PresentSpec => []BlocksTellVotes
<1>1. VotesInv => BlocksTellVotes
  BY DEF VotesInv
<1> QED
  BY <1>1, VotesBegin, VotesPreserved, PTL DEF PresentSpec

-----------------------------------------------------------------------------
(* The number of the profile.                                              *)

\* The posts, by server, whose kept vote is for them.
Upvotes == {k \in Posts \X Servers : saved[k] = "up"}

\* However many posts and servers there are, finitely many are voted for.
UpvotesCounted ==
  /\ IsFiniteSet(Upvotes)
  /\ upVoted = Cardinality(Upvotes)

\* A tap of a user who votes in place sets the kept vote of its post to what its
\* row will show, and counts against what is kept.
LEMMA TapSaves ==
  ASSUME VotesInv, NEW p \in Posts, NEW d \in Direction,
         InItsPlace(p), block[p].container = home, Tap(p, d)
  PROVE  /\ <<p, address>> \in Posts \X Servers
         /\ \/ /\ saved[<<p, address>>] = "none"
               /\ saved' = [saved EXCEPT ![<<p, address>>] = d]
               /\ Statistics(d, 1)
            \/ /\ saved[<<p, address>>] = d
               /\ saved' = [saved EXCEPT ![<<p, address>>] = "none"]
               /\ Statistics(d, -1)
<1>1. OnScreen(p) /\ block[p].server = address
  BY DEF InItsPlace
<1>2. address \in Servers
  BY <1>1, RowType DEF VotesInv
<1>3. block[p].vote = saved[<<p, address>>] /\ block[p].vote \in {d, "none"}
  BY <1>1 DEF VotesInv, BlocksTellVotes, Tap
<1>4. home \in Containers /\ dict \in [Containers -> Votes] /\ dict[home] = saved
  BY DEF VotesInv, TypeOK, ContainersAgree
<1>5. \A vote : Keep(p, home, vote) => saved' = [saved EXCEPT ![<<p, address>>] = vote]
  BY <1>4 DEF Keep
<1>6. d # "none"
  BY DEF Direction
<1>7. CASE block[p].vote = d
  <2>1. Keep(p, home, "none") /\ Statistics(d, -1)
    BY <1>7 DEF Tap
  <2> QED
    BY <1>2, <1>3, <1>5, <1>7, <2>1
<1>8. CASE block[p].vote = "none"
  <2>1. Keep(p, home, d) /\ Statistics(d, 1)
    BY <1>6, <1>8 DEF Tap
  <2> QED
    BY <1>2, <1>3, <1>5, <1>8, <2>1
<1> QED
  BY <1>3, <1>7, <1>8

\* A tap moves the number of the profile with the set of the posts voted for.
LEMMA TapCounts ==
  ASSUME VotesInv, UpvotesCounted, NEW p \in Posts, NEW d \in Direction,
         InItsPlace(p), block[p].container = home, Tap(p, d)
  PROVE  UpvotesCounted'
<1> DEFINE k == <<p, address>>
<1>1. saved \in Votes
  BY DEF VotesInv, TypeOK
<1>2. k \in Posts \X Servers
  BY TapSaves
<1>3. \A vote : saved' = [saved EXCEPT ![k] = vote] =>
        \A j \in Posts \X Servers : saved'[j] = IF j = k THEN vote ELSE saved[j]
  BY <1>1, <1>2 DEF Votes
<1>4. CASE d = "down"
  <2>1. saved[k] # "up" /\ upVoted' = upVoted
    BY <1>4, TapSaves DEF Statistics
  <2>2. \E vote : vote # "up" /\ saved' = [saved EXCEPT ![k] = vote]
    BY <1>4, TapSaves
  <2>3. Upvotes' = Upvotes
    BY <1>2, <1>3, <2>1, <2>2 DEF Upvotes
  <2> QED
    BY <2>1, <2>3 DEF UpvotesCounted
<1>5. CASE d = "up" /\ saved[k] = "none"
  <2>1. saved' = [saved EXCEPT ![k] = "up"] /\ upVoted' = upVoted + 1
    BY <1>5, TapSaves DEF Statistics
  <2>2. \A j \in Posts \X Servers : saved'[j] = IF j = k THEN "up" ELSE saved[j]
    BY <1>3, <2>1
  <2> HIDE DEF k
  <2>3. Upvotes' = Upvotes \cup {k} /\ k \notin Upvotes
    BY <1>2, <1>5, <2>2 DEF Upvotes
  <2> QED
    BY <2>1, <2>3, FS_AddElement DEF UpvotesCounted
<1>6. CASE d = "up" /\ saved[k] = "up"
  <2>1. saved' = [saved EXCEPT ![k] = "none"] /\ upVoted' = upVoted - 1
    BY <1>6, TapSaves DEF Statistics
  <2>2. \A j \in Posts \X Servers : saved'[j] = IF j = k THEN "none" ELSE saved[j]
    BY <1>3, <2>1
  <2> HIDE DEF k
  <2>3. Upvotes' = Upvotes \ {k} /\ k \in Upvotes
    BY <1>2, <1>6, <2>2 DEF Upvotes
  <2> QED
    BY <2>1, <2>3, FS_RemoveElement DEF UpvotesCounted
<1> QED
  BY <1>4, <1>5, <1>6, TapSaves DEF Direction

\* Whatever else happens leaves the saved votes and the number alone.
LEMMA OthersCount ==
  ASSUME Elsewhere \/ (\E p \in Posts : BlockIsMadeAgain(p)) \/ Switch \/ Restart
         \/ UNCHANGED vars
  PROVE  UNCHANGED <<saved, upVoted>>
BY DEF Elsewhere, RowAppears, TimerFires, ListIsEmptied, NewHomeView, LookUp,
   BlockIsMadeAgain, Switch, Restart, vars, kept, stats

\* Of that user: the profile counts the posts that are voted for, on all servers
\* together, each once: through votes taken back, switches and new containers.
THEOREM ProfileCountsUpvotes == PresentSpec => []PostsUpvoted
<1>1. Init => UpvotesCounted
  <2> SUFFICES ASSUME Init PROVE UpvotesCounted
    OBVIOUS
  <2>1. Upvotes = {}
    BY DEF Init, Upvotes
  <2> QED
    BY <2>1, FS_EmptySet DEF UpvotesCounted, Init
<1>2. ASSUME VotesInv, UpvotesCounted, [PresentNext]_vars
      PROVE  UpvotesCounted'
  <2>1. CASE \E p \in Posts, d \in Direction :
               InItsPlace(p) /\ block[p].container = home /\ Tap(p, d)
    BY <1>2, <2>1, TapCounts
  <2>2. CASE ~ \E p \in Posts, d \in Direction :
                 InItsPlace(p) /\ block[p].container = home /\ Tap(p, d)
    <3>1. UNCHANGED <<saved, upVoted>>
      BY <1>2, <2>2, OthersCount DEF PresentNext
    <3> QED
      BY <1>2, <3>1 DEF UpvotesCounted, Upvotes
  <2> QED
    BY <2>1, <2>2
<1>3. UpvotesCounted => PostsUpvoted
  BY DEF UpvotesCounted, Upvotes, PostsUpvoted
<1> QED
  BY <1>1, <1>2, <1>3, VotesBegin, VotesPreserved, PTL DEF PresentSpec
=============================================================================
