------------------------------- MODULE Votes ---------------------------------
(***************************************************************************)
(* Votes of one device.  A VotesBlock under a post shows what the user      *)
(* voted; a tap is kept at once, in the VotesContainer the block was given, *)
(* which writes its whole dictionary to UserDefaults; and it is counted in  *)
(* Firestore by a timer that waits for the keys.  The dictionary and the    *)
(* counters are filed under the ContractAddress in the keychain, as it is   *)
(* when each is written.                                                    *)
(*                                                                         *)
(* The keychain is ServerSelection's, seen from outside: a switch or a      *)
(* start deletes the keys, a look-up brings some server's.  HomeView2 makes *)
(* a new container whenever it is initialised again, which any change of    *)
(* the list it observes does; the rows it drew keep the one they had.       *)
(***************************************************************************)
EXTENDS Integers, FiniteSets

CONSTANTS
  Posts,       \* numbers of posts, the same on every server
  Servers,     \* contract addresses
  Containers,  \* names for the VotesContainer objects in use
  MaxActs      \* bound on the steps the user takes

NoAddress == "error"   \* how a missing ContractAddress reads

ASSUME VotesAssumption ==
  /\ NoAddress \notin Servers /\ "absent" \notin Servers
  /\ MaxActs \in Nat

VARIABLES
  address,    \* the ContractAddress in the keychain
  saved,      \* UserDefaults "VotesContainer": vote by post and address
  dict,       \* votesDictionary of each container
  home,       \* the container of the present HomeView2
  block,      \* the VotesBlock of each post
  waiting,    \* timers that wait for keys: by post, direction and amount
  counter,    \* what this device added to the counters in Firestore
  upVoted,    \* UserDefaults "dVoxUpVotedPosts"
  downVoted,  \* UserDefaults "dVoxDownVotedPosts"
  acts        \* steps the user has taken

kept  == <<saved, dict, home>>
stats == <<upVoted, downVoted>>
vars  == <<address, kept, block, waiting, counter, stats, acts>>

-----------------------------------------------------------------------------
\* A vote that was taken back is stored as "404" and reads as one that was
\* never given.
Direction == {"up", "down"}
Vote      == Direction \cup {"none"}
Votes     == [Posts \X (Servers \cup {NoAddress}) -> Vote]

\* A block shows the post of a server, or is not on screen.
Block  == [server : Servers, container : Containers, vote : Vote]
Absent == [server |-> "absent", container |-> "absent", vote |-> "none"]

TypeOK ==
  /\ address \in Servers \cup {NoAddress}
  /\ saved \in Votes
  /\ dict \in [Containers -> Votes]
  /\ home \in Containers
  /\ block \in [Posts -> Block \cup {Absent}]
  /\ waiting \in [Posts \X Direction \X {1, -1} -> Nat]
  /\ counter \in [Posts \X Servers \X Direction -> Int]
  /\ upVoted \in Int
  /\ downVoted \in Int
  /\ acts \in 0 .. MaxActs

UserActs == /\ acts < MaxActs
            /\ acts' = acts + 1

OnScreen(p) == block[p] # Absent

NothingWaits == \A w \in DOMAIN waiting : waiting[w] = 0

\* VotesBlock.init with what its container answers under the present address.
NewBlock(p, server, c) ==
  [server |-> server, container |-> c, vote |-> dict[c][<<p, address>>]]

-----------------------------------------------------------------------------
\* A page brings a row; its post was read from the contract the keychain names.
RowAppears(p) ==
  /\ ~OnScreen(p)
  /\ address \in Servers
  /\ block' = [block EXCEPT ![p] = NewBlock(p, address, home)]
  /\ UNCHANGED <<address, kept, waiting, counter, stats, acts>>

\* The comments of the post open with the row's container, and closing them
\* draws the row again: each makes a new block.
BlockIsMadeAgain(p) ==
  /\ OnScreen(p)
  /\ \E c \in {block[p].container, home} :
       block' = [block EXCEPT ![p] = NewBlock(p, block[p].server, c)]
  /\ UNCHANGED <<address, kept, waiting, counter, stats, acts>>

\* A refresh, or the return to the home tab after a switch.
ListIsEmptied ==
  /\ block' = [p \in Posts |-> Absent]
  /\ UNCHANGED <<address, kept, waiting, counter, stats, acts>>

\* Deviation: the container starts empty.
NewHomeViewForgets(c) ==
  /\ \A p \in Posts : OnScreen(p) => block[p].container # c
  /\ home' = c
  /\ dict' = [dict EXCEPT ![c] = [k \in Posts \X (Servers \cup {NoAddress}) |-> "none"]]
  /\ UNCHANGED <<address, saved, block, waiting, counter, stats, acts>>

\* HomeView2.init: its container starts from what is saved.
NewHomeView(c) ==
  /\ \A p \in Posts : OnScreen(p) => block[p].container # c
  /\ home' = c
  /\ dict' = [dict EXCEPT ![c] = saved]
  /\ UNCHANGED <<address, saved, block, waiting, counter, stats, acts>>

\* addVote.
Keep(p, c, vote) ==
  /\ dict' = [dict EXCEPT ![c][<<p, address>>] = vote]
  /\ saved' = dict'[c]
  /\ UNCHANGED home

Statistics(d, n) ==
  /\ upVoted'   = IF d = "up"   THEN upVoted + n   ELSE upVoted
  /\ downVoted' = IF d = "down" THEN downVoted + n ELSE downVoted

\* Deviation: the other thumb is not looked at.
TapAnyway(p, d) ==
  /\ OnScreen(p)
  /\ UserActs
  /\ LET n    == IF block[p].vote = d THEN -1 ELSE 1
         vote == IF n = 1 THEN d ELSE "none"
     IN  /\ block' = [block EXCEPT ![p].vote = vote]
         /\ Keep(p, block[p].container, vote)
         /\ Statistics(d, n)
         /\ waiting' = [waiting EXCEPT ![<<p, d, n>>] = @ + 1]
  /\ UNCHANGED <<address, counter>>

\* A tap on a thumb gives the vote or takes it back, unless the other thumb is
\* chosen; voteUp and voteDown keep it and start a timer.
Tap(p, d) ==
  /\ OnScreen(p)
  /\ block[p].vote \in {d, "none"}
  /\ UserActs
  /\ LET n    == IF block[p].vote = d THEN -1 ELSE 1
         vote == IF n = 1 THEN d ELSE "none"
     IN  /\ block' = [block EXCEPT ![p].vote = vote]
         /\ Keep(p, block[p].container, vote)
         /\ Statistics(d, n)
         /\ waiting' = [waiting EXCEPT ![<<p, d, n>>] = @ + 1]
  /\ UNCHANGED <<address, counter>>

\* Deviation: a timer that was invalidated fires.
TimerFiresLate(p, d, n) ==
  /\ address \in Servers
  /\ waiting' = [waiting EXCEPT ![<<p, d, n>>] = @ - 1]
  /\ counter' = [counter EXCEPT ![<<p, address, d>>] = @ + n]
  /\ UNCHANGED <<address, kept, block, stats, acts>>

\* Deviation: the timer is not invalidated.
TimerFiresAgain(p, d, n) ==
  /\ waiting[<<p, d, n>>] > 0
  /\ address \in Servers
  /\ counter' = [counter EXCEPT ![<<p, address, d>>] = @ + n]
  /\ UNCHANGED <<address, kept, block, waiting, stats, acts>>

\* The timer sees the keys and has Firestore add to the counter.  Its main-queue
\* block invalidates it before it can fire again.
TimerFires(p, d, n) ==
  /\ waiting[<<p, d, n>>] > 0
  /\ address \in Servers
  /\ waiting' = [waiting EXCEPT ![<<p, d, n>>] = @ - 1]
  /\ counter' = [counter EXCEPT ![<<p, address, d>>] = @ + n]
  /\ UNCHANGED <<address, kept, block, stats, acts>>

-----------------------------------------------------------------------------
(* The rest of the application.                                            *)

Switch ==
  /\ UserActs
  /\ address' = NoAddress
  /\ UNCHANGED <<kept, block, waiting, counter, stats>>

LookUp ==
  /\ address = NoAddress
  /\ address' \in Servers
  /\ UNCHANGED <<kept, block, waiting, counter, stats, acts>>

\* The process ends and starts again: timers and objects go, SmartContract's
\* init deletes the keys.
Restart ==
  /\ UserActs
  /\ address' = NoAddress
  /\ block' = [p \in Posts |-> Absent]
  /\ waiting' = [w \in DOMAIN waiting |-> 0]
  /\ dict' = [c \in Containers |-> saved]
  /\ UNCHANGED <<saved, home, counter, stats>>

Init ==
  /\ address = NoAddress
  /\ saved = [k \in Posts \X (Servers \cup {NoAddress}) |-> "none"]
  /\ dict = [c \in Containers |-> saved]
  /\ home \in Containers
  /\ block = [p \in Posts |-> Absent]
  /\ waiting = [w \in Posts \X Direction \X {1, -1} |-> 0]
  /\ counter = [k \in Posts \X Servers \X Direction |-> 0]
  /\ upVoted = 0 /\ downVoted = 0
  /\ acts = 0

\* What comes of itself.
Elsewhere ==
  \/ \E p \in Posts : RowAppears(p)
  \/ \E p \in Posts, d \in Direction, n \in {1, -1} : TimerFires(p, d, n)
  \/ ListIsEmptied
  \/ \E c \in Containers : NewHomeView(c)
  \/ LookUp

Next ==
  \/ Elsewhere
  \/ \E p \in Posts : BlockIsMadeAgain(p)
  \/ \E p \in Posts, d \in Direction : Tap(p, d)
  \/ Switch
  \/ Restart

Spec == Init /\ [][Next]_vars

-----------------------------------------------------------------------------
(* A user who votes, and opens comments, only while the keys of the post's  *)
(* server are there, changes the server or ends the application only when   *)
(* no vote waits to be counted, and, if one can be that lucky, never votes  *)
(* on a row that was drawn by an earlier HomeView2.                         *)

InItsPlace(p) == OnScreen(p) /\ block[p].server = address

PresentNext ==
  \/ Elsewhere
  \/ \E p \in Posts : InItsPlace(p) /\ BlockIsMadeAgain(p)
  \/ \E p \in Posts, d \in Direction :
       InItsPlace(p) /\ block[p].container = home /\ Tap(p, d)
  \/ NothingWaits /\ (Switch \/ Restart)

PresentSpec == Init /\ [][PresentNext]_vars

\* What is kept of a post and what is counted of it, or about to be, agree on
\* every server: no vote is counted twice, none for and against, none is taken
\* back that was not given.  Counter, timers and dictionary are written by
\* different steps, and the dictionary as a whole by several containers.
KeptIsCounted ==
  \A p \in Posts, s \in Servers, d \in Direction :
    counter[<<p, s, d>>] + (IF s = address THEN waiting[<<p, d, 1>>] - waiting[<<p, d, -1>>] ELSE 0)
      = IF saved[<<p, s>>] = d THEN 1 ELSE 0

\* A block shows the vote that is kept, whichever container it was made from and
\* whatever was voted since through others.
BlocksTellVotes ==
  \A p \in Posts : OnScreen(p) => block[p].vote = saved[<<p, block[p].server>>]

\* ProfileView.swift:119, "Posts upvoted: ...": the number the profile shows is
\* that of the posts whose kept vote is for them.
PostsUpvoted ==
  upVoted = Cardinality({k \in Posts \X Servers : saved[k] = "up"})
=============================================================================
