------------------------------ MODULE PostFeed -------------------------------
(***************************************************************************)
(* The feed of one server: PostLoader2 reads pages of posts from the        *)
(* contract in the background, HomeView2 asks for pages and shows them.     *)
(*                                                                         *)
(* A page is a job with a life of its own: a timer on the main queue waits  *)
(* for the contract, a background thread reads one post after the other and *)
(* hands each to the main queue, and a last block shows what has gathered.  *)
(* All jobs gather in the same array (PostLoader2.posts), and nothing keeps *)
(* a second job from starting while the first is under way.                 *)
(*                                                                         *)
(* The saved Items and the list shown are emptied together and refilled     *)
(* together, so one variable stands for both; the list is sorted by post    *)
(* number, so only the number of copies of each post is kept.               *)
(***************************************************************************)
EXTENDS Integers, Sequences

CONSTANTS
  Jobs,        \* names for the pages being loaded: bounds how many there are
  MaxPosts,    \* bound on the posts of the server
  FirstPage,   \* posts asked for by a reload (12 in the code)
  NextPage,    \* posts asked for at the end of the list (8 in the code)
  MaxActs,     \* bound on the steps the user takes
  Title,       \* post -> its title
  Banned,      \* the posts the server itself marks as banned
  ReadFails    \* may reading the contract fail?

Posts == 1 .. MaxPosts

ASSUME PostsAssumption ==
  /\ MaxPosts \in Nat /\ MaxActs \in Nat
  /\ FirstPage \in Nat \ {0} /\ NextPage \in Nat \ {0}
  /\ Banned \subseteq Posts /\ ReadFails \in BOOLEAN

VARIABLES
  loaded,         \* SmartContract.loaded
  count,          \* posts on the server: postCount of the contract
  job,            \* Jobs -> the page that job is loading
  gathered,       \* PostLoader2.posts: copies of each post
  gatheredUnread, \* those of them whose read failed
  items,          \* PostLoader2.items and the saved Items: copies of each post
  unread,         \* those of them whose read failed: rows without text
  noMorePosts,    \* PostLoader2.noMorePosts
  hidden,         \* BanContainer: the posts the user hid
  blocked,        \* BanAuthorContainer: what the user blocked
  serverChanged,  \* UserDefaults "SERVER_CHANGED"
  released,       \* refresh.released: the list was pulled, the refresh is on its way
  due,            \* refreshes scheduled, one second ahead, and not yet run
  acts            \* steps the user has taken

user    == <<hidden, blocked>>
array   == <<gathered, gatheredUnread>>
rows    == <<items, unread>>
loading == <<job, array>>
flags   == <<serverChanged, released, due>>
vars    == <<loaded, count, loading, rows, noMorePosts, user, flags, acts>>

-----------------------------------------------------------------------------
\* "timer" and "count" keep in id the currentId they were asked for (0 for the
\* code's -1); "read" the next post of the background thread, left how many more
\* it reads, and waiting what it read and the main queue has not yet got: posts
\* id + 1 .. id + Len(waiting), the highest first.
Stage   == {"idle", "timer", "count", "read", "flush"}
Outcome == {"post", "unread", "banned", "skipped"}
Page    == [stage : Stage, id : 0 .. MaxPosts, left : 0 .. FirstPage + NextPage,
            waiting : Seq(Outcome)]
Idle    == [stage |-> "idle", id |-> 0, left |-> 0, waiting |-> <<>>]

Asked(id, n) == [stage |-> "timer", id |-> id, left |-> n, waiting |-> <<>>]

NoPosts == [p \in Posts |-> 0]

\* The title of a post whose read failed.
NoTitle == ""

TypeOK ==
  /\ loaded \in BOOLEAN
  /\ count \in 0 .. MaxPosts
  /\ job \in [Jobs -> Page]
  /\ gathered \in [Posts -> Nat] /\ gatheredUnread \in [Posts -> Nat]
  /\ items \in [Posts -> Nat] /\ unread \in [Posts -> Nat]
  /\ noMorePosts \in BOOLEAN
  /\ hidden \subseteq Posts
  /\ blocked \subseteq {Title[p] : p \in Posts} \cup {NoTitle}
  /\ serverChanged \in BOOLEAN
  /\ released \in BOOLEAN
  /\ due \in Nat
  /\ acts \in 0 .. MaxActs

InList(p)    == items[p] > 0
ListIsEmpty  == \A p \in Posts : ~InList(p)
IsLast(p)    == InList(p) /\ \A q \in Posts : InList(q) => q >= p
IsFirst(p)   == InList(p) /\ \A q \in Posts : InList(q) => q <= p

UserActs == /\ acts < MaxActs
            /\ acts' = acts + 1

\* loadMore starts its timer.
Load(id, n) == \E j \in Jobs :
  /\ job[j].stage = "idle"
  /\ job' = [job EXCEPT ![j] = Asked(id, n)]

\* Deviation: the list is emptied and noMorePosts is left as it was.
ReloadKeepsEnd ==
  /\ items' = NoPosts /\ unread' = NoPosts
  /\ noMorePosts' = noMorePosts
  /\ Load(0, FirstPage)

\* What a reload does everywhere: empty the list (getPosts with index 0 deletes
\* the saved Items), ask for the first page, and forget that the end was seen.
Reload ==
  /\ items' = NoPosts /\ unread' = NoPosts
  /\ noMorePosts' = FALSE
  /\ Load(0, FirstPage)

-----------------------------------------------------------------------------
(* A page: each action is a step of one of its jobs' blocks or threads.    *)

ContractLoads ==
  /\ ~loaded
  /\ loaded' = TRUE
  /\ UNCHANGED <<count, loading, rows, noMorePosts, user, flags, acts>>

TimerFires(j) ==
  /\ job[j].stage = "timer"
  /\ loaded
  /\ job' = [job EXCEPT ![j].stage = "count"]
  /\ UNCHANGED <<loaded, count, array, rows, noMorePosts, user, flags, acts>>

\* Deviation: the next page begins two below the last post, as CommentLoader's.
CountPostsSkips(j) ==
  /\ job[j].stage = "count"
  /\ \E top \in IF job[j].id # 0 THEN {job[j].id - 2} ELSE {count} :
       job' = [job EXCEPT ![j] = IF top > 0 THEN [@ EXCEPT !.stage = "read", !.id = top]
                                            ELSE Idle]
  /\ UNCHANGED <<loaded, count, array, rows, noMorePosts, user, flags, acts>>

\* Deviation: a page that finds no posts asks again.
CountPostsRetries(j) ==
  /\ job[j].stage = "count"
  /\ \E top \in IF job[j].id # 0 THEN {job[j].id - 1} ELSE {count} :
       job' = [job EXCEPT ![j] = IF top > 0 THEN [@ EXCEPT !.stage = "read", !.id = top]
                                            ELSE @]
  /\ UNCHANGED <<loaded, count, array, rows, noMorePosts, user, flags, acts>>

\* getPostCount answers 0 when the call fails.  A page without posts ends here:
\* its last block is never posted.
CountPosts(j) ==
  /\ job[j].stage = "count"
  /\ \E top \in IF job[j].id # 0 THEN {job[j].id - 1}
                ELSE {count} \cup (IF ReadFails THEN {0} ELSE {}) :
       job' = [job EXCEPT ![j] = IF top > 0 THEN [@ EXCEPT !.stage = "read", !.id = top]
                                            ELSE Idle]
  /\ UNCHANGED <<loaded, count, array, rows, noMorePosts, user, flags, acts>>

\* What the contract answers: a call that fails leaves a post with the right
\* number and no text, whose empty title is then looked up like any other.
Answers(p) ==
  (IF Title[p] \in blocked THEN {"skipped"}
   ELSE IF p \in Banned THEN {"banned"}
   ELSE {"post"})
  \cup (IF ~ReadFails THEN {}
        ELSE IF NoTitle \in blocked THEN {"skipped"}
        ELSE {"unread"})

\* Deviation: only the authors are looked up, not the hidden posts.
GetPostHidden(p) == Answers(p)

\* getPost: a hidden post and a blocked title come back as post -1, banned.
GetPost(p) == IF p \in hidden THEN {"skipped"} ELSE Answers(p)

\* Deviation: the loop counts the posts of the page, and not down to post 1.
ReadPostPastFirst(j) ==
  /\ job[j].stage = "read"
  /\ \E got \in GetPost(job[j].id) :
       job' = [job EXCEPT ![j] =
                 [stage   |-> IF @.left = 1 THEN "flush" ELSE "read",
                  id      |-> @.id - 1,
                  left    |-> @.left - 1,
                  waiting |-> Append(@.waiting, got)]]
  /\ UNCHANGED <<loaded, count, array, rows, noMorePosts, user, flags, acts>>

\* The background thread reads one post and posts a block for it to the main
\* queue; it does not wait for that block.
ReadPost(j) ==
  /\ job[j].stage = "read"
  /\ \E got \in GetPost(job[j].id) :
       job' = [job EXCEPT ![j] =
                 [stage   |-> IF @.id = 1 \/ @.left = 1 THEN "flush" ELSE "read",
                  id      |-> @.id - 1,
                  left    |-> @.left - 1,
                  waiting |-> Append(@.waiting, got)]]
  /\ UNCHANGED <<loaded, count, array, rows, noMorePosts, user, flags, acts>>

\* The main queue's block for one post; post 1 is the end of the feed, unless it
\* came back as post -1.
AppendPost(j) ==
  /\ job[j].waiting # <<>>
  /\ LET p   == job[j].id + Len(job[j].waiting)
         got == Head(job[j].waiting)
     IN  /\ gathered' = IF got \in {"post", "unread"}
                        THEN [gathered EXCEPT ![p] = @ + 1] ELSE gathered
         /\ gatheredUnread' = IF got = "unread"
                              THEN [gatheredUnread EXCEPT ![p] = @ + 1] ELSE gatheredUnread
         /\ noMorePosts' = (noMorePosts \/ (got # "skipped" /\ p = 1))
  /\ job' = [job EXCEPT ![j].waiting = Tail(@)]
  /\ UNCHANGED <<loaded, count, rows, user, flags, acts>>

\* Deviation: the array is emptied before it is saved.
FlushEmptied(j) ==
  /\ job[j].stage = "flush" /\ job[j].waiting = <<>>
  /\ gathered' = NoPosts /\ gatheredUnread' = NoPosts
  /\ UNCHANGED rows
  /\ job' = [job EXCEPT ![j] = Idle]
  /\ UNCHANGED <<loaded, count, noMorePosts, user, flags, acts>>

\* Whatever has gathered, of this page or another, is saved, and all that is saved
\* is shown.
SaveGathered ==
  /\ items'  = [p \in Posts |-> items[p] + gathered[p]]
  /\ unread' = [p \in Posts |-> unread[p] + gatheredUnread[p]]

\* Deviation: the array is not emptied after it is saved.
FlushKept(j) ==
  /\ job[j].stage = "flush" /\ job[j].waiting = <<>>
  /\ SaveGathered
  /\ job' = [job EXCEPT ![j] = Idle]
  /\ UNCHANGED <<loaded, count, array, noMorePosts, user, flags, acts>>

\* The page's last block.
Flush(j) ==
  /\ job[j].stage = "flush" /\ job[j].waiting = <<>>
  /\ SaveGathered
  /\ gathered' = NoPosts /\ gatheredUnread' = NoPosts
  /\ job' = [job EXCEPT ![j] = Idle]
  /\ UNCHANGED <<loaded, count, noMorePosts, user, flags, acts>>

-----------------------------------------------------------------------------
(* The user, and the other users of the server.                            *)

PostCreated ==
  /\ count < MaxPosts
  /\ count' = count + 1
  /\ UNCHANGED <<loaded, loading, rows, noMorePosts, user, flags, acts>>

\* The last row comes on screen.
LastRowAppears ==
  /\ ~noMorePosts
  /\ UserActs
  /\ \E p \in Posts : IsLast(p) /\ Load(p, NextPage)
  /\ UNCHANGED <<loaded, count, array, rows, noMorePosts, user, flags>>

\* Pull to refresh, which needs a list to pull: the refresh comes a second later.
PullToRefresh ==
  /\ ~ListIsEmpty
  /\ ~released
  /\ UserActs
  /\ released' = TRUE
  /\ due' = due + 1
  /\ UNCHANGED <<loaded, count, loading, rows, noMorePosts, user, serverChanged>>

\* The refresh is skipped when the view's offset is no longer that of the pull,
\* which takes a reset of the offset, by HomeAppears or another refresh.
RefreshFires ==
  /\ due > 0
  /\ due' = due - 1
  /\ \/ /\ released' = FALSE
        /\ Reload
     \/ /\ released => due > 1
        /\ UNCHANGED <<released, job, rows, noMorePosts>>
  /\ UNCHANGED <<loaded, count, array, user, serverChanged, acts>>

\* Deviation: what is hidden is the row's index, which begins with 0.
HidePostIndex ==
  /\ UserActs
  /\ \E p \in Posts : IsFirst(p) /\ hidden' = hidden \cup {0}
  /\ UNCHANGED <<loaded, count, loading, rows, noMorePosts, blocked, flags>>

\* postOptions(0): the row is starred out where it stands, the list stays.
HidePost ==
  /\ UserActs
  /\ \E p \in Posts : InList(p) /\ hidden' = hidden \cup {p}
  /\ UNCHANGED <<loaded, count, loading, rows, noMorePosts, blocked, flags>>

\* postOptions(1): what is blocked is the row's title, which is empty in a row
\* whose read failed.
BlockAuthor ==
  /\ UserActs
  /\ \E p \in Posts :
       \/ items[p] > unread[p] /\ blocked' = blocked \cup {Title[p]}
       \/ unread[p] > 0 /\ blocked' = blocked \cup {NoTitle}
  /\ Reload
  /\ UNCHANGED <<loaded, count, array, hidden, flags>>

\* SettingsView.popUpAction: each reset asks for a reload of the home tab.
ResetHidden ==
  /\ UserActs
  /\ hidden' = {}
  /\ serverChanged' = TRUE
  /\ UNCHANGED <<loaded, count, loading, rows, noMorePosts, blocked,
                 released, due>>

UnblockAuthors ==
  /\ UserActs
  /\ blocked' = {}
  /\ serverChanged' = TRUE
  /\ UNCHANGED <<loaded, count, loading, rows, noMorePosts, hidden, released, due>>

\* HomeView2's onAppear; the refreshes that are due stay due.
HomeAppears ==
  /\ serverChanged
  /\ serverChanged' = FALSE
  /\ released' = FALSE
  /\ Reload
  /\ UNCHANGED <<loaded, count, array, user, due, acts>>

\* PostLoader2's init asks for the first page.
Init ==
  /\ loaded = FALSE
  /\ count \in 0 .. MaxPosts
  /\ \E j \in Jobs : job = [k \in Jobs |-> IF k = j THEN Asked(0, FirstPage) ELSE Idle]
  /\ gathered = NoPosts /\ gatheredUnread = NoPosts
  /\ items = NoPosts /\ unread = NoPosts /\ noMorePosts = FALSE
  /\ hidden = {} /\ blocked = {}
  /\ serverChanged = FALSE /\ released = FALSE /\ due = 0
  /\ acts = 0

JobStep(j) ==
  TimerFires(j) \/ CountPosts(j) \/ ReadPost(j) \/ AppendPost(j) \/ Flush(j)

UserStep ==
  LastRowAppears \/ PullToRefresh \/ HidePost \/ BlockAuthor \/ ResetHidden
    \/ UnblockAuthors \/ HomeAppears

Next ==
  \/ ContractLoads
  \/ \E j \in Jobs : JobStep(j)
  \/ RefreshFires
  \/ PostCreated
  \/ UserStep

Spec == Init /\ [][Next]_vars

\* Queues and threads run, the contract loads; nothing is assumed of users.
FairSpec == /\ Spec
            /\ WF_vars(ContractLoads)
            /\ \A j \in Jobs : WF_vars(JobStep(j))

-----------------------------------------------------------------------------
\* The background thread asks the contract only for posts that exist: pages that
\* begin below the last row end at post 1 (loadMore's two tests of the number).
PagesAtPosts == \A j \in Jobs : job[j].stage = "read" => job[j].id \in 1 .. count

\* However pages overlap, a post that was read and gathered is shown by the next
\* block that shows anything: none is lost with another page's array.
GatheredIsShown == \A p \in Posts : (gathered[p] > 0) ~> InList(p)

\* Every page that starts comes to its end.
PagesEnd == \A j \in Jobs : (job[j].stage # "idle") ~> (job[j].stage = "idle")

-----------------------------------------------------------------------------
(* The user who lets a page or a refresh finish before the next step.       *)

AllIdle == \A j \in Jobs : job[j].stage = "idle"

OneAtATime == UserStep => AllIdle /\ due = 0

CalmSpec == Init /\ [][Next /\ OneAtATime]_vars

\* What a post must be to be shown now.
Visible(p) == p \notin hidden \cup Banned /\ Title[p] \notin blocked

\* No post has two rows.
NoDuplicates == \A p \in Posts : items[p] <= 1

\* A reset of the hides and blocks waits for the home tab to reload; and whoever
\* has blocked the empty title of an unread row is shown no post whose read fails.
Whole == ~serverChanged /\ NoTitle \notin blocked

\* The list has no holes: between its first and its last row, a post that may be
\* shown is there.
NoGaps ==
  Whole => \A p, q, r \in Posts :
    IsFirst(p) /\ IsLast(q) /\ q < r /\ r < p /\ Visible(r) => InList(r)

\* When the view stops asking for more, everything older than the first row that
\* may be shown is in the list.
EndMeansEnd ==
  noMorePosts /\ AllIdle /\ Whole => \A p, r \in Posts :
    IsFirst(p) /\ r < p /\ Visible(r) => InList(r)

\* No row with a text enters the list that the user hid, whose title is blocked or
\* that the server bans.
OnlyVisibleEnters ==
  [][\A p \in Posts : items'[p] - unread'[p] > items[p] - unread[p] => Visible(p)]_vars
=============================================================================
