--------------------------- MODULE PostFeedProofs ----------------------------
(***************************************************************************)
(* Proofs about PostFeed, for any server, page sizes and number of jobs.    *)
(***************************************************************************)
EXTENDS PostFeed, TLAPS

\* Why pages stay within the feed: what a page still has to read and what waits
\* for the main queue are posts that exist, and the list only has such posts; rows
\* without text are rows.
PageOK(page) ==
  /\ page \in Page
  /\ page.id + Len(page.waiting) <= count
  /\ page.stage \in {"timer", "count"} => page.left >= 1 /\ page.waiting = <<>>
  /\ page.stage = "read" => page.left >= 1 /\ page.id >= 1

PagesInv == \A j \in Jobs : PageOK(job[j])
ListInv  == \A p \in Posts :
  /\ items[p] > 0 \/ gathered[p] > 0 => p <= count
  /\ unread[p] <= items[p] /\ gatheredUnread[p] <= gathered[p]

FeedInv == TypeOK /\ PagesInv /\ ListInv

-----------------------------------------------------------------------------
\* Counting a step of the user stays within the bound.
LEMMA ActsType ==
  ASSUME acts \in 0 .. MaxActs, UserActs
  PROVE  acts' \in 0 .. MaxActs
BY PostsAssumption DEF UserActs

\* An idle job is in order.
LEMMA IdleOK ==
  ASSUME TypeOK
  PROVE  PageOK(Idle)
<1>1. Idle.waiting = <<>> /\ <<>> \in Seq(Outcome) /\ Len(<<>>) = 0
  BY DEF Idle
<1>2. Idle \in Page
  BY <1>1, PostsAssumption DEF Idle, Page, Stage
<1> QED
  BY <1>1, <1>2, PostsAssumption DEF PageOK, TypeOK, Idle

\* So is a page that was just asked for, below a post that exists.
LEMMA AskedOK ==
  ASSUME TypeOK, NEW id \in 0 .. count, NEW n \in {FirstPage, NextPage}
  PROVE  PageOK(Asked(id, n))
<1>1. n \in 0 .. FirstPage + NextPage /\ n >= 1 /\ id \in 0 .. MaxPosts
  BY PostsAssumption DEF TypeOK
<1>2. Asked(id, n).waiting = <<>> /\ <<>> \in Seq(Outcome) /\ Len(<<>>) = 0
  BY DEF Asked
<1>3. Asked(id, n) \in Page
  BY <1>1, <1>2 DEF Asked, Page, Stage
<1> QED
  BY <1>1, <1>2, <1>3, PostsAssumption DEF PageOK, TypeOK, Asked

\* Putting one page that is in order in the table keeps the table in order.
LEMMA OnePage ==
  ASSUME TypeOK, PagesInv, count' = count,
         NEW j \in Jobs, NEW page, PageOK(page),
         job' = [job EXCEPT ![j] = page]
  PROVE  job' \in [Jobs -> Page] /\ PagesInv'
<1>1. job' \in [Jobs -> Page]
  BY DEF TypeOK, PageOK
<1>2. ASSUME NEW k \in Jobs
      PROVE  PageOK(job[k])'
  <2>1. PageOK(job'[k])
    BY DEF TypeOK, PagesInv
  <2> QED
    BY <2>1 DEF PageOK
<1> QED
  BY <1>1, <1>2 DEF PagesInv

\* Asking for a page, and a reload, which begins by asking for one.
LEMMA LoadOK ==
  ASSUME TypeOK, PagesInv, count' = count,
         NEW id \in 0 .. count, NEW n \in {FirstPage, NextPage}, Load(id, n)
  PROVE  job' \in [Jobs -> Page] /\ PagesInv'
BY AskedOK, OnePage DEF Load

\* A list that is emptied asks for its first page.
LEMMA ReloadOK ==
  ASSUME FeedInv, UNCHANGED <<count, array>>, Reload
  PROVE  /\ job' \in [Jobs -> Page] /\ noMorePosts' \in BOOLEAN
         /\ items' \in [Posts -> Nat] /\ unread' \in [Posts -> Nat]
         /\ gathered' \in [Posts -> Nat] /\ gatheredUnread' \in [Posts -> Nat]
         /\ PagesInv' /\ ListInv'
<1>1. 0 \in 0 .. count /\ FirstPage \in {FirstPage, NextPage}
  BY DEF FeedInv, TypeOK
<1>2. job' \in [Jobs -> Page] /\ PagesInv'
  BY <1>1, LoadOK DEF Reload, FeedInv
<1>3. /\ items' \in [Posts -> Nat] /\ unread' \in [Posts -> Nat]
      /\ \A p \in Posts : items'[p] = 0 /\ unread'[p] = 0
  BY DEF Reload, NoPosts
<1>4. ListInv'
  BY <1>3 DEF ListInv, FeedInv, array
<1> QED
  BY <1>2, <1>3, <1>4 DEF Reload, FeedInv, TypeOK, array

-----------------------------------------------------------------------------
\* The steps of a page.

\* The timer sees a contract.
LEMMA TimerFiresOK ==
  ASSUME FeedInv, NEW j \in Jobs, TimerFires(j)
  PROVE  FeedInv'
<1> DEFINE page == [job[j] EXCEPT !.stage = "count"]
<1>1. PageOK(job[j]) /\ job[j].stage = "timer"
  BY DEF FeedInv, PagesInv, TimerFires
<1>2. page \in Page
  BY <1>1 DEF PageOK, Page, Stage
<1>3. PageOK(page)
  BY <1>1, <1>2 DEF PageOK, Page
<1>4. job' = [job EXCEPT ![j] = page]
  BY DEF TimerFires, FeedInv, TypeOK
<1>5. job' \in [Jobs -> Page] /\ PagesInv'
  BY <1>3, <1>4, OnePage DEF FeedInv, TimerFires
<1> QED
  BY <1>5 DEF FeedInv, TypeOK, ListInv, TimerFires, array, rows, user, flags

\* The number of posts, or the row, says where the page begins.
LEMMA CountPostsOK ==
  ASSUME FeedInv, NEW j \in Jobs, CountPosts(j)
  PROVE  FeedInv'
<1>1. PageOK(job[j]) /\ job[j].stage = "count"
  BY DEF FeedInv, PagesInv, CountPosts
<1>2. PICK top \in IF job[j].id # 0 THEN {job[j].id - 1}
                   ELSE {count} \cup (IF ReadFails THEN {0} ELSE {}) :
        job' = [job EXCEPT ![j] = IF top > 0 THEN [@ EXCEPT !.stage = "read", !.id = top]
                                             ELSE Idle]
  BY DEF CountPosts
<1>3. top \in 0 .. count
  BY <1>1, <1>2, PostsAssumption DEF PageOK, Page, FeedInv, TypeOK
<1> DEFINE page == IF top > 0 THEN [job[j] EXCEPT !.stage = "read", !.id = top] ELSE Idle
<1>4. PageOK(page)
  <2>1. CASE top > 0
    <3>1. page = [job[j] EXCEPT !.stage = "read", !.id = top]
      BY <2>1
    <3>2. page \in Page
      <4>1. top \in 0 .. MaxPosts
        BY <1>3, PostsAssumption DEF FeedInv, TypeOK
      <4>2. job[j] \in Page /\ "read" \in Stage
        BY <1>1 DEF PageOK, Stage
      <4> QED
        BY <3>1, <4>1, <4>2 DEF Page
    <3>3. page.waiting = <<>> /\ Len(<<>>) = 0 /\ page.left >= 1
      BY <1>1, <3>1 DEF PageOK, Page
    <3>4. page.id = top /\ page.stage = "read"
      BY <1>1, <3>1 DEF PageOK, Page
    <3> QED
      BY <1>3, <2>1, <3>2, <3>3, <3>4 DEF PageOK, FeedInv, TypeOK
  <2>2. CASE ~ top > 0
    BY <2>2, IdleOK DEF FeedInv
  <2> QED
    BY <2>1, <2>2
<1>5. job' = [job EXCEPT ![j] = page]
  BY <1>2 DEF FeedInv, TypeOK
<1>6. job' \in [Jobs -> Page] /\ PagesInv'
  <2> HIDE DEF page
  <2> QED
    BY <1>4, <1>5, OnePage DEF FeedInv, CountPosts
<1> QED
  BY <1>6 DEF FeedInv, TypeOK, ListInv, CountPosts, array, rows, user, flags

\* A post is read, found hidden or banned, or cannot be read.
LEMMA ReadPostOK ==
  ASSUME FeedInv, NEW j \in Jobs, ReadPost(j)
  PROVE  FeedInv'
<1>1. PageOK(job[j]) /\ job[j].stage = "read"
  BY DEF FeedInv, PagesInv, ReadPost
<1>2. PICK got \in GetPost(job[j].id) :
        job' = [job EXCEPT ![j] =
                  [stage   |-> IF @.id = 1 \/ @.left = 1 THEN "flush" ELSE "read",
                   id      |-> @.id - 1,
                   left    |-> @.left - 1,
                   waiting |-> Append(@.waiting, got)]]
  BY DEF ReadPost
<1> DEFINE stage   == IF job[j].id = 1 \/ job[j].left = 1 THEN "flush" ELSE "read"
           waiting == Append(job[j].waiting, got)
           page    == [stage |-> stage, id |-> job[j].id - 1,
                       left |-> job[j].left - 1, waiting |-> waiting]
<1>3. waiting \in Seq(Outcome) /\ Len(waiting) = Len(job[j].waiting) + 1
  <2>1. got \in Outcome
    BY <1>2 DEF GetPost, Answers, Outcome
  <2>2. job[j].waiting \in Seq(Outcome)
    BY <1>1 DEF PageOK, Page
  <2> QED
    BY <2>1, <2>2
<1>4. /\ job[j].id \in 1 .. MaxPosts /\ job[j].left \in 1 .. FirstPage + NextPage
      /\ job[j].id + Len(job[j].waiting) <= count
      /\ Len(job[j].waiting) \in Nat
  BY <1>1 DEF PageOK, Page
<1>5. stage \in Stage /\ (stage = "read" => job[j].id # 1 /\ job[j].left # 1)
  BY DEF Stage
<1>6. PageOK(page)
  <2> HIDE DEF stage, waiting
  <2>1. job[j].id - 1 \in 0 .. MaxPosts /\ job[j].left - 1 \in 0 .. FirstPage + NextPage
    BY <1>4, PostsAssumption
  <2>2. page \in Page
    BY <1>3, <1>5, <2>1 DEF Page
  <2>3. page.id + Len(page.waiting) <= count
    BY <1>3, <1>4 DEF FeedInv, TypeOK
  <2>4. stage \notin {"timer", "count"}
    BY DEF stage
  <2> QED
    BY <1>4, <1>5, <2>2, <2>3, <2>4 DEF PageOK
<1>7. job' = [job EXCEPT ![j] = page]
  BY <1>2 DEF FeedInv, TypeOK
<1>8. job' \in [Jobs -> Page] /\ PagesInv'
  <2> HIDE DEF page
  <2> QED
    BY <1>6, <1>7, OnePage DEF FeedInv, ReadPost
<1> QED
  BY <1>8 DEF FeedInv, TypeOK, ListInv, ReadPost, array, rows, user, flags

\* The main queue's block gathers a post.
LEMMA AppendPostOK ==
  ASSUME FeedInv, NEW j \in Jobs, AppendPost(j)
  PROVE  FeedInv'
<1> DEFINE p    == job[j].id + Len(job[j].waiting)
           page == [job[j] EXCEPT !.waiting = Tail(job[j].waiting)]
<1>1. /\ PageOK(job[j]) /\ job[j] \in Page
      /\ job[j].waiting \in Seq(Outcome) /\ job[j].waiting # <<>>
  BY DEF FeedInv, PagesInv, AppendPost, PageOK, Page
<1>2. /\ Tail(job[j].waiting) \in Seq(Outcome)
      /\ Len(Tail(job[j].waiting)) = Len(job[j].waiting) - 1
      /\ Len(job[j].waiting) \in Nat \ {0}
  BY <1>1
<1>3. PageOK(page)
  <2>1. page \in Page
    BY <1>1, <1>2 DEF Page
  <2>2. /\ page.waiting = Tail(job[j].waiting)
        /\ page.id = job[j].id /\ page.left = job[j].left /\ page.stage = job[j].stage
    BY <1>1 DEF Page
  <2> QED
    BY <1>1, <1>2, <2>1, <2>2 DEF PageOK, Page, FeedInv, TypeOK
<1>4. job' = [job EXCEPT ![j] = page]
  BY DEF AppendPost, FeedInv, TypeOK
<1>5. job' \in [Jobs -> Page] /\ PagesInv'
  <2> HIDE DEF page
  <2> QED
    BY <1>3, <1>4, OnePage DEF FeedInv, AppendPost
<1>6. \/ UNCHANGED array
      \/ gathered' = [gathered EXCEPT ![p] = @ + 1] /\ UNCHANGED gatheredUnread
      \/ /\ gathered' = [gathered EXCEPT ![p] = @ + 1]
         /\ gatheredUnread' = [gatheredUnread EXCEPT ![p] = @ + 1]
  BY DEF AppendPost, array
<1>7. p <= count
  BY <1>1 DEF PageOK
<1>8. /\ gathered' \in [Posts -> Nat] /\ gatheredUnread' \in [Posts -> Nat]
      /\ \A q \in Posts : /\ gathered'[q] # gathered[q] => q = p
                         /\ gatheredUnread'[q] <= gathered'[q]
  <2> HIDE DEF p
  <2> QED
    BY <1>6 DEF FeedInv, TypeOK, ListInv, array
<1>9. ListInv'
  BY <1>7, <1>8 DEF FeedInv, ListInv, TypeOK, AppendPost, rows
<1>10. noMorePosts' \in BOOLEAN
  BY DEF AppendPost, FeedInv, TypeOK
<1> QED
  BY <1>5, <1>8, <1>9, <1>10 DEF FeedInv, TypeOK, AppendPost, rows, user, flags

\* A page that is read through is shown.
LEMMA FlushOK ==
  ASSUME FeedInv, NEW j \in Jobs, Flush(j)
  PROVE  FeedInv'
<1>1. job' \in [Jobs -> Page] /\ PagesInv'
  BY IdleOK, OnePage DEF FeedInv, Flush
<1>2. /\ gathered' \in [Posts -> Nat] /\ gatheredUnread' \in [Posts -> Nat]
      /\ items' \in [Posts -> Nat] /\ unread' \in [Posts -> Nat]
  BY DEF Flush, SaveGathered, NoPosts, FeedInv, TypeOK
<1>3. ListInv'
  BY DEF Flush, SaveGathered, NoPosts, FeedInv, ListInv, TypeOK
<1> QED
  BY <1>1, <1>2, <1>3 DEF FeedInv, TypeOK, Flush, user, flags

-----------------------------------------------------------------------------
\* The feed opens with one page asked for.
LEMMA FeedInvInit == Init => FeedInv
<1> SUFFICES ASSUME Init PROVE FeedInv
  OBVIOUS
<1>1. PICK j \in Jobs : job = [k \in Jobs |-> IF k = j THEN Asked(0, FirstPage) ELSE Idle]
  BY DEF Init
<1>2. /\ gathered \in [Posts -> Nat] /\ gatheredUnread \in [Posts -> Nat]
      /\ items \in [Posts -> Nat] /\ unread \in [Posts -> Nat] /\ ListInv
  BY DEF Init, NoPosts, ListInv
<1>3. /\ FirstPage \in 0 .. FirstPage + NextPage /\ FirstPage >= 1
      /\ 0 \in 0 .. MaxPosts /\ 0 \in 0 .. FirstPage + NextPage
      /\ <<>> \in Seq(Outcome) /\ Len(<<>>) = 0
      /\ count \in Nat
  BY PostsAssumption DEF Init
<1>4. Asked(0, FirstPage) \in Page /\ PageOK(Asked(0, FirstPage))
  BY <1>3 DEF Asked, Page, Stage, PageOK
<1>5. Idle \in Page /\ PageOK(Idle)
  BY <1>3 DEF Idle, Page, Stage, PageOK
<1>6. job \in [Jobs -> Page] /\ PagesInv
  BY <1>1, <1>4, <1>5 DEF PagesInv
<1>7. acts \in 0 .. MaxActs
  BY PostsAssumption DEF Init
<1> QED
  BY <1>2, <1>6, <1>7 DEF FeedInv, TypeOK, Init

\* Every step keeps the types, the pages and the list.
LEMMA FeedInvNext ==
  ASSUME FeedInv, [Next]_vars
  PROVE  FeedInv'
<1>1. CASE ContractLoads
  BY <1>1 DEF ContractLoads, FeedInv, TypeOK, PagesInv, PageOK, ListInv,
              loading, array, rows, user, flags
<1>2. ASSUME NEW j \in Jobs, JobStep(j) PROVE FeedInv'
  BY <1>2, TimerFiresOK, CountPostsOK, ReadPostOK, AppendPostOK, FlushOK DEF JobStep
<1>3. CASE PostCreated
  <2>1. count' = count + 1 /\ count' \in 0 .. MaxPosts /\ job' = job
    BY <1>3, PostsAssumption DEF PostCreated, FeedInv, TypeOK, loading
  <2>2. ASSUME NEW j \in Jobs PROVE PageOK(job[j])'
    <3>1. PageOK(job[j]) /\ job[j].id + Len(job[j].waiting) \in Int
      BY DEF FeedInv, PagesInv, PageOK, Page
    <3> QED
      BY <2>1, <3>1 DEF PageOK, FeedInv, TypeOK
  <2>3. ListInv'
    BY <1>3 DEF PostCreated, FeedInv, TypeOK, ListInv, Posts, loading, array, rows
  <2> QED
    BY <1>3, <2>1, <2>2, <2>3 DEF PostCreated, FeedInv, TypeOK, PagesInv,
                                  loading, array, rows, user, flags
<1>4. CASE LastRowAppears
  <2>1. PICK p \in Posts : IsLast(p) /\ Load(p, NextPage)
    BY <1>4 DEF LastRowAppears
  <2>2. p \in 0 .. count
    BY <2>1 DEF IsLast, InList, FeedInv, ListInv, Posts, TypeOK
  <2>3. job' \in [Jobs -> Page] /\ PagesInv'
    BY <1>4, <2>1, <2>2, LoadOK DEF FeedInv, LastRowAppears
  <2> QED
    BY <1>4, <2>3, ActsType DEF FeedInv, TypeOK, ListInv, LastRowAppears, array, rows, user, flags
<1>5. CASE PullToRefresh
  BY <1>5, ActsType DEF PullToRefresh, FeedInv, TypeOK, PagesInv, PageOK, ListInv,
                        loading, array, rows, user
<1>6. CASE HidePost
  BY <1>6, ActsType DEF HidePost, FeedInv, TypeOK, PagesInv, PageOK, ListInv,
                        loading, array, rows, flags
<1>7. CASE BlockAuthor
  <2>1. blocked' \subseteq {Title[p] : p \in Posts} \cup {NoTitle}
    BY <1>7 DEF BlockAuthor, FeedInv, TypeOK
  <2> QED
    BY <1>7, <2>1, ReloadOK, ActsType DEF BlockAuthor, FeedInv, TypeOK, flags
<1>8. CASE ResetHidden
  BY <1>8, ActsType DEF ResetHidden, FeedInv, TypeOK, PagesInv, PageOK, ListInv,
                        loading, array, rows
<1>9. CASE UnblockAuthors
  BY <1>9, ActsType DEF UnblockAuthors, FeedInv, TypeOK, PagesInv, PageOK, ListInv,
                        loading, array, rows
<1>10. CASE HomeAppears
  BY <1>10, ReloadOK DEF HomeAppears, FeedInv, TypeOK, user, flags
<1>11. CASE RefreshFires
  <2>1. due' \in Nat /\ UNCHANGED <<count, array>> /\ released' \in BOOLEAN
    <3>1. due \in Nat /\ due > 0 /\ due' = due - 1
      BY <1>11 DEF RefreshFires, FeedInv, TypeOK
    <3>2. released' = FALSE \/ released' = released
      BY <1>11 DEF RefreshFires
    <3>3. due' \in Nat
      BY <3>1
    <3>4. released' \in BOOLEAN
      BY <3>2 DEF FeedInv, TypeOK
    <3> QED
      BY <1>11, <3>3, <3>4 DEF RefreshFires
  <2>2. CASE Reload
    BY <1>11, <2>1, <2>2, ReloadOK DEF RefreshFires, FeedInv, TypeOK, user
  <2>3. CASE UNCHANGED <<released, job, rows, noMorePosts>>
    BY <1>11, <2>1, <2>3 DEF RefreshFires, FeedInv, TypeOK, PagesInv, PageOK, ListInv,
                             array, rows, user
  <2> QED
    BY <1>11, <2>2, <2>3 DEF RefreshFires
<1>12. CASE UNCHANGED vars
  BY <1>12 DEF vars, loading, array, rows, user, flags, FeedInv, TypeOK, PagesInv, PageOK, ListInv
<1> QED
  BY <1>1, <1>2, <1>3, <1>4, <1>5, <1>6, <1>7, <1>8, <1>9, <1>10, <1>11, <1>12
  DEF Next, UserStep

\* The invariant of every user.
LEMMA FeedInvariant == Spec => []FeedInv
BY FeedInvInit, FeedInvNext, PTL DEF Spec

\* Type correctness.
THEOREM TypeCorrect == Spec => []TypeOK
<1>1. FeedInv => TypeOK
  BY DEF FeedInv
<1> QED
  BY <1>1, FeedInvariant, PTL

\* The background threads of all pages read only posts that exist, for any
\* number of overlapping pages.
THEOREM PagesReadPosts == Spec => []PagesAtPosts
<1>1. FeedInv => PagesAtPosts
  <2> SUFFICES ASSUME FeedInv, NEW j \in Jobs, job[j].stage = "read"
               PROVE  job[j].id \in 1 .. count
    BY DEF PagesAtPosts
  <2>1. PageOK(job[j]) /\ job[j] \in Page
    BY DEF FeedInv, PagesInv, PageOK
  <2> QED
    BY <2>1 DEF PageOK, Page, FeedInv, TypeOK
<1> QED
  BY <1>1, FeedInvariant, PTL

-----------------------------------------------------------------------------
(* The list of the user who lets a page finish first.  What keeps a second  *)
(* row of a post out is that only one page is under way, and that it only   *)
(* has posts left that are below every row and below all that has gathered. *)

Busy(j)  == job[j].stage # "idle"

BelowTheList(page, shown, pile) ==
  /\ page.stage = "idle" => page.waiting = <<>>
  /\ page.stage \in {"timer", "count"} =>
       \A p \in Posts : pile[p] = 0 /\ (shown[p] > 0 => page.id # 0 /\ p >= page.id)
  /\ page.stage \in {"read", "flush"} =>
       \A p \in Posts : p <= page.id + Len(page.waiting) => shown[p] = 0 /\ pile[p] = 0

OneBusy  == \A j, k \in Jobs : Busy(j) /\ Busy(k) => j = k
OneCopy  == \A p \in Posts : items[p] + gathered[p] <= 1
Settled  == AllIdle => \A p \in Posts : gathered[p] = 0
PagesLow == \A j \in Jobs : BelowTheList(job[j], items, gathered)

Alone    == due \in {0, 1} /\ (due = 1 => AllIdle)

CalmInv == FeedInv /\ OneBusy /\ OneCopy /\ Settled /\ PagesLow /\ Alone

\* The feed opens with one page under way and no row.
LEMMA CalmInit == Init => CalmInv
<1> SUFFICES ASSUME Init PROVE CalmInv
  OBVIOUS
<1>1. PICK j \in Jobs : job = [k \in Jobs |-> IF k = j THEN Asked(0, FirstPage) ELSE Idle]
  BY DEF Init
<1>2. \A p \in Posts : items[p] = 0 /\ gathered[p] = 0
  BY DEF Init, NoPosts
<1>3. OneBusy
  BY <1>1 DEF OneBusy, Busy, Idle
<1>4. PagesLow
  BY <1>1, <1>2 DEF PagesLow, BelowTheList, Idle, Asked
<1> QED
  BY <1>2, <1>3, <1>4, FeedInvInit DEF CalmInv, OneCopy, Settled, Alone, Init

\* A step of the one page under way puts a new page in its place.
LEMMA OnePageCalm ==
  ASSUME CalmInv, NEW j \in Jobs, Busy(j), NEW page,
         job' = [job EXCEPT ![j] = page], BelowTheList(page, items', gathered'),
         page.stage = "idle" => \A p \in Posts : gathered'[p] = 0
  PROVE  OneBusy' /\ PagesLow' /\ Settled'
<1>1. job'[j] = page /\ \A k \in Jobs \ {j} : job'[k] = job[k] /\ job[k].stage = "idle"
  BY DEF CalmInv, OneBusy, Busy, FeedInv, TypeOK
<1>2. OneBusy'
  BY <1>1 DEF OneBusy, Busy
<1>3. ASSUME NEW k \in Jobs PROVE BelowTheList(job[k], items, gathered)'
  <2>1. CASE k = j
    BY <1>1, <2>1 DEF BelowTheList
  <2>2. CASE k # j
    <3>1. job'[k] = job[k] /\ job[k].stage = "idle" /\ job[k].waiting = <<>>
      BY <1>1, <2>2 DEF CalmInv, PagesLow, BelowTheList
    <3> QED
      BY <3>1 DEF BelowTheList
  <2> QED
    BY <2>1, <2>2
<1>4. Settled'
  BY <1>1 DEF Settled, AllIdle
<1> QED
  BY <1>2, <1>3, <1>4 DEF PagesLow

\* A step of the one page keeps its posts below the list.
LEMMA JobStepCalm ==
  ASSUME CalmInv, NEW j \in Jobs, JobStep(j)
  PROVE  CalmInv'
<1>1. FeedInv'
  BY FeedInvNext DEF CalmInv, Next
<1>2. /\ job[j] \in Page /\ PageOK(job[j]) /\ BelowTheList(job[j], items, gathered)
      /\ items \in [Posts -> Nat] /\ gathered \in [Posts -> Nat] /\ count \in Nat
  BY DEF CalmInv, FeedInv, PagesInv, PagesLow, TypeOK, PageOK
<1>0. Alone'
  <2>1. Busy(j) /\ due' = due
    BY <1>2 DEF JobStep, TimerFires, CountPosts, ReadPost, AppendPost, Flush, Busy, flags,
                BelowTheList
  <2> QED
    BY <2>1 DEF CalmInv, Alone, AllIdle, Busy
<1>3. CASE TimerFires(j)
  <2> DEFINE page == [job[j] EXCEPT !.stage = "count"]
  <2>1. job[j].stage = "timer" /\ job' = [job EXCEPT ![j] = page]
    BY <1>3 DEF TimerFires, CalmInv, FeedInv, TypeOK
  <2>2. page.stage = "count" /\ page.id = job[j].id /\ page.waiting = job[j].waiting
    BY <1>2 DEF Page
  <2>3. BelowTheList(page, items', gathered')
    BY <1>2, <1>3, <2>1, <2>2 DEF BelowTheList, TimerFires, array, rows
  <2>4. OneBusy' /\ PagesLow' /\ Settled'
    <3> HIDE DEF page
    <3> QED
      BY <2>1, <2>2, <2>3, OnePageCalm DEF Busy
  <2> QED
    BY <1>0, <1>1, <1>3, <2>4 DEF CalmInv, OneCopy, TimerFires, array, rows
<1>4. CASE CountPosts(j)
  <2>1. PICK top \in IF job[j].id # 0 THEN {job[j].id - 1}
                     ELSE {count} \cup (IF ReadFails THEN {0} ELSE {}) :
          job' = [job EXCEPT ![j] = IF top > 0 THEN [@ EXCEPT !.stage = "read", !.id = top]
                                               ELSE Idle]
    BY <1>4 DEF CountPosts
  <2> DEFINE page == IF top > 0 THEN [job[j] EXCEPT !.stage = "read", !.id = top] ELSE Idle
  <2>2. job[j].stage = "count" /\ job' = [job EXCEPT ![j] = page]
    BY <1>4, <2>1 DEF CountPosts, CalmInv, FeedInv, TypeOK
  <2>3. \A p \in Posts : gathered[p] = 0 /\ (p <= top => items[p] = 0)
    <3>1. CASE job[j].id = 0
      BY <1>2, <2>2, <3>1 DEF BelowTheList
    <3>2. CASE job[j].id # 0
      <4>1. top = job[j].id - 1
        BY <2>1, <3>2
      <4>2. \A p \in Posts : gathered[p] = 0 /\ (items[p] > 0 => p >= job[j].id)
        BY <1>2, <2>2 DEF BelowTheList
      <4>3. job[j].id \in Nat /\ \A p \in Posts : p \in Nat /\ items[p] \in Nat
        BY <1>2 DEF Page, Posts
      <4> QED
        BY <4>1, <4>2, <4>3
    <3> QED
      BY <3>1, <3>2
  <2>4. BelowTheList(page, items', gathered')
    <3>1. CASE top > 0
      <4>1. page.stage = "read" /\ page.id = top /\ page.waiting = job[j].waiting
        BY <1>2, <3>1 DEF Page
      <4>2. page.waiting = <<>> /\ Len(<<>>) = 0
        BY <1>2, <2>2, <4>1 DEF PageOK
      <4>3. top \in Int
        BY <1>2, <2>1 DEF Page
      <4> HIDE DEF page
      <4> QED
        BY <1>4, <2>3, <4>1, <4>2, <4>3 DEF BelowTheList, CountPosts, array, rows
    <3>2. CASE ~ top > 0
      BY <3>2 DEF BelowTheList, Idle
    <3> QED
      BY <3>1, <3>2
  <2>5. OneBusy' /\ PagesLow' /\ Settled'
    <3>1. \A p \in Posts : gathered'[p] = 0
      BY <1>4, <2>3 DEF CountPosts, array
    <3> HIDE DEF page
    <3> QED
      BY <2>2, <2>4, <3>1, OnePageCalm DEF Busy
  <2> QED
    BY <1>0, <1>1, <1>4, <2>5 DEF CalmInv, OneCopy, CountPosts, array, rows
<1>5. CASE ReadPost(j)
  <2>1. PICK got \in GetPost(job[j].id) :
          job' = [job EXCEPT ![j] =
                    [stage   |-> IF @.id = 1 \/ @.left = 1 THEN "flush" ELSE "read",
                     id      |-> @.id - 1,
                     left    |-> @.left - 1,
                     waiting |-> Append(@.waiting, got)]]
    BY <1>5 DEF ReadPost
  <2> DEFINE page == [stage   |-> IF job[j].id = 1 \/ job[j].left = 1 THEN "flush" ELSE "read",
                      id      |-> job[j].id - 1,
                      left    |-> job[j].left - 1,
                      waiting |-> Append(job[j].waiting, got)]
  <2>2. job[j].stage = "read" /\ job' = [job EXCEPT ![j] = page]
    BY <1>5, <2>1 DEF ReadPost, CalmInv, FeedInv, TypeOK
  <2>3. Len(page.waiting) = Len(job[j].waiting) + 1
    <3>1. got \in Outcome
      BY <2>1 DEF GetPost, Answers, Outcome
    <3> QED
      BY <1>2, <3>1 DEF Page
  <2>4. page.id + Len(page.waiting) = job[j].id + Len(job[j].waiting)
    BY <1>2, <2>3 DEF Page
  <2>5. page.stage \in {"read", "flush"}
    OBVIOUS
  <2>6. BelowTheList(page, items', gathered')
    <3> HIDE DEF page
    <3> QED
      BY <1>2, <1>5, <2>2, <2>4, <2>5 DEF BelowTheList, ReadPost, array, rows
  <2>7. OneBusy' /\ PagesLow' /\ Settled'
    <3> HIDE DEF page
    <3> QED
      BY <2>2, <2>5, <2>6, OnePageCalm DEF Busy
  <2> QED
    BY <1>0, <1>1, <1>5, <2>7 DEF CalmInv, OneCopy, ReadPost, array, rows
<1>6. CASE AppendPost(j)
  <2> DEFINE p    == job[j].id + Len(job[j].waiting)
             page == [job[j] EXCEPT !.waiting = Tail(job[j].waiting)]
  <2>1. job[j].waiting # <<>> /\ job' = [job EXCEPT ![j] = page]
    BY <1>6 DEF AppendPost, CalmInv, FeedInv, TypeOK
  <2>2. job[j].stage \in {"read", "flush"}
    BY <1>2, <2>1 DEF Page, Stage, PageOK, BelowTheList
  <2>3. Len(Tail(job[j].waiting)) = Len(job[j].waiting) - 1 /\ Len(job[j].waiting) \in Nat
    BY <1>2, <2>1 DEF Page
  <2>4. /\ page.stage = job[j].stage /\ page.id = job[j].id
        /\ page.waiting = Tail(job[j].waiting)
    BY <1>2 DEF Page
  <2>5. page.id + Len(page.waiting) = p - 1 /\ p \in Int
    BY <1>2, <2>3, <2>4 DEF Page
  <2>6. \A q \in Posts : q <= p => items[q] = 0 /\ gathered[q] = 0
    BY <1>2, <2>2 DEF BelowTheList
  <2>7. gathered' = gathered \/ gathered' = [gathered EXCEPT ![p] = @ + 1]
    BY <1>6 DEF AppendPost
  <2>8. \A q \in Posts : gathered'[q] = IF q = p THEN gathered'[q] ELSE gathered[q]
    <3> HIDE DEF p
    <3> QED
      BY <1>2, <2>7
  <2>9. \A q \in Posts : q = p => gathered'[q] <= 1 /\ items[q] = 0
    <3> HIDE DEF p
    <3> QED
      BY <1>2, <2>5, <2>6, <2>7
  <2>10. items' = items
    BY <1>6 DEF AppendPost, rows
  <2>11. BelowTheList(page, items', gathered')
    <3> HIDE DEF page, p
    <3> QED
      BY <2>2, <2>4, <2>5, <2>6, <2>8, <2>10 DEF BelowTheList, Posts
  <2>12. OneBusy' /\ PagesLow' /\ Settled'
    <3> HIDE DEF page
    <3> QED
      BY <2>1, <2>2, <2>4, <2>11, OnePageCalm DEF Busy
  <2>13. OneCopy'
    <3>1. gathered' \in [Posts -> Nat]
      BY <1>1 DEF FeedInv, TypeOK
    <3> HIDE DEF p
    <3> QED
      BY <1>2, <2>8, <2>9, <2>10, <3>1 DEF OneCopy, CalmInv
  <2> QED
    BY <1>0, <1>1, <2>12, <2>13 DEF CalmInv
<1>7. CASE Flush(j)
  <2>1. \A p \in Posts : gathered'[p] = 0 /\ items'[p] = items[p] + gathered[p]
    BY <1>7 DEF Flush, SaveGathered, NoPosts
  <2>2. job' = [job EXCEPT ![j] = Idle] /\ Busy(j)
    BY <1>7 DEF Flush, Busy
  <2>3. BelowTheList(Idle, items', gathered')
    BY DEF BelowTheList, Idle
  <2>4. OneBusy' /\ PagesLow' /\ Settled'
    BY <2>1, <2>2, <2>3, OnePageCalm
  <2>5. OneCopy'
    BY <1>2, <2>1 DEF OneCopy, CalmInv
  <2> QED
    BY <1>0, <1>1, <2>4, <2>5 DEF CalmInv
<1> QED
  BY <1>3, <1>4, <1>5, <1>6, <1>7 DEF JobStep

\* Steps that come when no page is under way: asking for a page below the list,
\* or for the first page of an emptied one.
LEMMA ListStepCalm ==
  ASSUME CalmInv, FeedInv', AllIdle, due' = 0, gathered' = gathered,
         items' \in [Posts -> Nat], \A p \in Posts : items'[p] <= items[p],
         NEW id, NEW n, Load(id, n),
         \A p \in Posts : items'[p] > 0 => id # 0 /\ p >= id
  PROVE  CalmInv'
<1>1. /\ items \in [Posts -> Nat]
      /\ \A p \in Posts : gathered[p] = 0
      /\ \A k \in Jobs : job[k].stage = "idle" /\ job[k].waiting = <<>>
  BY DEF CalmInv, FeedInv, TypeOK, Settled, AllIdle, PagesLow, BelowTheList
<1>2. PICK j \in Jobs : job' = [job EXCEPT ![j] = Asked(id, n)]
  BY DEF Load
<1>3. /\ job'[j] = Asked(id, n)
      /\ \A k \in Jobs \ {j} : job'[k].stage = "idle" /\ job'[k].waiting = <<>>
  BY <1>1, <1>2 DEF CalmInv, FeedInv, TypeOK
<1>4. OneBusy' /\ Settled'
  BY <1>3 DEF OneBusy, Busy, Settled, AllIdle, Asked
<1>5. ASSUME NEW k \in Jobs PROVE BelowTheList(job[k], items, gathered)'
  <2>1. CASE k = j
    BY <1>1, <1>3, <2>1 DEF BelowTheList, Asked
  <2>2. CASE k # j
    BY <1>3, <2>2 DEF BelowTheList
  <2> QED
    BY <2>1, <2>2
<1>6. OneCopy'
  BY <1>1 DEF CalmInv, OneCopy
<1>7. Alone'
  BY DEF Alone
<1> QED
  BY <1>4, <1>5, <1>6, <1>7 DEF CalmInv, PagesLow

\* A list that is emptied with no page under way begins anew.
LEMMA ReloadCalm ==
  ASSUME CalmInv, FeedInv', AllIdle, due' = 0, gathered' = gathered, Reload
  PROVE  CalmInv'
<1>1. items' \in [Posts -> Nat] /\ \A p \in Posts : items'[p] = 0
  BY DEF Reload, NoPosts
<1>2. \A p \in Posts : items'[p] <= items[p]
  BY <1>1 DEF CalmInv, FeedInv, TypeOK
<1>3. Load(0, FirstPage)
  BY DEF Reload
<1> QED
  BY <1>1, <1>2, <1>3, ListStepCalm

\* Steps that touch neither pages nor list.
LEMMA ElsewhereCalm ==
  ASSUME CalmInv, FeedInv', UNCHANGED <<job, gathered, items>>, Alone'
  PROVE  CalmInv'
BY DEF CalmInv, OneBusy, Busy, OneCopy, Settled, AllIdle, PagesLow, BelowTheList

\* The user's steps, with no page under way.
LEMMA UserStepCalm ==
  ASSUME CalmInv, UserStep, AllIdle, due = 0
  PROVE  CalmInv'
<1>1. FeedInv'
  BY FeedInvNext DEF CalmInv, Next
<1>2. items \in [Posts -> Nat]
  BY DEF CalmInv, FeedInv, TypeOK
<1>3. CASE LastRowAppears
  <2>1. PICK p \in Posts : IsLast(p) /\ Load(p, NextPage)
    BY <1>3 DEF LastRowAppears
  <2>2. \A q \in Posts : items[q] > 0 => p # 0 /\ q >= p
    BY <2>1 DEF IsLast, InList, Posts
  <2>3. gathered' = gathered /\ items' = items /\ due' = 0
    BY <1>3 DEF LastRowAppears, array, rows, flags
  <2>4. \A q \in Posts : items'[q] <= items[q]
    BY <1>2, <2>3
  <2> QED
    BY <1>1, <1>2, <2>1, <2>2, <2>3, <2>4, ListStepCalm
<1>4. CASE PullToRefresh
  <2>1. UNCHANGED <<job, gathered, items>> /\ due' = 1
    BY <1>4 DEF PullToRefresh, loading, array, rows
  <2>2. Alone'
    BY <2>1 DEF Alone, AllIdle
  <2> QED
    BY <1>1, <2>1, <2>2, ElsewhereCalm
<1>5. CASE BlockAuthor \/ HomeAppears
  BY <1>1, <1>5, ReloadCalm DEF BlockAuthor, HomeAppears, array, flags
<1>6. CASE HidePost \/ ResetHidden \/ UnblockAuthors
  <2>1. UNCHANGED <<job, gathered, items>> /\ due' = 0
    BY <1>6 DEF HidePost, ResetHidden, UnblockAuthors, loading, array, rows, flags
  <2>2. Alone'
    BY <2>1 DEF Alone
  <2> QED
    BY <1>1, <2>1, <2>2, ElsewhereCalm
<1> QED
  BY <1>3, <1>4, <1>5, <1>6 DEF UserStep

\* Every step of the calm user keeps one copy of each post.
LEMMA CalmNext ==
  ASSUME CalmInv, [Next /\ OneAtATime]_vars
  PROVE  CalmInv'
<1>1. FeedInv'
  BY FeedInvNext DEF CalmInv
<1>2. CASE ContractLoads \/ PostCreated \/ UNCHANGED vars
  <2>1. UNCHANGED <<job, gathered, items, due>>
    BY <1>2 DEF ContractLoads, PostCreated, vars, loading, array, rows, flags
  <2>2. Alone'
    BY <2>1 DEF CalmInv, Alone, AllIdle
  <2> QED
    BY <1>1, <2>1, <2>2, ElsewhereCalm
<1>3. CASE \E j \in Jobs : JobStep(j)
  BY <1>3, JobStepCalm
<1>4. CASE RefreshFires
  <2>1. due' = 0 /\ AllIdle /\ gathered' = gathered
    BY <1>4 DEF RefreshFires, CalmInv, Alone, array
  <2>2. CASE Reload
    BY <1>1, <2>1, <2>2, ReloadCalm
  <2>3. CASE UNCHANGED <<released, job, rows, noMorePosts>>
    BY <1>1, <2>1, <2>3, ElsewhereCalm DEF Alone, rows
  <2> QED
    BY <1>4, <2>2, <2>3 DEF RefreshFires
<1>5. CASE UserStep /\ OneAtATime
  BY <1>5, UserStepCalm DEF OneAtATime
<1> QED
  BY <1>2, <1>3, <1>4, <1>5 DEF Next

\* For the user who lets a page finish before asking for the next thing, no post
\* has two rows, on any server and with any page sizes.
THEOREM CalmListHasNoDuplicates == CalmSpec => []NoDuplicates
<1>1. CalmInv => NoDuplicates
  <2> SUFFICES ASSUME CalmInv, NEW p \in Posts PROVE items[p] <= 1
    BY DEF NoDuplicates
  <2>1. items[p] + gathered[p] <= 1 /\ items[p] \in Nat /\ gathered[p] \in Nat
    BY DEF CalmInv, OneCopy, FeedInv, TypeOK
  <2> QED
    BY <2>1
<1> QED
  BY <1>1, CalmInit, CalmNext, PTL DEF CalmSpec

-----------------------------------------------------------------------------
(* The list of that user has no holes, and its end is the end.  A page that *)
(* goes down from the last row has all that may be shown above the posts it *)
(* still has to read or to append; what it has read waits as it may be      *)
(* shown; and the end is only seen by a page with nothing left below.       *)

\* Read as it may be shown: in the list, or about to be.
Got(p) == items[p] > 0 \/ gathered[p] > 0

\* Every post that may be shown waits as a post, with its text or without it, and no
\* other waits with its text.
WaitingTrue(page) ==
  \A k \in 1 .. Len(page.waiting) :
    LET p == page.id + Len(page.waiting) + 1 - k IN
      /\ NoTitle \notin blocked /\ Visible(p) => page.waiting[k] \in {"post", "unread"}
      /\ page.waiting[k] = "post" => Visible(p)

\* A page that goes down begins below a row that is there.
FromRow(page) == page.stage \in {"timer", "count"} /\ page.id # 0 => Got(page.id)

\* Above what the page still has to append nothing is missing.
PageWhole(page) ==
  page.stage \in {"read", "flush"} /\ Whole => \A p, r \in Posts :
    Got(p) /\ r < p /\ r > page.id + Len(page.waiting) /\ Visible(r) => Got(r)

\* The end was set by a page that has nothing left.
EndSeen(page) ==
  page.stage # "idle" /\ noMorePosts =>
    page.stage \in {"read", "flush"} /\ page.id + Len(page.waiting) = 0

PageTrue(page) ==
  WaitingTrue(page) /\ FromRow(page) /\ PageWhole(page) /\ EndSeen(page)

\* What a page gathers with its text may be shown; the page has no hole with what the
\* list has, and none down to post 1 once the end is set; it is below every row.
GatheredVisible == \A p \in Posts : gathered[p] > gatheredUnread[p] => Visible(p)

ListWhole ==
  Whole => \A p, q, r \in Posts :
    Got(p) /\ Got(q) /\ q < r /\ r < p /\ Visible(r) => Got(r)

EndTrue ==
  Whole /\ noMorePosts => \A p, r \in Posts :
    Got(p) /\ r < p /\ Visible(r) => Got(r)

GatheredBelow == \A p, q \in Posts : gathered[q] > 0 /\ items[p] > 0 => q < p

ListTrue  == GatheredVisible /\ GatheredBelow /\ ListWhole /\ EndTrue
PagesTrue == \A j \in Jobs : PageTrue(job[j])

\* NoGaps and EndMeansEnd speak of a list that rests.  A page under way is what
\* could leave a hole in it, so each says how far its page has come.
WholeInv == CalmInv /\ PagesTrue /\ ListTrue

\* A page that is idle says nothing.
LEMMA IdleTrue ==
  ASSUME NEW page, page.stage = "idle", page.waiting = <<>>
  PROVE  PageTrue(page) /\ PageTrue(page)'
BY DEF PageTrue, WaitingTrue, FromRow, PageWhole, EndSeen

\* The feed opens with nothing missing.
LEMMA WholeInit == Init => WholeInv
<1> SUFFICES ASSUME Init PROVE WholeInv
  OBVIOUS
<1>1. PICK j \in Jobs : job = [k \in Jobs |-> IF k = j THEN Asked(0, FirstPage) ELSE Idle]
  BY DEF Init
<1>2. \A p \in Posts : ~Got(p) /\ gathered[p] = 0
  BY DEF Init, NoPosts, Got
<1>3. PageTrue(Asked(0, FirstPage))
  BY <1>2 DEF Init, Asked, PageTrue, WaitingTrue, FromRow, PageWhole, EndSeen
<1>4. PageTrue(Idle)
  BY IdleTrue DEF Idle
<1>5. PagesTrue
  BY <1>1, <1>3, <1>4 DEF PagesTrue
<1>6. ListTrue
  BY <1>2, CalmInit DEF CalmInv, FeedInv, TypeOK, ListTrue, GatheredVisible, GatheredBelow,
                       ListWhole, EndTrue
<1> QED
  BY <1>5, <1>6, CalmInit DEF WholeInv

\* The one page under way is replaced.
LEMMA OnePageTrue ==
  ASSUME WholeInv, NEW j \in Jobs, Busy(j), NEW page,
         job' = [job EXCEPT ![j] = page], PageTrue(page)'
  PROVE  PagesTrue'
<1>1. job'[j] = page /\ \A k \in Jobs \ {j} : job'[k] = job[k] /\ job[k].stage = "idle"
  BY DEF WholeInv, CalmInv, OneBusy, Busy, FeedInv, TypeOK
<1>2. ASSUME NEW k \in Jobs PROVE PageTrue(job[k])'
  <2>1. CASE k = j
    BY <1>1, <2>1 DEF PageTrue, WaitingTrue, FromRow, PageWhole, EndSeen
  <2>2. CASE k # j
    <3>1. job'[k].stage = "idle" /\ job'[k].waiting = <<>>
      BY <1>1, <2>2 DEF WholeInv, CalmInv, PagesLow, BelowTheList
    <3> QED
      BY <3>1 DEF PageTrue, WaitingTrue, FromRow, PageWhole, EndSeen
  <2> QED
    BY <2>1, <2>2
<1> QED
  BY <1>2 DEF PagesTrue

\* What is shown and what has gathered, and what may be shown, stay as they are.
LEMMA ListUntouched ==
  ASSUME ListTrue,
         UNCHANGED <<items, array, noMorePosts, hidden, blocked, serverChanged>>
  PROVE  ListTrue'
BY DEF ListTrue, GatheredVisible, GatheredBelow, ListWhole, EndTrue, Got, Visible, Whole, array

\* The timer decides nothing about posts.
LEMMA TimerFiresWhole ==
  ASSUME WholeInv, NEW j \in Jobs, TimerFires(j)
  PROVE  PagesTrue' /\ ListTrue'
<1> PICK page : page = [job[j] EXCEPT !.stage = "count"]
  OBVIOUS
<1>1. PageOK(job[j]) /\ job[j] \in Page /\ PageTrue(job[j]) /\ job[j].stage = "timer"
  BY DEF WholeInv, CalmInv, FeedInv, PagesInv, PageOK, PagesTrue, TimerFires
<1>2. job' = [job EXCEPT ![j] = page] /\ Busy(j)
  BY <1>1 DEF TimerFires, WholeInv, CalmInv, FeedInv, TypeOK, Busy
<1>3. page.stage = "count" /\ page.id = job[j].id /\ page.waiting = <<>>
  BY <1>1 DEF Page, PageOK
<1>4. UNCHANGED <<items, array, noMorePosts, hidden, blocked, serverChanged>>
  BY DEF TimerFires, rows, user, flags
<1>5. PageTrue(page)'
  <2> QED
    BY <1>1, <1>3, <1>4 DEF PageTrue, WaitingTrue, FromRow, PageWhole, EndSeen, Got, array
<1>6. PagesTrue'
  <2> QED
    BY <1>2, <1>5, OnePageTrue
<1> QED
  BY <1>4, <1>6, ListUntouched DEF WholeInv

\* The page begins right below the row that asked, or at the newest post.
LEMMA CountPostsWhole ==
  ASSUME WholeInv, NEW j \in Jobs, CountPosts(j)
  PROVE  PagesTrue' /\ ListTrue'
<1>1. /\ PageOK(job[j]) /\ job[j] \in Page /\ PageTrue(job[j]) /\ job[j].stage = "count"
      /\ BelowTheList(job[j], items, gathered)
      /\ items \in [Posts -> Nat] /\ gathered \in [Posts -> Nat] /\ count \in Nat
  BY DEF WholeInv, CalmInv, FeedInv, TypeOK, PagesInv, PageOK, PagesTrue, PagesLow, CountPosts
<1>2. PICK top \in IF job[j].id # 0 THEN {job[j].id - 1}
                   ELSE {count} \cup (IF ReadFails THEN {0} ELSE {}) :
        job' = [job EXCEPT ![j] = IF top > 0 THEN [@ EXCEPT !.stage = "read", !.id = top]
                                             ELSE Idle]
  BY DEF CountPosts
<1> PICK page : page = IF top > 0 THEN [job[j] EXCEPT !.stage = "read", !.id = top] ELSE Idle
  OBVIOUS
<1>3. job' = [job EXCEPT ![j] = page] /\ Busy(j)
  BY <1>1, <1>2 DEF WholeInv, CalmInv, FeedInv, TypeOK, Busy
<1>4. UNCHANGED <<items, array, noMorePosts, hidden, blocked, serverChanged>>
  BY DEF CountPosts, rows, user, flags
<1>5. ~noMorePosts
  BY <1>1 DEF PageTrue, EndSeen
<1>6. Whole => \A p, r \in Posts : Got(p) /\ r < p /\ r > top /\ Visible(r) => Got(r)
  <2> SUFFICES ASSUME Whole, NEW p \in Posts, NEW r \in Posts,
                      Got(p), r < p, r > top, Visible(r)
               PROVE  Got(r)
    OBVIOUS
  <2>1. job[j].id # 0
    BY <1>1 DEF BelowTheList, Got
  <2>2. top = job[j].id - 1 /\ job[j].id \in Posts /\ Got(job[j].id)
    BY <1>1, <1>2, <2>1 DEF PageTrue, FromRow, Page, Posts
  <2>3. r = job[j].id \/ job[j].id < r
    BY <2>2 DEF Posts
  <2> QED
    BY <2>2, <2>3 DEF WholeInv, ListTrue, ListWhole
<1>7. PageTrue(page)'
  <2>1. CASE top > 0
    <3>1. page.stage = "read" /\ page.id = top /\ page.waiting = <<>> /\ Len(<<>>) = 0
      BY <1>1, <2>1 DEF PageOK, Page
    <3>2. top \in Int
      BY <1>1, <1>2 DEF Page
    <3>3. WaitingTrue(page)' /\ FromRow(page)' /\ EndSeen(page)'
      BY <1>4, <1>5, <3>1 DEF WaitingTrue, FromRow, EndSeen
    <3>4. PageWhole(page)'
      BY <1>4, <1>6, <3>1, <3>2 DEF PageWhole, Got, Visible, Whole, array
    <3> QED
      BY <3>3, <3>4 DEF PageTrue
  <2>2. CASE ~ top > 0
    BY <2>2, IdleTrue DEF Idle
  <2> QED
    BY <2>1, <2>2
<1>8. PagesTrue'
  <2> QED
    BY <1>3, <1>7, OnePageTrue
<1> QED
  BY <1>4, <1>8, ListUntouched DEF WholeInv

\* What is read of a post that may be shown is the post, if only its number, and what
\* is read with a text may be shown.
LEMMA GetPostTrue ==
  ASSUME NEW p, NEW got \in GetPost(p)
  PROVE  /\ NoTitle \notin blocked /\ Visible(p) => got \in {"post", "unread"}
         /\ got = "post" => Visible(p)
BY DEF GetPost, Answers, Visible

\* A post that is visible waits to be gathered; others leave no gap.
LEMMA ReadPostWhole ==
  ASSUME WholeInv, NEW j \in Jobs, ReadPost(j)
  PROVE  PagesTrue' /\ ListTrue'
<1>1. PageOK(job[j]) /\ job[j] \in Page /\ PageTrue(job[j]) /\ job[j].stage = "read"
  BY DEF WholeInv, CalmInv, FeedInv, PagesInv, PageOK, PagesTrue, ReadPost
<1>2. PICK got \in GetPost(job[j].id) :
        job' = [job EXCEPT ![j] =
                  [stage   |-> IF @.id = 1 \/ @.left = 1 THEN "flush" ELSE "read",
                   id      |-> @.id - 1,
                   left    |-> @.left - 1,
                   waiting |-> Append(@.waiting, got)]]
  BY DEF ReadPost
<1>a. PICK stage : stage = IF job[j].id = 1 \/ job[j].left = 1 THEN "flush" ELSE "read"
  OBVIOUS
<1>b. PICK page : page = [stage   |-> stage,
                        id      |-> job[j].id - 1,
                        left    |-> job[j].left - 1,
                        waiting |-> Append(job[j].waiting, got)]
  OBVIOUS
<1>3. job' = [job EXCEPT ![j] = page] /\ Busy(j)
  BY <1>1, <1>2, <1>a, <1>b DEF WholeInv, CalmInv, FeedInv, TypeOK, Busy
<1>4. UNCHANGED <<items, array, noMorePosts, hidden, blocked, serverChanged>>
  BY DEF ReadPost, rows, user, flags
<1>5. /\ job[j].waiting \in Seq(Outcome) /\ Len(job[j].waiting) \in Nat /\ job[j].id \in Nat
      /\ got \in Outcome
  BY <1>1, <1>2 DEF Page, GetPost, Answers, Outcome
<1>6. /\ Len(page.waiting) = Len(job[j].waiting) + 1
      /\ \A k \in 1 .. Len(job[j].waiting) : page.waiting[k] = job[j].waiting[k]
      /\ page.waiting[Len(job[j].waiting) + 1] = got
  <2>1. page.waiting = Append(job[j].waiting, got)
    BY <1>b
  <2>2. PICK w : w = job[j].waiting
    OBVIOUS
  <2>3. /\ Len(Append(w, got)) = Len(w) + 1
        /\ \A k \in 1 .. Len(w) : Append(w, got)[k] = w[k]
        /\ Append(w, got)[Len(w) + 1] = got
    BY ONLY <1>5, <2>2
  <2> QED
    BY ONLY <2>1, <2>2, <2>3
<1>7. page.id = job[j].id - 1 /\ page.stage \in {"read", "flush"}
  <2>1. page.id = job[j].id - 1 /\ page.stage = stage
    BY <1>b
  <2>2. stage \in {"read", "flush"}
    BY <1>a
  <2> QED
    BY <2>1, <2>2
<1>8. page.id + Len(page.waiting) = job[j].id + Len(job[j].waiting)
  <2>1. PICK n, old, new : n = job[j].id /\ old = Len(job[j].waiting) /\ new = Len(page.waiting)
    OBVIOUS
  <2>2. n \in Nat /\ old \in Nat /\ new = old + 1 /\ page.id = n - 1
    BY <1>5, <1>6, <1>7, <2>1
  <2>3. page.id + new = n + old
    BY ONLY <2>2
  <2> QED
    BY <2>1, <2>3
<1>9. WaitingTrue(page)
  <2> SUFFICES ASSUME NEW k \in 1 .. Len(page.waiting)
               PROVE  LET p == page.id + Len(page.waiting) + 1 - k IN
                        /\ NoTitle \notin blocked /\ Visible(p) =>
                             page.waiting[k] \in {"post", "unread"}
                        /\ page.waiting[k] = "post" => Visible(p)
    BY DEF WaitingTrue
  <2>1. CASE k \in 1 .. Len(job[j].waiting)
    BY <1>1, <1>6, <1>8, <2>1 DEF PageTrue, WaitingTrue
  <2>2. CASE k = Len(job[j].waiting) + 1
    <3>1. page.id + Len(page.waiting) + 1 - k = job[j].id
      BY <1>5, <1>8, <2>2
    <3> QED
      BY <1>6, <2>2, <3>1, GetPostTrue
  <2> QED
    BY <1>5, <1>6, <2>1, <2>2
<1>10. PageTrue(page)'
  <2>1. WaitingTrue(page)'
    BY <1>4, <1>9 DEF WaitingTrue, Visible
  <2>2. FromRow(page)' /\ EndSeen(page)' /\ PageWhole(page)'
    BY <1>1, <1>4, <1>7, <1>8
    DEF PageTrue, FromRow, EndSeen, PageWhole, Got, Visible, Whole, array
  <2> QED
    BY <2>1, <2>2 DEF PageTrue
<1> QED
  BY <1>3, <1>4, <1>10, OnePageTrue, ListUntouched DEF WholeInv

\* A post is gathered right below the one before.
LEMMA AppendPostWhole ==
  ASSUME WholeInv, NEW j \in Jobs, AppendPost(j)
  PROVE  PagesTrue' /\ ListTrue'
<1>1. /\ PageOK(job[j]) /\ job[j] \in Page /\ PageTrue(job[j])
      /\ BelowTheList(job[j], items, gathered)
      /\ items \in [Posts -> Nat] /\ gathered \in [Posts -> Nat]
      /\ gatheredUnread \in [Posts -> Nat] /\ count \in 0 .. MaxPosts
  BY DEF WholeInv, CalmInv, FeedInv, TypeOK, PagesInv, PageOK, PagesTrue, PagesLow
<1>2. PICK first, got : /\ first = job[j].id + Len(job[j].waiting)
                        /\ got = Head(job[j].waiting)
  OBVIOUS
<1>3. PICK page : page = [job[j] EXCEPT !.waiting = Tail(job[j].waiting)]
  OBVIOUS
<1>4. /\ job[j].waiting # <<>> /\ job' = [job EXCEPT ![j] = page]
      /\ gathered' = IF got \in {"post", "unread"}
                     THEN [gathered EXCEPT ![first] = @ + 1] ELSE gathered
      /\ gatheredUnread' = IF got = "unread"
                           THEN [gatheredUnread EXCEPT ![first] = @ + 1] ELSE gatheredUnread
      /\ noMorePosts' = (noMorePosts \/ (got # "skipped" /\ first = 1))
      /\ UNCHANGED <<items, hidden, blocked, serverChanged>>
  BY <1>2, <1>3 DEF AppendPost, WholeInv, CalmInv, FeedInv, TypeOK, rows, user, flags
<1>5. job[j].stage \in {"read", "flush"} /\ Busy(j)
  BY <1>1, <1>4 DEF Page, Stage, PageOK, BelowTheList, Busy
<1>6. /\ job[j].waiting \in Seq(Outcome) /\ Len(job[j].waiting) \in Nat \ {0}
      /\ Len(Tail(job[j].waiting)) = Len(job[j].waiting) - 1
      /\ got = job[j].waiting[1]
      /\ \A k \in 1 .. Len(job[j].waiting) - 1 : Tail(job[j].waiting)[k] = job[j].waiting[k + 1]
  BY <1>1, <1>2, <1>4 DEF Page
<1>7. /\ page.stage = job[j].stage /\ page.id = job[j].id /\ page.waiting = Tail(job[j].waiting)
      /\ page.id \in Nat /\ page.id + Len(page.waiting) = first - 1
  BY <1>1, <1>2, <1>3, <1>6 DEF Page
<1>8. first \in Posts /\ page.id = first - Len(job[j].waiting)
  <2>1. /\ job[j].id \in Nat /\ count \in Nat /\ count <= MaxPosts /\ MaxPosts \in Nat
        /\ job[j].id + Len(job[j].waiting) <= count
    BY <1>1, <1>7, PostsAssumption DEF PageOK
  <2>2. first \in Nat /\ first >= 1 /\ first <= MaxPosts
    BY <1>2, <1>6, <2>1
  <2>3. page.id = first - Len(job[j].waiting)
    BY <1>2, <1>6, <1>7, <2>1
  <2> QED
    BY <2>2, <2>3, PostsAssumption DEF Posts
\* Of the first post that waits.
<1>9. /\ NoTitle \notin blocked /\ Visible(first) => got \in {"post", "unread"}
      /\ got = "post" => Visible(first)
  <2>1. 1 \in 1 .. Len(job[j].waiting) /\ job[j].id + Len(job[j].waiting) + 1 - 1 = first
    BY <1>2, <1>6, <1>8, <1>7 DEF Posts
  <2> QED
    BY <1>1, <1>6, <2>1 DEF PageTrue, WaitingTrue
\* What has gathered before and after.
<1>10. /\ \A q \in Posts : Got(q)' <=> Got(q) \/ (q = first /\ got \in {"post", "unread"})
       /\ \A q \in Posts : gathered'[q] > 0 => gathered[q] > 0 \/ q = first
       /\ \A q \in Posts : gathered'[q] > gatheredUnread'[q] =>
            gathered[q] > gatheredUnread[q] \/ (q = first /\ got = "post")
       /\ \A q \in Posts : Got(q) => q > first
  <2>1. \A q \in Posts : q > first \/ q <= first
    BY <1>8 DEF Posts
  <2>2. \A q \in Posts : Got(q) => q > first
    BY <1>1, <1>2, <1>5, <2>1 DEF BelowTheList, Got
  <2>3. \A q \in Posts :
          /\ gathered'[q] = IF q = first /\ got \in {"post", "unread"}
                            THEN gathered[q] + 1 ELSE gathered[q]
          /\ gatheredUnread'[q] = IF q = first /\ got = "unread"
                                  THEN gatheredUnread[q] + 1 ELSE gatheredUnread[q]
    BY <1>1, <1>4, <1>8
  <2>4. \A q \in Posts : gathered[q] \in Nat /\ gatheredUnread[q] \in Nat /\ items'[q] = items[q]
    BY <1>1, <1>4
  <2> QED
    BY <2>2, <2>3, <2>4 DEF Got
<1>11. ~noMorePosts
  BY <1>1, <1>2, <1>5, <1>6, <1>7 DEF PageTrue, EndSeen
<1>12. noMorePosts' => first = 1
  BY <1>4, <1>11
\* Above the first post that waits, nothing is left out.
<1>13. Whole => \A p, r \in Posts :
         Got(p)' /\ r < p /\ r >= first /\ Visible(r) => Got(r)'
  <2> SUFFICES ASSUME Whole, NEW p \in Posts, NEW r \in Posts,
                      Got(p)', r < p, r >= first, Visible(r)
               PROVE  Got(r)'
    OBVIOUS
  <2>1. CASE r = first
    BY <1>9, <1>10, <2>1 DEF Whole
  <2>2. CASE r # first
    <3>1. r > first /\ Got(p)
      BY <1>8, <1>10, <2>2 DEF Posts
    <3>2. Got(r)
      BY <1>1, <1>2, <1>5, <3>1 DEF PageTrue, PageWhole
    <3> QED
      BY <1>10, <3>2
  <2> QED
    BY <2>1, <2>2
<1>14. WaitingTrue(page)
  <2> SUFFICES ASSUME NEW k \in 1 .. Len(page.waiting)
               PROVE  LET p == page.id + Len(page.waiting) + 1 - k IN
                        /\ NoTitle \notin blocked /\ Visible(p) =>
                             page.waiting[k] \in {"post", "unread"}
                        /\ page.waiting[k] = "post" => Visible(p)
    BY DEF WaitingTrue
  <2>1. k + 1 \in 1 .. Len(job[j].waiting) /\ page.waiting[k] = job[j].waiting[k + 1]
    BY <1>6, <1>7
  <2>2. k \in Nat /\ first \in Nat
    BY <1>6, <1>7, <1>8 DEF Posts
  <2>3. page.id + Len(page.waiting) + 1 - k = first - k
    <3>1. (page.id + Len(page.waiting)) + 1 - k = (first - 1) + 1 - k
      BY <1>7
    <3> QED
      BY <2>2, <3>1
  <2>4. job[j].id + Len(job[j].waiting) + 1 - (k + 1) = first - k
    <3>1. (job[j].id + Len(job[j].waiting)) + 1 - (k + 1) = first + 1 - (k + 1)
      BY <1>2
    <3> QED
      BY <2>2, <3>1
  <2> QED
    BY <1>1, <2>1, <2>3, <2>4 DEF PageTrue, WaitingTrue
<1>15. PageTrue(page)'
  <2>1. WaitingTrue(page)'
    BY <1>4, <1>14 DEF WaitingTrue, Visible
  <2>2. PageWhole(page)'
    <3> SUFFICES ASSUME Whole, NEW p \in Posts, NEW r \in Posts,
                        Got(p)', r < p, r > first - 1, Visible(r)
                 PROVE  Got(r)'
      BY <1>4, <1>7 DEF PageWhole, Visible, Whole
    <3>1. r >= first
      BY <1>8 DEF Posts
    <3> QED
      BY <1>13, <3>1
  <2>3. FromRow(page)'
    BY <1>5, <1>7 DEF FromRow
  <2>4. EndSeen(page)'
    BY <1>5, <1>7, <1>12 DEF EndSeen
  <2> QED
    BY <2>1, <2>2, <2>3, <2>4 DEF PageTrue
<1>16. PagesTrue'
  BY <1>4, <1>5, <1>15, OnePageTrue
<1>17. GatheredVisible'
  BY <1>4, <1>9, <1>10 DEF GatheredVisible, Visible, WholeInv, ListTrue
<1>18. ListWhole'
  <2> SUFFICES ASSUME Whole, NEW p \in Posts, NEW q \in Posts, NEW r \in Posts,
                      Got(p)', Got(q)', q < r, r < p, Visible(r)
               PROVE  Got(r)'
    BY <1>4 DEF ListWhole, Visible, Whole
  <2>1. r >= first
    BY <1>8, <1>10 DEF Posts
  <2> QED
    BY <1>13, <2>1
<1>19. EndTrue'
  <2> SUFFICES ASSUME Whole, noMorePosts', NEW p \in Posts, NEW r \in Posts,
                      Got(p)', r < p, Visible(r)
               PROVE  Got(r)'
    BY <1>4 DEF EndTrue, Visible, Whole
  <2>1. r >= first
    BY <1>12 DEF Posts
  <2> QED
    BY <1>13, <2>1
<1>20. GatheredBelow'
  BY <1>4, <1>8, <1>10 DEF GatheredBelow, Got, Posts, WholeInv, ListTrue
<1> QED
  BY <1>16, <1>17, <1>18, <1>19, <1>20 DEF ListTrue

\* What the page gathered closes up with the list.
LEMMA FlushWhole ==
  ASSUME WholeInv, NEW j \in Jobs, Flush(j)
  PROVE  PagesTrue' /\ ListTrue'
<1>1. items \in [Posts -> Nat] /\ gathered \in [Posts -> Nat]
  BY DEF WholeInv, CalmInv, FeedInv, TypeOK
<1>2. \A p \in Posts : /\ gathered'[p] = 0 /\ gatheredUnread'[p] = 0
                       /\ items'[p] = items[p] + gathered[p]
  BY DEF Flush, SaveGathered, NoPosts
<1>3. \A p \in Posts : Got(p)' <=> Got(p)
  BY <1>1, <1>2 DEF Got
<1>4. UNCHANGED <<noMorePosts, hidden, blocked, serverChanged>>
  BY DEF Flush, user, flags
<1>5. ListTrue'
  BY <1>2, <1>3, <1>4 DEF WholeInv, ListTrue, GatheredVisible, GatheredBelow, ListWhole,
                          EndTrue, Visible, Whole
<1>6. PageTrue(Idle)'
  BY DEF Idle, PageTrue, WaitingTrue, FromRow, PageWhole, EndSeen
<1>7. PagesTrue'
  <2>1. Busy(j) /\ job' = [job EXCEPT ![j] = Idle]
    BY DEF Flush, Busy
  <2> QED
    BY <1>6, <2>1, OnePageTrue
<1> QED
  BY <1>5, <1>7

-----------------------------------------------------------------------------
\* With no page under way nothing has gathered and nothing waits.
LEMMA NothingUnderWay ==
  ASSUME WholeInv, AllIdle
  PROVE  /\ \A p \in Posts : gathered[p] = 0 /\ gatheredUnread[p] = 0
         /\ \A j \in Jobs : job[j].stage = "idle" /\ job[j].waiting = <<>>
BY DEF WholeInv, CalmInv, FeedInv, TypeOK, ListInv, Settled, AllIdle, PagesLow, BelowTheList

\* With no page under way there is nothing to say of pages.
LEMMA StillIdle ==
  ASSUME WholeInv, AllIdle, UNCHANGED job
  PROVE  PagesTrue'
<1>1. ASSUME NEW j \in Jobs PROVE PageTrue(job[j])'
  <2>1. job'[j].stage = "idle" /\ job'[j].waiting = <<>>
    BY NothingUnderWay
  <2> QED
    BY <2>1 DEF PageTrue, WaitingTrue, FromRow, PageWhole, EndSeen
<1> QED
  BY <1>1 DEF PagesTrue

\* A page that is asked for, from a row or from the top, when none is under way.
LEMMA LoadWhole ==
  ASSUME WholeInv, AllIdle, NEW id, NEW n, Load(id, n),
         ~noMorePosts', id # 0 => Got(id)'
  PROVE  PagesTrue'
<1>1. PICK j \in Jobs : job' = [job EXCEPT ![j] = Asked(id, n)]
  BY DEF Load
<1>2. /\ job'[j] = Asked(id, n)
      /\ \A k \in Jobs \ {j} : job'[k].stage = "idle" /\ job'[k].waiting = <<>>
  BY <1>1, NothingUnderWay DEF WholeInv, CalmInv, FeedInv, TypeOK
<1>3. ASSUME NEW k \in Jobs PROVE PageTrue(job[k])'
  <2>1. CASE k = j
    <3>1. job'[k].stage = "timer" /\ job'[k].id = id /\ job'[k].waiting = <<>>
      BY <1>2, <2>1 DEF Asked
    <3> QED
      BY <3>1 DEF PageTrue, WaitingTrue, FromRow, PageWhole, EndSeen, Got
  <2>2. CASE k # j
    <3>1. job'[k].stage = "idle" /\ job'[k].waiting = <<>>
      BY <1>2, <2>2
    <3> QED
      BY <3>1 DEF PageTrue, WaitingTrue, FromRow, PageWhole, EndSeen
  <2> QED
    BY <2>1, <2>2
<1> QED
  BY <1>3 DEF PagesTrue

\* An empty list has no gaps.
LEMMA ReloadWhole ==
  ASSUME WholeInv, AllIdle, UNCHANGED array, Reload
  PROVE  PagesTrue' /\ ListTrue'
<1>1. \A p \in Posts : items'[p] = 0 /\ gathered'[p] = 0 /\ gatheredUnread'[p] = 0
  BY NothingUnderWay DEF Reload, NoPosts, array
<1>2. PagesTrue'
  BY LoadWhole DEF Reload
<1>3. ListTrue'
  BY <1>1 DEF ListTrue, GatheredVisible, GatheredBelow, ListWhole, EndTrue, Got
<1> QED
  BY <1>2, <1>3

\* Hides and blocks take away no row that others need; pulls and scrolls none.
LEMMA UserStepWhole ==
  ASSUME WholeInv, UserStep, AllIdle
  PROVE  PagesTrue' /\ ListTrue'
<1>1. CASE LastRowAppears
  <2>1. PICK p \in Posts : IsLast(p) /\ Load(p, NextPage)
    BY <1>1 DEF LastRowAppears
  <2>2. UNCHANGED <<items, array, noMorePosts, hidden, blocked, serverChanged>>
    BY <1>1 DEF LastRowAppears, rows, user, flags
  <2>3. ~noMorePosts' /\ Got(p)'
    BY <1>1, <2>1, <2>2 DEF LastRowAppears, IsLast, InList, Got
  <2>4. PagesTrue'
    BY <2>1, <2>3, LoadWhole
  <2> QED
    BY <2>2, <2>4, ListUntouched DEF WholeInv
<1>2. CASE PullToRefresh
  <2>1. UNCHANGED <<job, items, array, noMorePosts, hidden, blocked, serverChanged>>
    BY <1>2 DEF PullToRefresh, loading, rows, user
  <2> QED
    BY <2>1, StillIdle, ListUntouched DEF WholeInv
\* Hiding makes less of the list visible; nothing is at hand that it could hide.
<1>3. CASE HidePost
  <2>1. UNCHANGED <<job, items, array, noMorePosts, blocked, serverChanged>>
        /\ hidden \subseteq hidden'
    BY <1>3 DEF HidePost, loading, rows, flags
  <2>2. \A p \in Posts : (Visible(p)' => Visible(p)) /\ (Got(p)' <=> Got(p))
    BY <2>1 DEF Visible, Got, array
  <2>3. ListTrue'
    BY <2>1, <2>2, NothingUnderWay
    DEF WholeInv, ListTrue, GatheredVisible, GatheredBelow, ListWhole, EndTrue, Whole, array
  <2> QED
    BY <2>1, <2>3, StillIdle
\* A reset makes more of it visible, and the home tab is told to reload.
<1>4. CASE ResetHidden \/ UnblockAuthors
  <2>1. UNCHANGED <<job, items, array, noMorePosts>> /\ serverChanged'
    BY <1>4 DEF ResetHidden, UnblockAuthors, loading, rows
  <2>2. ListTrue'
    BY <2>1, NothingUnderWay
    DEF ListTrue, GatheredVisible, GatheredBelow, ListWhole, EndTrue, Whole, array
  <2> QED
    BY <2>1, <2>2, StillIdle
<1>5. CASE BlockAuthor \/ HomeAppears
  BY <1>5, ReloadWhole DEF BlockAuthor, HomeAppears
<1> QED
  BY <1>1, <1>2, <1>3, <1>4, <1>5 DEF UserStep

\* What pages rely on is left alone.
LEMMA PagesUntouched ==
  ASSUME PagesTrue,
         UNCHANGED <<job, items, array, noMorePosts, hidden, blocked, serverChanged>>
  PROVE  PagesTrue'
BY DEF PagesTrue, PageTrue, WaitingTrue, FromRow, PageWhole, EndSeen, Got, Visible, Whole, array

\* Every step of the calm user keeps the list whole.
LEMMA WholeNext ==
  ASSUME WholeInv, [Next /\ OneAtATime]_vars
  PROVE  WholeInv'
<1>1. CalmInv'
  BY CalmNext DEF WholeInv
<1>2. CASE ContractLoads \/ PostCreated \/ UNCHANGED vars
  <2>1. UNCHANGED <<job, items, array, noMorePosts, hidden, blocked, serverChanged>>
    BY <1>2 DEF ContractLoads, PostCreated, vars, loading, rows, user, flags
  <2> QED
    BY <1>1, <2>1, PagesUntouched, ListUntouched DEF WholeInv
<1>3. ASSUME NEW j \in Jobs, JobStep(j) PROVE WholeInv'
  BY <1>1, <1>3, TimerFiresWhole, CountPostsWhole, ReadPostWhole, AppendPostWhole, FlushWhole
  DEF JobStep, WholeInv
<1>4. CASE RefreshFires
  <2>1. AllIdle /\ UNCHANGED array
    BY <1>4 DEF RefreshFires, WholeInv, CalmInv, Alone
  <2>2. CASE Reload
    BY <1>1, <2>1, <2>2, ReloadWhole DEF WholeInv
  <2>3. CASE UNCHANGED <<released, job, rows, noMorePosts>>
    <3>1. UNCHANGED <<job, items, array, noMorePosts, hidden, blocked, serverChanged>>
      BY <1>4, <2>3 DEF RefreshFires, rows, user
    <3> QED
      BY <1>1, <3>1, PagesUntouched, ListUntouched DEF WholeInv
  <2> QED
    BY <1>4, <2>2, <2>3 DEF RefreshFires
<1>5. CASE UserStep /\ OneAtATime
  BY <1>1, <1>5, UserStepWhole DEF OneAtATime, WholeInv
<1> QED
  BY <1>2, <1>3, <1>4, <1>5 DEF Next

\* The invariant of the calm user.
LEMMA WholeInvariant == CalmSpec => []WholeInv
BY WholeInit, WholeNext, PTL DEF CalmSpec

\* A page that ends early, a hidden post, a failed read: none leaves a hole in
\* that user's list, on any server and with any page sizes, as long as the user has
\* not blocked the empty title of an unread row.
THEOREM CalmListHasNoGaps == CalmSpec => []NoGaps
<1>1. WholeInv => NoGaps
  <2> SUFFICES ASSUME WholeInv, Whole,
                      NEW p \in Posts, NEW q \in Posts, NEW r \in Posts,
                      IsFirst(p), IsLast(q), q < r, r < p, Visible(r)
               PROVE  InList(r)
    BY DEF NoGaps
  <2>1. InList(p) /\ InList(q)
    BY DEF IsFirst, IsLast
  <2>2. Got(r)
    BY <2>1 DEF WholeInv, ListTrue, ListWhole, Got, InList
  \* Not gathered only: what has gathered is below every row.
  <2>3. ~ gathered[r] > 0
    BY <2>1 DEF WholeInv, ListTrue, GatheredBelow, InList, Posts
  <2> QED
    BY <2>2, <2>3 DEF Got, InList
<1> QED
  BY <1>1, WholeInvariant, PTL

\* When the view stops asking that user for more, every older post that may be
\* shown has its row, as long as the user has not blocked the empty title.
THEOREM CalmEndMeansEnd == CalmSpec => []EndMeansEnd
<1>1. WholeInv => EndMeansEnd
  <2> SUFFICES ASSUME WholeInv, noMorePosts, AllIdle, Whole,
                      NEW p \in Posts, NEW r \in Posts, IsFirst(p), r < p, Visible(r)
               PROVE  InList(r)
    BY DEF EndMeansEnd
  <2>1. Got(p)
    BY DEF IsFirst, InList, Got
  <2>2. Got(r)
    BY <2>1 DEF WholeInv, ListTrue, EndTrue
  <2>3. gathered[r] = 0
    BY NothingUnderWay
  <2> QED
    BY <2>2, <2>3 DEF Got, InList
<1> QED
  BY <1>1, WholeInvariant, PTL

\* No post enters that user's list with its text that the user hid, whose title is
\* blocked or that the server bans: between the read of a post and the block that
\* shows it, the user changes nothing.
THEOREM CalmOnlyVisibleEnters == CalmSpec => OnlyVisibleEnters
<1>1. WholeInv /\ [Next /\ OneAtATime]_vars =>
        [\A p \in Posts : items'[p] - unread'[p] > items[p] - unread[p] => Visible(p)]_vars
  <2> SUFFICES ASSUME WholeInv, Next, NEW p \in Posts,
                      items'[p] - unread'[p] > items[p] - unread[p]
               PROVE  Visible(p)
    OBVIOUS
  <2>1. /\ items[p] \in Nat /\ unread[p] \in Nat /\ unread[p] <= items[p]
        /\ gathered[p] \in Nat /\ gatheredUnread[p] \in Nat
    BY DEF WholeInv, CalmInv, FeedInv, TypeOK, ListInv
  <2>2. ~ UNCHANGED rows
    BY <2>1 DEF rows
  <2>3. ~Reload
    BY <2>1 DEF Reload, NoPosts
  <2>4. PICK j \in Jobs : Flush(j)
    BY <2>2, <2>3 DEF Next, ContractLoads, JobStep, TimerFires, CountPosts, ReadPost,
       AppendPost, RefreshFires, PostCreated, UserStep, LastRowAppears, PullToRefresh,
       HidePost, BlockAuthor, ResetHidden, UnblockAuthors, HomeAppears
  <2>5. /\ items'[p] = items[p] + gathered[p]
        /\ unread'[p] = unread[p] + gatheredUnread[p]
    BY <2>4 DEF Flush, SaveGathered
  <2>6. gathered[p] > gatheredUnread[p]
    BY <2>1, <2>5
  <2> QED
    BY <2>6 DEF WholeInv, ListTrue, GatheredVisible
<1> QED
  BY <1>1, WholeInvariant, PTL DEF CalmSpec, OnlyVisibleEnters
=============================================================================
