------------------------------ MODULE Comments -------------------------------
(***************************************************************************)
(* The comments of one post: CommentLoader's pages and the refresh of       *)
(* CommentView.  The view shows one list; the last row that appears asks    *)
(* for a page, which a timer and a background thread read comment by        *)
(* comment, newest first, into tempComments, and which is then added to the *)
(* list in ascending order.  The next page begins two below the last row,   *)
(* which is the newest comment of its page: pages overlap.                  *)
(*                                                                         *)
(* The contract is modelled by what getPost and getComment return: a number *)
(* of comments that grows, and comments that do not change.  A row that was *)
(* sent from this view, or whose read failed, has id -1 in the code and     *)
(* NoId here.                                                               *)
(***************************************************************************)
EXTENDS Integers, SequencesExt

CONSTANTS
  FirstPage,    \* comments of the first page, 12 in the code
  NextPage,     \* comments of the others, 6 in the code
  Banned,       \* ids of the comments the contract marks as banned
  MaxComments,  \* bound on the comments of the post
  MaxPages,     \* bound on the pages under way at a time
  MaxRows,      \* bound on the rows from which a page is asked for
  MaxActs       \* bound on sends, failures and refreshes

ASSUME CommentsAssumption ==
  /\ NextPage \in Nat \ {0, 1} /\ FirstPage \in Nat /\ FirstPage >= NextPage
  /\ MaxComments \in Nat /\ MaxPages \in Nat \ {0} /\ MaxRows \in Nat /\ MaxActs \in Nat
  /\ Banned \subseteq 1 .. MaxComments

NoId == 0

VARIABLES
  count,     \* comments of the post in the contract
  list,      \* CommentLoader.allComments, by id
  temp,      \* CommentLoader.tempComments
  noMore,    \* CommentLoader.noMoreComments
  pages,     \* the calls of loadMore under way
  atTop,     \* Refresh.startOffset = Refresh.offset
  started,   \* Refresh.started
  released,  \* Refresh.released: the spinner is shown
  invalid,   \* Refresh.invalid
  due,       \* updateData's blocks on the main queue, a second ahead
  calm,      \* history: nothing happened that may leave a gap, see below
  acts       \* sends, failures and refreshes so far

loader  == <<list, temp, noMore, pages>>
refresh == <<started, released, invalid, due>>
vars    == <<count, loader, atTop, refresh, calm, acts>>

-----------------------------------------------------------------------------
Ids  == 0 .. MaxComments
Page == [stage : {"asked"}, size : 0 .. FirstPage, from : Ids]
          \cup [stage : {"reading"}, next : Ids, end : Ids]
Idle == [stage |-> "idle"]

TypeOK ==
  /\ count \in Ids
  /\ list \in Seq(Ids)
  /\ temp \in Seq(Ids)
  /\ noMore \in BOOLEAN
  /\ pages \in [1 .. MaxPages -> Page \cup {Idle}]
  /\ {atTop, started, released, invalid, calm} \subseteq BOOLEAN
  /\ due \in Nat
  /\ acts \in 0 .. MaxActs

Acts == /\ acts < MaxActs
        /\ acts' = acts + 1

NonePending == \A p \in 1 .. MaxPages : pages[p] = Idle

\* Pages differ only in what they do: a new one takes a name that is free.
FreePage == CHOOSE p \in 1 .. MaxPages : pages[p] = Idle
CanAsk   == \E p \in 1 .. MaxPages : pages[p] = Idle

\* loadMore.
LoadMore(size, from) ==
  /\ CanAsk
  /\ pages' = [pages EXCEPT ![FreePage] = [stage |-> "asked", size |-> size, from |-> from]]

-----------------------------------------------------------------------------
(* Pages.                                                                  *)

\* Deviation: the page begins three below the row.
TopThreeBelow(from) == IF from = NoId THEN count ELSE from - 3

\* The first comment of a page.
Top(from) == IF from = NoId THEN count ELSE from - 2

\* Deviation: numbers below one are read.
PageBeginsUnbounded(p) ==
  /\ pages[p].stage = "asked"
  /\ LET top == Top(pages[p].from)
         end == top - pages[p].size
         page == [stage |-> "reading", next |-> top, end |-> end]
     IN  /\ pages' = [pages EXCEPT ![p] = IF top > 0 THEN page ELSE Idle]
         /\ calm' = (calm /\ (pages[p].size < NextPage => end <= 0))
  /\ UNCHANGED <<count, list, temp, noMore, atTop, refresh, acts>>

\* Deviation: the first comment of a post is not read.
PageBeginsAboveOne(p) ==
  /\ pages[p].stage = "asked"
  /\ LET top == Top(pages[p].from)
         end == top - pages[p].size
         page == [stage |-> "reading", next |-> top, end |-> IF end > 1 THEN end ELSE 1]
     IN  /\ pages' = [pages EXCEPT ![p] = IF top > 0 THEN page ELSE Idle]
         /\ calm' = (calm /\ (pages[p].size < NextPage => end <= 0))
  /\ UNCHANGED <<count, list, temp, noMore, atTop, refresh, acts>>

\* The timer saw a loaded contract.  Below the first comment, or when getPost
\* answers nothing, there is no page.
PageBegins(p) ==
  /\ pages[p].stage = "asked"
  /\ LET top == Top(pages[p].from)
         end == top - pages[p].size
         page == [stage |-> "reading", next |-> top, end |-> IF end > 0 THEN end ELSE 0]
     IN  /\ pages' = [pages EXCEPT ![p] = IF top > 0 THEN page ELSE Idle]
         /\ calm' = (calm /\ (pages[p].size < NextPage => end <= 0))
  /\ UNCHANGED <<count, list, temp, noMore, atTop, refresh, acts>>

PostUnread(p) ==
  /\ pages[p].stage = "asked" /\ pages[p].from = NoId
  /\ Acts
  /\ calm' = FALSE
  /\ pages' = [pages EXCEPT ![p] = Idle]
  /\ UNCHANGED <<count, list, temp, noMore, atTop, refresh>>

Reads(p) == pages[p].stage = "reading" /\ pages[p].next > pages[p].end

\* getComment, and the main queue's block with its answer.
CommentRead(p) ==
  /\ Reads(p)
  /\ LET c == pages[p].next
     IN  /\ temp'   = IF c \in Banned THEN temp ELSE Append(temp, c)
         /\ noMore' = (noMore \/ c = 1)
  /\ pages' = [pages EXCEPT ![p].next = @ - 1]
  /\ UNCHANGED <<count, list, atTop, refresh, calm, acts>>

CommentUnread(p) ==
  /\ Reads(p)
  /\ Acts
  /\ calm' = FALSE
  /\ temp' = Append(temp, NoId)
  /\ pages' = [pages EXCEPT ![p].next = @ - 1]
  /\ UNCHANGED <<count, list, noMore, atTop, refresh>>

\* Deviation: what was gathered is cleared before it is added.
PageShownCleared(p) ==
  /\ pages[p].stage = "reading" /\ ~Reads(p)
  /\ temp'  = <<>>
  /\ list'  = list \o Reverse(temp')
  /\ pages' = [pages EXCEPT ![p] = Idle]
  /\ UNCHANGED <<count, noMore, atTop, refresh, calm, acts>>

\* The main queue's block at the end of the page.
PageShown(p) ==
  /\ pages[p].stage = "reading" /\ ~Reads(p)
  /\ list'  = list \o Reverse(temp)
  /\ temp'  = <<>>
  /\ pages' = [pages EXCEPT ![p] = Idle]
  /\ UNCHANGED <<count, noMore, atTop, refresh, calm, acts>>

PageStep(p) ==
  \/ PageBegins(p)
  \/ CommentRead(p)
  \/ PageShown(p)

-----------------------------------------------------------------------------
(* The user.  Gaps may come of one who asks for a page while another is     *)
(* under way, or leaves the top while a refresh is due; of a read that      *)
(* fails; and of a first page that is shorter than the others because the   *)
(* feed's number of comments was out of date: that user is not calm.       *)

\* The last row appears; the list scrolls under the finger as it likes.
LastRowAppears ==
  /\ list # <<>> /\ Len(list) <= MaxRows
  /\ ~noMore
  /\ LoadMore(NextPage, Last(list))
  /\ calm' = (calm /\ NonePending /\ ~started)
  /\ UNCHANGED <<count, list, temp, noMore, atTop, refresh, acts>>

\* The list is pulled beyond its top.
Pull ==
  /\ ~started
  /\ Acts
  /\ started' = TRUE
  /\ atTop' = FALSE
  /\ calm' = (calm /\ NonePending)
  /\ UNCHANGED <<count, loader, released, invalid, due>>

ScrollAway ==
  /\ atTop
  /\ atTop' = FALSE
  /\ calm' = (calm /\ ~released)
  /\ UNCHANGED <<count, loader, refresh, acts>>

\* The list rests at its top.  What the view does when an invalid refresh becomes
\* valid asks for one that is not released, which the step before has excluded.
BackAtTop ==
  /\ ~atTop
  /\ atTop' = TRUE
  /\ released' = (released \/ started)
  /\ due' = IF started /\ ~released THEN due + 1 ELSE due
  /\ UNCHANGED <<count, loader, started, invalid, calm, acts>>

\* Deviation: the end that was found stays found.
RefreshFiresForgetful ==
  /\ due > 0
  /\ due' = due - 1
  /\ IF atTop
     THEN /\ list' = <<>>
          /\ started' = FALSE /\ released' = FALSE
          /\ UNCHANGED invalid
     ELSE /\ invalid' = TRUE
          /\ UNCHANGED <<list, started, released>>
  /\ LoadMore(NextPage, NoId)
  /\ UNCHANGED <<count, temp, noMore, atTop, calm, acts>>

\* Deviation: the spinner stays.
RefreshFiresSpinning ==
  /\ due > 0
  /\ due' = due - 1
  /\ IF atTop
     THEN /\ list' = <<>>
          /\ started' = FALSE
          /\ UNCHANGED <<invalid, released>>
     ELSE /\ invalid' = TRUE
          /\ UNCHANGED <<list, started, released>>
  /\ LoadMore(NextPage, NoId)
  /\ noMore' = FALSE
  /\ UNCHANGED <<count, temp, atTop, calm, acts>>

\* updateData, a second later.
RefreshFires ==
  /\ due > 0
  /\ due' = due - 1
  /\ IF atTop
     THEN /\ list' = <<>>
          /\ started' = FALSE /\ released' = FALSE
          /\ UNCHANGED invalid
     ELSE /\ invalid' = TRUE
          /\ UNCHANGED <<list, started, released>>
  /\ LoadMore(NextPage, NoId)
  /\ noMore' = FALSE
  /\ UNCHANGED <<count, temp, atTop, calm, acts>>

\* addComment's block on the main queue: the row is shown, stored or not.
OwnCommentShown ==
  /\ Acts
  /\ list' = Append(list, NoId)
  /\ UNCHANGED <<count, temp, noMore, pages, atTop, refresh, calm>>

\* Somebody's comment is stored.
CommentStored ==
  /\ count < MaxComments
  /\ count' = count + 1
  /\ UNCHANGED <<loader, atTop, refresh, calm, acts>>

\* The view opens on a post that had `number` comments when the feed read it, and
\* asks for as many.
Init ==
  /\ count \in Ids
  /\ \E number \in 0 .. count :
       pages = [p \in 1 .. MaxPages |->
         IF p = 1 THEN [stage |-> "asked", from |-> NoId,
                        size |-> IF number > FirstPage THEN FirstPage ELSE number]
                  ELSE Idle]
  /\ list = <<>> /\ temp = <<>> /\ noMore = FALSE
  /\ atTop = TRUE
  /\ started = FALSE /\ released = FALSE /\ invalid = FALSE /\ due = 0
  /\ calm = TRUE
  /\ acts = 0

Next ==
  \/ \E p \in 1 .. MaxPages : PageStep(p) \/ PostUnread(p) \/ CommentUnread(p)
  \/ LastRowAppears
  \/ Pull
  \/ ScrollAway
  \/ BackAtTop
  \/ RefreshFires
  \/ OwnCommentShown
  \/ CommentStored

\* Threads and timers run; the user keeps scrolling, to the last row and back.
Fairness ==
  /\ \A p \in 1 .. MaxPages : WF_vars(PageStep(p))
  /\ WF_vars(RefreshFires)
  /\ WF_vars(LastRowAppears)
  /\ SF_vars(BackAtTop)

Spec == Init /\ [][Next]_vars /\ Fairness

-----------------------------------------------------------------------------
\* tempComments is shared by the pages under way, and each shows and clears all
\* that is there: a comment that was read stays there until it is in the list, and
\* once no page is under way none is left behind.
TempIsShown ==
  /\ [](NonePending => temp = <<>>)
  /\ [][ToSet(temp) \subseteq ToSet(temp') \cup ToSet(list')]_vars

\* noMoreComments outlives neither the list nor the page it was set for: when it
\* holds, the first comment is in the list or about to be.
EndIsSeen == noMore => 1 \in ToSet(list) \cup ToSet(temp) \cup Banned

\* A page all of whose comments but the oldest are banned ends two above c: the
\* next begins two below that row, and the code leaves comment c out.
LeftOut(c) == c + 2 .. c + NextPage \subseteq Banned

\* A user who waits and sees the end has been shown every comment that is not
\* banned up to the newest in the list: overlapping pages leave no gap but those
\* that such bans make.
EndMeansEnd ==
  noMore /\ NonePending /\ calm =>
    \A c \in 1 .. MaxComments :
      c \notin Banned /\ ~LeftOut(c) /\ (\E d \in ToSet(list) : c <= d) => c \in ToSet(list)

\* A page that is banned whole is asked for again for ever.
BannedWhole == \E c \in 1 .. MaxComments : c + 1 .. c + NextPage \subseteq Banned

\* A user who waits and keeps scrolling comes to the end of a list that has
\* comments in it, unless a page is banned whole.
EndIsReached ==
  (\E c \in ToSet(list) : c # NoId) ~> (noMore \/ ~calm \/ BannedWhole)

\* A refresh that a user waits for ends.
CalmRefreshEnds == released ~> (~released \/ ~calm)
=============================================================================
