--------------------------- MODULE CommentsProofs ----------------------------
(***************************************************************************)
(* Proofs about Comments, for pages of any size, any number of comments,    *)
(* pages and rows, and any user, calm or not.                              *)
(***************************************************************************)
EXTENDS Comments, TLAPS

\* Reversing keeps the elements of a sequence.
LEMMA ReverseKeeps ==
  ASSUME NEW S, NEW s \in Seq(S)
  PROVE  Reverse(s) \in Seq(S) /\ ToSet(Reverse(s)) = ToSet(s)
<1>1. Len(s) \in Nat /\ DOMAIN s = 1 .. Len(s)
  OBVIOUS
<1>2. \A i \in 1 .. Len(s) : Len(s) - i + 1 \in 1 .. Len(s)
  BY <1>1
<1>3. Reverse(s) \in [1 .. Len(s) -> S]
  BY <1>1, <1>2 DEF Reverse
<1>4. Reverse(s) \in Seq(S)
  BY <1>1, <1>3
<1>5. DOMAIN Reverse(s) = 1 .. Len(s)
  BY DEF Reverse
<1>6. ToSet(Reverse(s)) \subseteq ToSet(s)
  BY <1>1, <1>2, <1>5 DEF ToSet, Reverse
<1>7. ToSet(s) \subseteq ToSet(Reverse(s))
  <2> SUFFICES ASSUME NEW i \in 1 .. Len(s) PROVE s[i] \in ToSet(Reverse(s))
    BY <1>1 DEF ToSet
  <2>1. Reverse(s)[Len(s) - i + 1] = s[i]
    BY <1>1, <1>2 DEF Reverse
  <2> QED
    BY <1>2, <1>5, <2>1 DEF ToSet
<1> QED
  BY <1>4, <1>6, <1>7

\* Adding one sequence to another keeps the elements of both.
LEMMA ConcatenationKeeps ==
  ASSUME NEW S, NEW s \in Seq(S), NEW t \in Seq(S)
  PROVE  s \o t \in Seq(S) /\ ToSet(s) \cup ToSet(t) \subseteq ToSet(s \o t)
<1>1. s \o t \in Seq(S) /\ Len(s \o t) = Len(s) + Len(t)
  OBVIOUS
<1>2. /\ \A i \in 1 .. Len(s) : (s \o t)[i] = s[i]
      /\ \A i \in 1 .. Len(t) : (s \o t)[Len(s) + i] = t[i]
  OBVIOUS
<1>3. DOMAIN (s \o t) = 1 .. Len(s) + Len(t) /\ DOMAIN s = 1 .. Len(s) /\ DOMAIN t = 1 .. Len(t)
  BY <1>1
<1>4. \A i \in 1 .. Len(s) : i \in 1 .. Len(s) + Len(t)
  OBVIOUS
<1>5. \A i \in 1 .. Len(t) : Len(s) + i \in 1 .. Len(s) + Len(t)
  OBVIOUS
<1>6. ToSet(s) \subseteq ToSet(s \o t)
  BY <1>2, <1>3, <1>4 DEF ToSet
<1>7. ToSet(t) \subseteq ToSet(s \o t)
  BY <1>2, <1>3, <1>5 DEF ToSet
<1> QED
  BY <1>1, <1>6, <1>7

\* So does appending one element, which becomes one.
LEMMA AppendKeeps ==
  ASSUME NEW S, NEW s \in Seq(S), NEW e \in S
  PROVE  Append(s, e) \in Seq(S) /\ ToSet(s) \cup {e} \subseteq ToSet(Append(s, e))
<1>1. Append(s, e) \in Seq(S) /\ Len(Append(s, e)) = Len(s) + 1
  OBVIOUS
<1>2. /\ \A i \in 1 .. Len(s) : Append(s, e)[i] = s[i]
      /\ Append(s, e)[Len(s) + 1] = e
  OBVIOUS
<1>3. DOMAIN Append(s, e) = 1 .. Len(s) + 1 /\ DOMAIN s = 1 .. Len(s)
  BY <1>1
<1>4. Len(s) + 1 \in 1 .. Len(s) + 1 /\ \A i \in 1 .. Len(s) : i \in 1 .. Len(s) + 1
  OBVIOUS
<1> QED
  BY <1>1, <1>2, <1>3, <1>4 DEF ToSet

\* loadMore puts one page in a free place.
LEMMA PageAsked ==
  ASSUME TypeOK, NEW size \in 0 .. FirstPage, NEW from \in Ids, LoadMore(size, from)
  PROVE  \E p \in 1 .. MaxPages :
           /\ pages[p] = Idle
           /\ pages' = [pages EXCEPT ![p] = [stage |-> "asked", size |-> size, from |-> from]]
<1>1. FreePage \in 1 .. MaxPages /\ pages[FreePage] = Idle
  BY DEF LoadMore, CanAsk, FreePage
<1> QED
  BY <1>1 DEF LoadMore

-----------------------------------------------------------------------------
(* The invariant.                                                          *)

\* What was gathered is on the way into the list.
Gathering == temp # <<>> => \E p \in 1 .. MaxPages : pages[p].stage = "reading"

\* TempIsShown follows from Gathering, which says more: a page that is asked for
\* and comes to nothing leaves what others gathered to a page that still reads.
CommentsInv ==
  /\ TypeOK
  /\ Gathering
  /\ EndIsSeen

\* The names of the variables that are booleans.
LEMMA Booleans ==
  TypeOK => /\ atTop \in BOOLEAN /\ started \in BOOLEAN /\ released \in BOOLEAN
            /\ invalid \in BOOLEAN /\ calm \in BOOLEAN
BY DEF TypeOK

\* A step that leaves the loader alone.
LEMMA LoaderUntouched ==
  ASSUME CommentsInv, TypeOK', UNCHANGED loader
  PROVE  CommentsInv'
BY DEF CommentsInv, loader, Gathering, EndIsSeen

\* A page that is under way when another is asked for goes on.
LEMMA AskedKeepsGathering ==
  ASSUME TypeOK, Gathering, NEW size \in 0 .. FirstPage, NEW from \in Ids,
         LoadMore(size, from), UNCHANGED temp
  PROVE  Gathering' /\ pages' \in [1 .. MaxPages -> Page \cup {Idle}]
<1>1. PICK p \in 1 .. MaxPages :
        /\ pages[p] = Idle
        /\ pages' = [pages EXCEPT ![p] = [stage |-> "asked", size |-> size, from |-> from]]
  BY PageAsked
<1>2. \A q \in 1 .. MaxPages : pages[q].stage = "reading" => pages'[q] = pages[q]
  BY <1>1 DEF Idle, TypeOK
<1>3. [stage |-> "asked", size |-> size, from |-> from] \in Page
  BY DEF Page
<1>4. pages' \in [1 .. MaxPages -> Page \cup {Idle}]
  BY <1>1, <1>3 DEF TypeOK
<1>5. Gathering'
  BY <1>2 DEF Gathering
<1> QED
  BY <1>4, <1>5

\* Whatever a page that has not begun becomes, the others still read.
LEMMA AskedPageGoes ==
  ASSUME TypeOK, Gathering, NEW p \in 1 .. MaxPages, pages[p].stage = "asked",
         NEW page \in Page \cup {Idle}, pages' = [pages EXCEPT ![p] = page], UNCHANGED temp
  PROVE  Gathering' /\ pages' \in [1 .. MaxPages -> Page \cup {Idle}]
<1>1. \A q \in 1 .. MaxPages : pages[q].stage = "reading" => pages'[q] = pages[q]
  BY DEF TypeOK
<1>2. pages' \in [1 .. MaxPages -> Page \cup {Idle}]
  BY DEF TypeOK
<1> QED
  BY <1>1, <1>2 DEF Gathering

\* The comments and rows of the constants.
LEMMA Numbers ==
  /\ NextPage \in 0 .. FirstPage /\ NoId \in Ids
  /\ MaxComments \in Nat /\ MaxActs \in Nat /\ FirstPage \in Nat
BY CommentsAssumption DEF NoId, Ids

\* Counting a step stays within the bound.
LEMMA ActsCounted ==
  ASSUME TypeOK, Acts
  PROVE  acts' \in 0 .. MaxActs
<1>1. acts \in 0 .. MaxActs
  BY DEF TypeOK
<1> QED
  BY <1>1, Numbers DEF Acts

-----------------------------------------------------------------------------
(* Pages.                                                                  *)

\* A page begins within the comments of the post, or not at all.
LEMMA PageBeginsKeeps ==
  ASSUME CommentsInv, NEW p \in 1 .. MaxPages, PageBegins(p)
  PROVE  CommentsInv'
<1> USE DEF CommentsInv
<1> DEFINE top  == Top(pages[p].from)
           end  == top - pages[p].size
           page == [stage |-> "reading", next |-> top, end |-> IF end > 0 THEN end ELSE 0]
<1>1. pages[p] \in [stage : {"asked"}, size : 0 .. FirstPage, from : Ids]
  BY DEF PageBegins, TypeOK, Page, Idle
<1>2. top \in Int /\ top <= MaxComments /\ pages[p].size \in Nat
  BY <1>1, Numbers DEF Top, Ids, TypeOK
<1>3. ASSUME top > 0 PROVE page \in Page
  <2>1. top \in Ids /\ (IF end > 0 THEN end ELSE 0) \in Ids
    BY <1>2, <1>3, Numbers DEF Ids
  <2> HIDE DEF top, end
  <2> QED
    BY <2>1 DEF Page
<1>4. pages' = [pages EXCEPT ![p] = IF top > 0 THEN page ELSE Idle]
  BY DEF PageBegins
<1>5. calm' \in BOOLEAN
  BY Booleans DEF PageBegins
<1>6. UNCHANGED <<count, list, temp, noMore, atTop, refresh, acts>>
  BY DEF PageBegins
<1> HIDE DEF page, end, top
<1>7. (IF top > 0 THEN page ELSE Idle) \in Page \cup {Idle}
  BY <1>3
<1>8. Gathering' /\ pages' \in [1 .. MaxPages -> Page \cup {Idle}]
  BY <1>1, <1>4, <1>6, <1>7, AskedPageGoes
<1>9. TypeOK'
  BY <1>5, <1>6, <1>8 DEF TypeOK, refresh
<1>10. EndIsSeen'
  BY <1>6 DEF EndIsSeen
<1> QED
  BY <1>8, <1>9, <1>10

\* A post that cannot be read has no page.
LEMMA PostUnreadKeeps ==
  ASSUME CommentsInv, NEW p \in 1 .. MaxPages, PostUnread(p)
  PROVE  CommentsInv'
<1> USE DEF CommentsInv, PostUnread
<1>1. Gathering' /\ pages' \in [1 .. MaxPages -> Page \cup {Idle}]
  BY AskedPageGoes
<1>2. TypeOK'
  BY <1>1, ActsCounted DEF TypeOK, refresh
<1>3. EndIsSeen'
  BY DEF EndIsSeen
<1> QED
  BY <1>1, <1>2, <1>3

\* A page that reads goes on to the comment below.
LEMMA ReadingGoesOn ==
  ASSUME TypeOK, NEW p \in 1 .. MaxPages, Reads(p), pages' = [pages EXCEPT ![p].next = @ - 1]
  PROVE  /\ Gathering'
         /\ pages' \in [1 .. MaxPages -> Page \cup {Idle}]
         /\ pages[p].next \in Ids
<1>1. pages[p] \in [stage : {"reading"}, next : Ids, end : Ids]
  BY DEF Reads, TypeOK, Page, Idle
<1>2. pages[p].next - 1 \in Ids
  BY <1>1, Numbers DEF Reads, Ids
<1>3. [pages[p] EXCEPT !.next = @ - 1] \in [stage : {"reading"}, next : Ids, end : Ids]
  BY <1>1, <1>2
<1>4. pages' = [pages EXCEPT ![p] = [pages[p] EXCEPT !.next = @ - 1]]
  OBVIOUS
<1>5. pages' \in [1 .. MaxPages -> Page \cup {Idle}]
  BY <1>3, <1>4 DEF TypeOK, Page
<1>6. pages'[p].stage = "reading"
  BY <1>3, <1>4 DEF TypeOK
<1> QED
  BY <1>1, <1>5, <1>6 DEF Gathering

\* A comment that is read is gathered, and comment 1 is the end.
LEMMA CommentReadKeeps ==
  ASSUME CommentsInv, NEW p \in 1 .. MaxPages, CommentRead(p)
  PROVE  CommentsInv'
<1> USE DEF CommentsInv
<1> DEFINE c == pages[p].next
<1>1. /\ temp' = IF c \in Banned THEN temp ELSE Append(temp, c)
      /\ noMore' = (noMore \/ c = 1)
      /\ pages' = [pages EXCEPT ![p].next = @ - 1]
      /\ UNCHANGED <<count, list, atTop, refresh, calm, acts>>
      /\ Reads(p)
  BY DEF CommentRead
<1>2. Gathering' /\ pages' \in [1 .. MaxPages -> Page \cup {Idle}] /\ c \in Ids
  BY <1>1, ReadingGoesOn
<1> HIDE DEF c
<1>3. temp \in Seq(Ids)
  BY DEF TypeOK
<1>4. Append(temp, c) \in Seq(Ids) /\ ToSet(temp) \cup {c} \subseteq ToSet(Append(temp, c))
  BY <1>2, <1>3, AppendKeeps
<1>5. TypeOK'
  BY <1>1, <1>2, <1>4 DEF TypeOK, refresh
<1>6. EndIsSeen'
  <2>1. ToSet(temp) \subseteq ToSet(temp')
    BY <1>1, <1>4
  <2>2. c = 1 => 1 \in ToSet(temp') \cup Banned
    BY <1>1, <1>4
  <2> QED
    BY <1>1, <2>1, <2>2 DEF EndIsSeen
<1> QED
  BY <1>2, <1>5, <1>6

\* A comment that cannot be read leaves a row without a number.
LEMMA CommentUnreadKeeps ==
  ASSUME CommentsInv, NEW p \in 1 .. MaxPages, CommentUnread(p)
  PROVE  CommentsInv'
<1> USE DEF CommentsInv, CommentUnread
<1>1. Gathering' /\ pages' \in [1 .. MaxPages -> Page \cup {Idle}]
  BY ReadingGoesOn
<1>2. temp \in Seq(Ids) /\ NoId \in Ids
  BY Numbers DEF TypeOK
<1>3. Append(temp, NoId) \in Seq(Ids) /\ ToSet(temp) \subseteq ToSet(Append(temp, NoId))
  BY <1>2, AppendKeeps
<1>4. acts' \in 0 .. MaxActs /\ calm' \in BOOLEAN
  BY ActsCounted
<1>5. TypeOK'
  BY <1>1, <1>3, <1>4 DEF TypeOK, refresh
<1>6. EndIsSeen'
  BY <1>3 DEF EndIsSeen
<1> QED
  BY <1>1, <1>5, <1>6

\* A page that ends shows everything that is gathered.
LEMMA PageShownKeeps ==
  ASSUME CommentsInv, NEW p \in 1 .. MaxPages, PageShown(p)
  PROVE  CommentsInv'
<1> USE DEF CommentsInv, PageShown
<1>1. list \in Seq(Ids) /\ temp \in Seq(Ids)
  BY DEF TypeOK
<1>2. Reverse(temp) \in Seq(Ids) /\ ToSet(Reverse(temp)) = ToSet(temp)
  BY <1>1, ReverseKeeps
<1>3. /\ list \o Reverse(temp) \in Seq(Ids)
      /\ ToSet(list) \cup ToSet(temp) \subseteq ToSet(list \o Reverse(temp))
  BY <1>1, <1>2, ConcatenationKeeps
<1>4. pages' \in [1 .. MaxPages -> Page \cup {Idle}]
  BY DEF TypeOK
<1>5. TypeOK'
  BY <1>3, <1>4 DEF TypeOK, refresh
<1>6. EndIsSeen'
  BY <1>3 DEF EndIsSeen
<1> QED
  BY <1>5, <1>6 DEF Gathering

-----------------------------------------------------------------------------
(* The user and the rest.                                                  *)

\* The last row asks for a page; the list is not touched.
LEMMA LastRowKeeps ==
  ASSUME CommentsInv, LastRowAppears
  PROVE  CommentsInv'
<1> USE DEF CommentsInv, LastRowAppears
<1>1. Last(list) \in Ids
  <2>1. list \in Seq(Ids) /\ list # <<>>
    BY DEF TypeOK
  <2>2. Len(list) \in 1 .. Len(list)
    BY <2>1
  <2> QED
    BY <2>1, <2>2 DEF Last
<1>2. Gathering' /\ pages' \in [1 .. MaxPages -> Page \cup {Idle}]
  BY <1>1, Numbers, AskedKeepsGathering
<1>3. calm' \in BOOLEAN
  BY Booleans
<1>4. TypeOK'
  BY <1>2, <1>3 DEF TypeOK, refresh
<1>5. EndIsSeen'
  BY DEF EndIsSeen
<1> QED
  BY <1>2, <1>4, <1>5

\* What the fingers and the main queue do to the spinner is not the loader's.
LEMMA GesturesKeep ==
  ASSUME CommentsInv, Pull \/ ScrollAway \/ BackAtTop
  PROVE  CommentsInv'
<1>1. UNCHANGED loader
  BY DEF Pull, ScrollAway, BackAtTop
<1>2. TypeOK'
  <2>1. CASE Pull
    BY <2>1, Booleans, ActsCounted DEF Pull, CommentsInv, TypeOK, loader
  <2>2. CASE ScrollAway
    BY <2>2, Booleans DEF ScrollAway, CommentsInv, TypeOK, loader, refresh
  <2>3. CASE BackAtTop
    <3>1. due' \in Nat /\ released' \in BOOLEAN
      BY <2>3, Booleans DEF BackAtTop, CommentsInv, TypeOK
    <3> QED
      BY <2>3, <3>1 DEF BackAtTop, CommentsInv, TypeOK, loader
  <2> QED
    BY <2>1, <2>2, <2>3
<1> QED
  BY <1>1, <1>2, LoaderUntouched

\* A refresh begins anew: there is no end before a page finds it.
LEMMA RefreshFiresKeeps ==
  ASSUME CommentsInv, RefreshFires
  PROVE  CommentsInv'
<1> USE DEF CommentsInv
<1>1. /\ LoadMore(NextPage, NoId) /\ noMore' = FALSE
      /\ UNCHANGED <<count, temp, atTop, calm, acts>>
  BY DEF RefreshFires
<1>2. Gathering' /\ pages' \in [1 .. MaxPages -> Page \cup {Idle}]
  BY <1>1, Numbers, AskedKeepsGathering
<1>3. due' \in Nat
  BY DEF RefreshFires, TypeOK
<1>4. list' \in Seq(Ids)
  <2>1. list' = <<>> \/ list' = list
    BY DEF RefreshFires
  <2>2. list \in Seq(Ids)
    BY DEF TypeOK
  <2>3. <<>> \in Seq(Ids)
    OBVIOUS
  <2>4. CASE list' = <<>>
    BY <2>3, <2>4, Zenon
  <2>5. CASE list' = list
    BY <2>2, <2>5, Zenon
  <2> QED
    BY <2>1, <2>4, <2>5
<1>5. started' \in BOOLEAN /\ released' \in BOOLEAN /\ invalid' \in BOOLEAN
  BY Booleans DEF RefreshFires
<1>6. TypeOK'
  BY <1>1, <1>2, <1>3, <1>4, <1>5 DEF TypeOK
<1>7. EndIsSeen'
  BY <1>1 DEF EndIsSeen
<1> QED
  BY <1>2, <1>6, <1>7

\* A row without a number takes none away.
LEMMA OwnCommentKeeps ==
  ASSUME CommentsInv, OwnCommentShown
  PROVE  CommentsInv'
<1> USE DEF CommentsInv, OwnCommentShown
<1>1. list \in Seq(Ids) /\ NoId \in Ids
  BY Numbers DEF TypeOK
<1>2. Append(list, NoId) \in Seq(Ids) /\ ToSet(list) \subseteq ToSet(Append(list, NoId))
  BY <1>1, AppendKeeps
<1>3. TypeOK'
  BY <1>2, ActsCounted DEF TypeOK, refresh
<1>4. Gathering' /\ EndIsSeen'
  BY <1>2 DEF Gathering, EndIsSeen
<1> QED
  BY <1>3, <1>4

\* A new comment is not the loader's.
LEMMA CommentStoredKeeps ==
  ASSUME CommentsInv, CommentStored
  PROVE  CommentsInv'
<1>1. count' \in Ids
  BY Numbers DEF CommentStored, CommentsInv, TypeOK, Ids
<1>2. TypeOK'
  BY <1>1 DEF CommentStored, CommentsInv, TypeOK, loader, refresh
<1> QED
  BY <1>2, LoaderUntouched DEF CommentStored

\* The view opens with nothing gathered and no end.
LEMMA CommentsBegin == Init => CommentsInv
<1> SUFFICES ASSUME Init PROVE CommentsInv
  OBVIOUS
<1>1. PICK number \in 0 .. count :
        pages = [p \in 1 .. MaxPages |->
          IF p = 1 THEN [stage |-> "asked", from |-> NoId,
                         size |-> IF number > FirstPage THEN FirstPage ELSE number]
                   ELSE Idle]
  BY DEF Init
<1>2. count \in Ids
  BY DEF Init
<1>3. (IF number > FirstPage THEN FirstPage ELSE number) \in 0 .. FirstPage
  BY <1>2, Numbers DEF Ids
<1>4. pages \in [1 .. MaxPages -> Page \cup {Idle}]
  BY <1>1, <1>3, Numbers DEF Page
<1>5. list \in Seq(Ids) /\ temp \in Seq(Ids)
  BY DEF Init
<1>6. /\ noMore \in BOOLEAN /\ {atTop, started, released, invalid, calm} \subseteq BOOLEAN
      /\ due \in Nat
  BY DEF Init
<1>7. acts \in 0 .. MaxActs
  BY Numbers DEF Init
<1>8. TypeOK
  BY <1>2, <1>4, <1>5, <1>6, <1>7 DEF TypeOK
<1> QED
  BY <1>8 DEF CommentsInv, Init, Gathering, EndIsSeen

\* Every step keeps the invariant.
LEMMA CommentsPreserved ==
  ASSUME CommentsInv, [Next]_vars
  PROVE  CommentsInv'
<1>1. CASE UNCHANGED vars
  <2>1. TypeOK'
    BY <1>1 DEF vars, CommentsInv, TypeOK, loader, refresh
  <2> QED
    BY <1>1, <2>1, LoaderUntouched DEF vars
<1>2. CASE Next
  BY <1>2, PageBeginsKeeps, PostUnreadKeeps, CommentReadKeeps, CommentUnreadKeeps,
     PageShownKeeps, LastRowKeeps, GesturesKeep, RefreshFiresKeeps, OwnCommentKeeps,
     CommentStoredKeeps DEF Next, PageStep
<1> QED
  BY <1>1, <1>2

\* Type correctness of the loader, its pages and the refresh.
THEOREM CommentsTypeCorrect == Spec => []TypeOK
<1>1. CommentsInv => TypeOK
  BY DEF CommentsInv
<1> QED
  BY <1>1, CommentsBegin, CommentsPreserved, PTL DEF Spec

\* What was gathered stays where it is, or is shown.
LEMMA GatheredStays ==
  ASSUME TypeOK, [Next]_vars
  PROVE  ToSet(temp) \subseteq ToSet(temp') \cup ToSet(list')
<1>1. list \in Seq(Ids) /\ temp \in Seq(Ids) /\ NoId \in Ids
  BY Numbers DEF TypeOK
<1>2. CASE UNCHANGED temp
  BY <1>2
<1>3. ASSUME NEW p \in 1 .. MaxPages, CommentRead(p)
      PROVE  ToSet(temp) \subseteq ToSet(temp')
  <2>1. pages[p].next \in Ids
    BY <1>3, ReadingGoesOn DEF CommentRead
  <2>2. temp' = temp \/ temp' = Append(temp, pages[p].next)
    BY <1>3 DEF CommentRead
  <2>3. ToSet(temp) \subseteq ToSet(Append(temp, pages[p].next))
    BY <1>1, <2>1, AppendKeeps
  <2> QED
    BY <2>2, <2>3
<1>4. ASSUME NEW p \in 1 .. MaxPages, CommentUnread(p)
      PROVE  ToSet(temp) \subseteq ToSet(temp')
  <2>1. temp' = Append(temp, NoId)
    BY <1>4 DEF CommentUnread
  <2> QED
    BY <1>1, <2>1, AppendKeeps
<1>5. ASSUME NEW p \in 1 .. MaxPages, PageShown(p)
      PROVE  ToSet(temp) \subseteq ToSet(list')
  <2>1. list' = list \o Reverse(temp)
    BY <1>5 DEF PageShown
  <2>2. Reverse(temp) \in Seq(Ids) /\ ToSet(Reverse(temp)) = ToSet(temp)
    BY <1>1, ReverseKeeps
  <2> QED
    BY <1>1, <2>1, <2>2, ConcatenationKeeps
<1>6. CASE Next
  <2>1. CASE \E p \in 1 .. MaxPages : PageStep(p) \/ PostUnread(p) \/ CommentUnread(p)
    BY <1>2, <1>3, <1>4, <1>5, <2>1 DEF PageStep, PageBegins, PostUnread
  <2>2. CASE LastRowAppears \/ Pull \/ ScrollAway \/ BackAtTop
    BY <1>2, <2>2 DEF LastRowAppears, Pull, ScrollAway, BackAtTop, loader
  <2>3. CASE RefreshFires \/ OwnCommentShown \/ CommentStored
    BY <1>2, <2>3 DEF RefreshFires, OwnCommentShown, CommentStored, loader
  <2> QED
    BY <1>6, <2>1, <2>2, <2>3 DEF Next
<1> QED
  BY <1>2, <1>6 DEF vars, loader

\* Whatever pages overlap, a comment that was read stays in tempComments until it
\* is in the list, and once no page is under way none is left there.
THEOREM GatheredIsShown == Spec => TempIsShown
<1>1. CommentsInv => TypeOK /\ (NonePending => temp = <<>>)
  BY DEF CommentsInv, Gathering, NonePending, Idle
<1>2. TypeOK /\ [Next]_vars => [ToSet(temp) \subseteq ToSet(temp') \cup ToSet(list')]_vars
  BY GatheredStays
<1> QED
  BY <1>1, <1>2, CommentsBegin, CommentsPreserved, PTL DEF Spec, TempIsShown

\* Whoever scrolls, refreshes and sends, the end is told only while the first
\* comment is in the list, or about to be, or banned.
THEOREM EndIsTrue == Spec => []EndIsSeen
<1>1. CommentsInv => EndIsSeen
  BY DEF CommentsInv
<1> QED
  BY <1>1, CommentsBegin, CommentsPreserved, PTL DEF Spec

-----------------------------------------------------------------------------
(* No gaps for a calm user.                                                *)

\* No comment is shown, gathered or asked for that is not stored.
Below ==
  /\ \A c \in ToSet(list) \cup ToSet(temp) : c <= count
  /\ \A p \in 1 .. MaxPages :
       /\ pages[p].stage = "asked" => pages[p].from <= count
       /\ pages[p].stage = "reading" => pages[p].next <= count

\* One refresh at a time is due.
Spinner ==
  /\ released => started
  /\ due > 0 => due = 1 /\ released

\* From `low` up to the newest of `shown` nothing is missing but what bans leave out.
Covers(shown, low) ==
  \A c \in 1 .. MaxComments :
    c \notin Banned /\ ~LeftOut(c) /\ low <= c /\ (\E d \in shown : c <= d) => c \in shown

OnePage == \A p, q \in 1 .. MaxPages : pages[p] # Idle /\ pages[q] # Idle => p = q

\* A page that is asked for begins where the list ends, or at the top.
AskedTrue(page) ==
  /\ ~noMore /\ temp = <<>>
  /\ page.from # NoId => Covers(ToSet(list), page.from - 1)

\* A page that reads has left nothing out so far, and between its first comment
\* and the newest it gathered all are banned.
ReadingTrue(page) ==
  /\ page.end <= page.next
  /\ noMore <=> page.next = 0
  /\ Covers(ToSet(list) \cup ToSet(temp), page.next + 1)
  /\ temp # <<>> => temp[1] > page.next
  /\ \E top \in Ids :
       /\ page.end = 0 \/ top >= page.end + NextPage
       /\ (IF temp = <<>> THEN page.next ELSE temp[1]) + 1 .. top \subseteq Banned

\* The list reaches one below its last row; a page that is banned whole adds no row
\* and leaves it so.
ListTrue == list # <<>> /\ Last(list) # NoId => Covers(ToSet(list), Last(list) - 1)

PagesTrue ==
  \A p \in 1 .. MaxPages :
    /\ pages[p].stage = "asked" => AskedTrue(pages[p])
    /\ pages[p].stage = "reading" => ReadingTrue(pages[p])

CalmInv ==
  calm => /\ OnePage
          /\ started => NonePending
          /\ released => atTop
          /\ PagesTrue
          /\ ListTrue
          /\ noMore /\ NonePending => Covers(ToSet(list), 1)

\* EndMeansEnd speaks of the end only.  What leads there is where each page
\* begins and how far it reaches: one comment below the row that asks for the
\* next one, which is the newest of the page and not its first if that is banned.
WholeInv == CommentsInv /\ Below /\ Spinner /\ CalmInv

-----------------------------------------------------------------------------
(* Sequences and what they cover.                                          *)

\* The elements of two sequences, one after the other.
LEMMA ConcatenationSet ==
  ASSUME NEW S, NEW s \in Seq(S), NEW t \in Seq(S)
  PROVE  ToSet(s \o t) = ToSet(s) \cup ToSet(t)
<1>1. DOMAIN (s \o t) = 1 .. Len(s) + Len(t) /\ DOMAIN s = 1 .. Len(s) /\ DOMAIN t = 1 .. Len(t)
  OBVIOUS
<1>2. \A i \in 1 .. Len(s) + Len(t) :
        \/ i \in 1 .. Len(s) /\ (s \o t)[i] = s[i]
        \/ i - Len(s) \in 1 .. Len(t) /\ (s \o t)[i] = t[i - Len(s)]
  OBVIOUS
<1>3. ToSet(s \o t) \subseteq ToSet(s) \cup ToSet(t)
  BY <1>1, <1>2 DEF ToSet
<1> QED
  BY <1>3, ConcatenationKeeps

\* The elements of a sequence and one more.
LEMMA AppendSet ==
  ASSUME NEW S, NEW s \in Seq(S), NEW e \in S
  PROVE  ToSet(Append(s, e)) = ToSet(s) \cup {e}
<1>1. DOMAIN Append(s, e) = 1 .. Len(s) + 1 /\ DOMAIN s = 1 .. Len(s)
  OBVIOUS
<1>2. \A i \in 1 .. Len(s) + 1 :
        \/ i \in 1 .. Len(s) /\ Append(s, e)[i] = s[i]
        \/ Append(s, e)[i] = e
  OBVIOUS
<1>3. ToSet(Append(s, e)) \subseteq ToSet(s) \cup {e}
  BY <1>1, <1>2 DEF ToSet
<1> QED
  BY <1>3, AppendKeeps

\* The last row after a page is the first comment that was gathered.
LEMMA LastOfPage ==
  ASSUME NEW S, NEW s \in Seq(S), NEW t \in Seq(S), t # <<>>
  PROVE  Last(s \o Reverse(t)) = t[1]
<1>1. Reverse(t) \in Seq(S) /\ Len(Reverse(t)) = Len(t) /\ Len(t) \in Nat \ {0}
  <2>1. Reverse(t) \in Seq(S) /\ DOMAIN Reverse(t) = 1 .. Len(t)
    BY ReverseKeeps DEF Reverse
  <2> QED
    BY <2>1
<1>2. Reverse(t)[Len(t)] = t[1]
  BY <1>1 DEF Reverse
<1>3. /\ Len(s \o Reverse(t)) = Len(s) + Len(t)
      /\ (s \o Reverse(t))[Len(s) + Len(t)] = Reverse(t)[Len(t)]
  BY <1>1
<1> QED
  BY <1>2, <1>3 DEF Last

\* A list that covers more covers less, and from the first comment all.
LEMMA CoversLess ==
  ASSUME NEW S, NEW low \in Int, NEW high \in Int, low <= high \/ low <= 1, Covers(S, low)
  PROVE  Covers(S, high)
<1>1. \A c \in 1 .. MaxComments : high <= c => low <= c
  BY Numbers
<1> QED
  BY <1>1 DEF Covers

\* A row without a number adds nothing.
LEMMA CoversNoId ==
  ASSUME NEW S, NEW low, Covers(S, low)
  PROVE  Covers(S \cup {NoId}, low)
<1>1. \A c \in 1 .. MaxComments : ~(c <= NoId)
  BY Numbers DEF NoId
<1> QED
  BY <1>1 DEF Covers

\* Above the newest comment there is nothing to cover.
LEMMA CoversAbove ==
  ASSUME NEW S \in SUBSET Ids, NEW n \in Ids, \A d \in S : d <= n, NEW low \in Int, low > n
  PROVE  Covers(S, low)
<1>1. \A c \in 1 .. MaxComments, d \in S : low <= c => ~(c <= d)
  BY Numbers DEF Ids
<1> QED
  BY <1>1 DEF Covers

\* A comment that is read, or banned, is covered.
LEMMA CoversNext ==
  ASSUME NEW S \in SUBSET Ids, NEW c \in 1 .. MaxComments, Covers(S, c + 1)
  PROVE  /\ Covers(S \cup {c}, c)
         /\ c \in Banned => Covers(S, c)
<1> USE Numbers DEF Ids
<1>1. ASSUME NEW T, S \subseteq T, T \subseteq S \cup {c}, c \in T \/ c \in Banned
      PROVE  Covers(T, c)
  <2> SUFFICES ASSUME NEW b \in 1 .. MaxComments, b \notin Banned, ~LeftOut(b), c <= b,
                      NEW d \in T, b <= d
               PROVE  b \in T
    BY DEF Covers
  <2>1. CASE b = c
    BY <1>1, <2>1
  <2>2. CASE b # c
    <3>1. d # c /\ c + 1 <= b
      BY <2>2
    <3>2. d \in S
      BY <1>1, <3>1
    <3>3. b \in S
      BY <3>1, <3>2 DEF Covers
    <3> QED
      BY <1>1, <3>3
  <2> QED
    BY <2>1, <2>2
<1> QED
  BY <1>1

\* What bans leave out need not be covered.
LEMMA CoversLeftOut ==
  ASSUME NEW S, NEW low \in Ids, LeftOut(low), Covers(S, low + 1)
  PROVE  Covers(S, low)
<1>1. \A c \in 1 .. MaxComments : low <= c => c = low \/ low + 1 <= c
  BY Numbers DEF Ids
<1> QED
  BY <1>1 DEF Covers

\* A page that is not the last shows a row above its own last comment, or leaves
\* the one below out because all but its last are banned.
LEMMA PageReachesBelow ==
  ASSUME NEW newest \in Ids, NEW end \in Ids, NEW top \in Ids, newest > end,
         end = 0 \/ top >= end + NextPage, newest + 1 .. top \subseteq Banned
  PROVE  end = 0 \/ newest >= end + 2 \/ (newest = end + 1 /\ LeftOut(end))
<1> USE CommentsAssumption DEF Ids
<1> SUFFICES ASSUME end # 0, newest < end + 2 PROVE newest = end + 1 /\ LeftOut(end)
  OBVIOUS
<1>1. newest = end + 1
  OBVIOUS
<1>2. end + 2 .. end + NextPage \subseteq newest + 1 .. top
  BY <1>1
<1> QED
  BY <1>1, <1>2 DEF LeftOut

\* The elements of the list and of what is gathered.
LEMMA SeenType ==
  ASSUME TypeOK
  PROVE  /\ ToSet(list) \subseteq Ids /\ ToSet(temp) \subseteq Ids
         /\ temp # <<>> => temp[1] \in ToSet(temp)
         /\ list # <<>> => Last(list) \in ToSet(list)
<1>1. list \in Seq(Ids) /\ temp \in Seq(Ids)
  BY DEF TypeOK
<1>2. \A s \in Seq(Ids) : DOMAIN s = 1 .. Len(s) /\ \A i \in 1 .. Len(s) : s[i] \in Ids
  OBVIOUS
<1>3. \A s \in Seq(Ids) : ToSet(s) \subseteq Ids
  BY <1>2 DEF ToSet
<1>4. temp # <<>> => 1 \in 1 .. Len(temp)
  BY <1>1
<1>5. list # <<>> => Len(list) \in 1 .. Len(list)
  BY <1>1
<1> QED
  BY <1>1, <1>2, <1>3, <1>4, <1>5 DEF ToSet, Last

-----------------------------------------------------------------------------
(* One page at a time.                                                     *)

\* A page becomes another, or none.
Becomes(p, page) == pages' = [pages EXCEPT ![p] = page]

\* When one page is under way, a step of it leaves one or none.
LEMMA PageAlone ==
  ASSUME TypeOK, OnePage, NEW p \in 1 .. MaxPages, pages[p] # Idle, NEW page, Becomes(p, page)
  PROVE  /\ OnePage'
         /\ pages'[p] = page
         /\ \A q \in 1 .. MaxPages : q # p => pages'[q] = Idle
         /\ NonePending' <=> page = Idle
<1>1. \A q \in 1 .. MaxPages : pages'[q] = IF q = p THEN page ELSE pages[q]
  BY DEF TypeOK, Becomes
<1>2. \A q \in 1 .. MaxPages : q # p => pages[q] = Idle
  BY DEF OnePage
<1> QED
  BY <1>1, <1>2 DEF OnePage, NonePending

\* When none is under way, a page that is asked for is the only one.
LEMMA AskedAlone ==
  ASSUME TypeOK, NonePending, NEW size \in 0 .. FirstPage, NEW from \in Ids,
         LoadMore(size, from)
  PROVE  /\ OnePage' /\ ~NonePending'
         /\ \A q \in 1 .. MaxPages :
              pages'[q] \in {Idle, [stage |-> "asked", size |-> size, from |-> from]}
<1>1. PICK p \in 1 .. MaxPages :
        /\ pages[p] = Idle
        /\ pages' = [pages EXCEPT ![p] = [stage |-> "asked", size |-> size, from |-> from]]
  BY PageAsked
<1>2. \A q \in 1 .. MaxPages :
        pages'[q] = IF q = p THEN [stage |-> "asked", size |-> size, from |-> from] ELSE Idle
  BY <1>1 DEF TypeOK, NonePending
<1>3. [stage |-> "asked", size |-> size, from |-> from].stage # Idle.stage
  BY DEF Idle
<1> QED
  BY <1>2, <1>3 DEF OnePage, NonePending

\* A page that is asked for begins at a comment that is stored.
LEMMA AskedBelow ==
  ASSUME TypeOK, Below, NEW size \in 0 .. FirstPage, NEW from \in Ids, from <= count,
         LoadMore(size, from), ToSet(list') \subseteq ToSet(list), UNCHANGED <<count, temp>>
  PROVE  Below'
<1>1. PICK p \in 1 .. MaxPages :
        /\ pages[p] = Idle
        /\ pages' = [pages EXCEPT ![p] = [stage |-> "asked", size |-> size, from |-> from]]
  BY PageAsked
<1>2. \A q \in 1 .. MaxPages :
        pages'[q] = IF q = p THEN [stage |-> "asked", size |-> size, from |-> from] ELSE pages[q]
  BY <1>1 DEF TypeOK
<1> QED
  BY <1>2 DEF Below

\* A calm user's page has nothing due and no other page beside it.
LEMMA CalmPage ==
  ASSUME WholeInv, calm, NEW p \in 1 .. MaxPages, pages[p].stage \in {"asked", "reading"}
  PROVE  /\ TypeOK /\ OnePage /\ pages[p] # Idle
         /\ ~started /\ ~released
         /\ pages[p].stage = "asked" => AskedTrue(pages[p])
         /\ pages[p].stage = "reading" => ReadingTrue(pages[p])
<1>1. pages[p] # Idle
  BY DEF Idle
<1>2. ~NonePending
  BY <1>1 DEF NonePending
<1> QED
  BY <1>1, <1>2 DEF WholeInv, CommentsInv, CalmInv, Spinner, PagesTrue

-----------------------------------------------------------------------------
(* Each step keeps it.                                                     *)

\* A page begins one comment below what the list covers, or at the top.
LEMMA PageBeginsWhole ==
  ASSUME WholeInv, TypeOK', NEW p \in 1 .. MaxPages, PageBegins(p)
  PROVE  Below' /\ Spinner' /\ CalmInv'
<1> DEFINE from == pages[p].from
           size == pages[p].size
           top  == Top(from)
           end  == IF top - size > 0 THEN top - size ELSE 0
           page == [stage |-> "reading", next |-> top, end |-> end]
           next == IF top > 0 THEN page ELSE Idle
<1>1. /\ TypeOK /\ Below /\ Spinner /\ CalmInv
      /\ pages[p].stage = "asked"
      /\ UNCHANGED <<count, list, temp, noMore, atTop, refresh, acts>>
  BY DEF WholeInv, CommentsInv, PageBegins
<1>2. pages[p] \in [stage : {"asked"}, size : 0 .. FirstPage, from : Ids]
  BY <1>1 DEF TypeOK, Page, Idle
<1>3. size \in 0 .. FirstPage /\ from \in Ids /\ from <= count /\ count \in Ids
  BY <1>1, <1>2 DEF Below, TypeOK
<1>4. top \in Int /\ top <= count /\ (from # NoId => top = from - 2) /\ (from = NoId => top = count)
  BY <1>3, Numbers DEF Top, Ids, NoId
<1>5. Becomes(p, next)
  BY DEF PageBegins, Becomes
<1>6. calm' = (calm /\ (size < NextPage => top - size <= 0))
  BY DEF PageBegins
<1>7. page.stage = "reading" /\ page.next = top /\ page.end = end
  OBVIOUS
<1> HIDE DEF page, top
<1>8. Below'
  <2>1. \A q \in 1 .. MaxPages : pages'[q] = IF q = p THEN next ELSE pages[q]
    BY <1>1, <1>5 DEF TypeOK, Becomes
  <2>2. next.stage # "asked" /\ (next.stage = "reading" => next.next <= count)
    BY <1>4, <1>7 DEF Idle
  <2> QED
    BY <1>1, <2>1, <2>2 DEF Below
<1>9. Spinner'
  BY <1>1 DEF Spinner, refresh
<1>10. ASSUME calm'
       PROVE  /\ OnePage' /\ ~started' /\ ~released' /\ PagesTrue' /\ ListTrue'
              /\ noMore' /\ NonePending' => Covers(ToSet(list'), 1)
  <2>1. calm /\ (size < NextPage => top - size <= 0)
    BY <1>6, <1>10
  <2>2. OnePage /\ pages[p] # Idle /\ ~started /\ ~released /\ AskedTrue(pages[p])
    BY <1>1, <2>1, CalmPage
  <2>3. /\ OnePage' /\ pages'[p] = next
        /\ \A q \in 1 .. MaxPages : q # p => pages'[q] = Idle
        /\ NonePending' <=> next = Idle
    BY <1>1, <1>5, <2>2, PageAlone
  <2>4. /\ ~noMore /\ temp = <<>> /\ (from # NoId => Covers(ToSet(list), from - 1))
    BY <2>2 DEF AskedTrue
  <2>5. ToSet(list) \subseteq Ids /\ \A d \in ToSet(list) : d <= count
    BY <1>1, SeenType DEF Below
  <2>6. Covers(ToSet(list), top + 1)
    <3>1. CASE from = NoId
      BY <1>3, <1>4, <2>5, <3>1, CoversAbove DEF Ids
    <3>2. CASE from # NoId
      <4>1. top + 1 = from - 1
        BY <1>3, <1>4, <3>2 DEF Ids
      <4> QED
        BY <2>4, <3>2, <4>1
    <3> QED
      BY <3>1, <3>2
  <2>7. ListTrue'
    BY <1>1, <2>1 DEF CalmInv, ListTrue
  <2>8. CASE top > 0
    <3>1. pages'[p] = page /\ page # Idle
      BY <1>7, <2>3, <2>8 DEF Idle
    <3>2. top \in Ids /\ (end = 0 \/ top >= end + NextPage) /\ end <= top
      BY <1>3, <1>4, <2>1, <2>8, CommentsAssumption DEF Ids
    <3>3. top + 1 .. top \subseteq Banned
      BY <1>4
    <3>4. ToSet(temp) = {}
      BY <2>4 DEF ToSet
    <3>5. ReadingTrue(pages[p])'
      <4>1. \E t \in Ids : /\ end = 0 \/ t >= end + NextPage
                           /\ top + 1 .. t \subseteq Banned
        BY <3>2, <3>3
      <4>2. top # 0
        BY <1>4, <2>8
      <4>3. ~noMore' /\ temp' = <<>>
        BY <1>1, <2>4
      <4>4. ToSet(list') \cup ToSet(temp') = ToSet(list)
        BY <1>1, <3>4
      <4>5. pages'[p].next = top /\ pages'[p].end = end
        BY <1>7, <3>1
      <4>6. Covers(ToSet(list') \cup ToSet(temp'), pages'[p].next + 1)
        BY <2>6, <4>4, <4>5
      <4> HIDE DEF end
      <4> QED
        BY <3>2, <4>1, <4>2, <4>3, <4>5, <4>6 DEF ReadingTrue
    <3>6. PagesTrue'
      <4>1. pages'[p].stage = "reading"
        BY <1>7, <3>1
      <4> QED
        BY <2>3, <3>5, <4>1 DEF PagesTrue, Idle
    <3> QED
      BY <1>1, <2>2, <2>3, <2>7, <3>1, <3>6 DEF refresh
  <2>9. CASE ~(top > 0)
    <3>1. pages'[p] = Idle
      BY <2>3, <2>9
    <3>2. PagesTrue'
      BY <2>3, <3>1 DEF PagesTrue, Idle
    <3> QED
      BY <1>1, <2>2, <2>3, <2>4, <2>7, <3>2 DEF refresh
  <2> QED
    BY <2>8, <2>9
<1> QED
  BY <1>8, <1>9, <1>10 DEF CalmInv

\* A comment is gathered, or is banned: nothing is left out.
LEMMA CommentReadWhole ==
  ASSUME WholeInv, TypeOK', NEW p \in 1 .. MaxPages, CommentRead(p)
  PROVE  Below' /\ Spinner' /\ CalmInv'
<1> DEFINE c    == pages[p].next
           end  == pages[p].end
           page == [pages[p] EXCEPT !.next = @ - 1]
<1>1. /\ TypeOK /\ Below /\ Spinner /\ CalmInv
      /\ pages[p].stage = "reading" /\ c > end
      /\ temp' = (IF c \in Banned THEN temp ELSE Append(temp, c))
      /\ noMore' = (noMore \/ c = 1)
      /\ UNCHANGED <<count, list, atTop, refresh, calm, acts>>
  BY DEF WholeInv, CommentsInv, CommentRead, Reads
<1>2. pages[p] \in [stage : {"reading"}, next : Ids, end : Ids]
  BY <1>1 DEF TypeOK, Page, Idle
<1>3. c \in Ids /\ end \in Ids /\ c <= count /\ c \in 1 .. MaxComments
  BY <1>1, <1>2, Numbers DEF Below, Ids
<1>4. page.stage = "reading" /\ page.next = c - 1 /\ page.end = end
  BY <1>2
<1>5. Becomes(p, page)
  BY DEF CommentRead, Becomes
<1> HIDE DEF page, c, end
<1>6. temp \in Seq(Ids)
  BY <1>1 DEF TypeOK
<1>7. ToSet(Append(temp, c)) = ToSet(temp) \cup {c}
  BY <1>3, <1>6, AppendSet
<1>8. /\ c \in Banned => ToSet(temp') = ToSet(temp)
      /\ c \notin Banned => ToSet(temp') = ToSet(temp) \cup {c}
  BY <1>1, <1>7
<1>9. Below'
  <2>1. \A q \in 1 .. MaxPages : pages'[q] = IF q = p THEN page ELSE pages[q]
    BY <1>1, <1>5 DEF TypeOK, Becomes
  <2>2. page.stage # "asked" /\ page.next <= count
    BY <1>1, <1>3, <1>4 DEF TypeOK, Ids
  <2>3. \A d \in ToSet(list') \cup ToSet(temp') : d <= count
    BY <1>1, <1>3, <1>8 DEF Below
  <2> QED
    BY <1>1, <2>1, <2>2, <2>3 DEF Below
<1>10. Spinner'
  BY <1>1 DEF Spinner, refresh
<1>11. ASSUME calm
       PROVE  OnePage' /\ ~started' /\ ~released' /\ PagesTrue' /\ ListTrue' /\ ~NonePending'
  <2>1. OnePage /\ pages[p] # Idle /\ ~started /\ ~released /\ ReadingTrue(pages[p])
    BY <1>1, <1>11, CalmPage
  <2>2. page # Idle
    BY <1>4 DEF Idle
  <2>3. /\ OnePage' /\ pages'[p] = page /\ ~NonePending'
        /\ \A q \in 1 .. MaxPages : q # p => pages'[q] = Idle
    BY <1>1, <1>5, <2>1, <2>2, PageAlone
  <2>4. /\ noMore <=> c = 0
        /\ temp # <<>> => temp[1] > c
        /\ Covers(ToSet(list) \cup ToSet(temp), c + 1)
    BY <2>1 DEF ReadingTrue, c
  <2>5. PICK top \in Ids : /\ end = 0 \/ top >= end + NextPage
                           /\ (IF temp = <<>> THEN c ELSE temp[1]) + 1 .. top \subseteq Banned
    BY <2>1 DEF ReadingTrue, c, end
  <2>6. end <= c - 1 /\ (noMore' <=> c - 1 = 0)
    <3>1. end <= c - 1 /\ c # 0 /\ (c = 1 <=> c - 1 = 0)
      BY <1>1, <1>3 DEF Ids
    <3>2. noMore' <=> c = 1
      BY <1>1, <2>4, <3>1
    <3> QED
      BY <3>1, <3>2
  <2>7. Covers(ToSet(list) \cup ToSet(temp'), c)
    <3>1. ToSet(list) \cup ToSet(temp) \subseteq Ids
      BY <1>1, SeenType
    <3>2. /\ Covers((ToSet(list) \cup ToSet(temp)) \cup {c}, c)
          /\ c \in Banned => Covers(ToSet(list) \cup ToSet(temp), c)
      BY <1>3, <2>4, <3>1, CoversNext
    <3>3. (ToSet(list) \cup ToSet(temp)) \cup {c} = ToSet(list) \cup (ToSet(temp) \cup {c})
      OBVIOUS
    <3> QED
      BY <1>8, <3>2, <3>3
  <2>8. (IF temp' = <<>> THEN c - 1 ELSE temp'[1]) + 1 .. top \subseteq Banned
    <3>1. CASE c \in Banned
      <4>1. temp' = temp /\ (c - 1) + 1 = c
        BY <1>1, <1>3, <3>1 DEF Ids
      <4>2. \A i \in c .. top : i = c \/ i \in c + 1 .. top
        BY <1>3 DEF Ids
      <4> QED
        BY <2>5, <3>1, <4>1, <4>2
    <3>2. CASE c \notin Banned
      <4>1. temp' = Append(temp, c)
        BY <1>1, <3>2
      <4>2. temp' # <<>> /\ temp'[1] = IF temp = <<>> THEN c ELSE temp[1]
        BY <1>6, <1>3, <4>1
      <4> QED
        BY <2>5, <4>2
    <3> QED
      BY <3>1, <3>2
  <2>9. (c - 1) + 1 = c
    BY <1>3 DEF Ids
  <2>10. temp' # <<>> => temp'[1] > c - 1
    <3>1. CASE temp' = temp
      <4>1. temp # <<>> => temp[1] \in Ids
        BY <1>1, SeenType
      <4> QED
        BY <1>3, <2>4, <3>1, <4>1 DEF Ids
    <3>2. CASE temp' = Append(temp, c)
      <4>1. temp # <<>> => temp[1] \in Ids
        BY <1>1, SeenType
      <4>2. temp'[1] = IF temp = <<>> THEN c ELSE temp[1]
        BY <1>3, <1>6, <3>2
      <4> QED
        BY <1>3, <2>4, <4>1, <4>2 DEF Ids
    <3> QED
      BY <1>1, <3>1, <3>2
  <2>11. ReadingTrue(pages[p])'
    <3>1. \E t \in Ids : /\ end = 0 \/ t >= end + NextPage
                         /\ (IF temp' = <<>> THEN c - 1 ELSE temp'[1]) + 1 .. t \subseteq Banned
      BY <2>5, <2>8
    <3>2. pages'[p].next = c - 1 /\ pages'[p].end = end
      BY <1>4, <2>3
    <3>3. Covers(ToSet(list') \cup ToSet(temp'), pages'[p].next + 1)
      BY <1>1, <2>7, <2>9, <3>2
    <3> QED
      BY <2>6, <2>10, <3>1, <3>2, <3>3 DEF ReadingTrue
  <2>12. PagesTrue'
    BY <1>4, <2>3, <2>11 DEF PagesTrue, Idle
  <2>13. ListTrue'
    BY <1>1, <1>11 DEF CalmInv, ListTrue
  <2> QED
    BY <1>1, <2>1, <2>3, <2>12, <2>13 DEF refresh
<1> QED
  BY <1>1, <1>9, <1>10, <1>11 DEF CalmInv

\* A page that ends leaves a list that reaches one below its last row, or the first
\* comment.
LEMMA PageShownWhole ==
  ASSUME WholeInv, TypeOK', NEW p \in 1 .. MaxPages, PageShown(p)
  PROVE  Below' /\ Spinner' /\ CalmInv'
<1>1. /\ TypeOK /\ Below /\ Spinner /\ CalmInv
      /\ pages[p].stage = "reading" /\ ~(pages[p].next > pages[p].end)
      /\ list' = list \o Reverse(temp) /\ temp' = <<>>
      /\ UNCHANGED <<count, noMore, atTop, refresh, calm, acts>>
  BY DEF WholeInv, CommentsInv, PageShown, Reads
<1>2. pages[p] \in [stage : {"reading"}, next : Ids, end : Ids]
  BY <1>1 DEF TypeOK, Page, Idle
<1>3. Becomes(p, Idle)
  BY DEF PageShown, Becomes
<1>4. list \in Seq(Ids) /\ temp \in Seq(Ids)
  BY <1>1 DEF TypeOK
<1>5. ToSet(list') = ToSet(list) \cup ToSet(temp)
  BY <1>1, <1>4, ReverseKeeps, ConcatenationSet
<1>6. ToSet(temp') = {}
  BY <1>1 DEF ToSet
<1>7. Below'
  <2>1. \A q \in 1 .. MaxPages : pages'[q] = IF q = p THEN Idle ELSE pages[q]
    BY <1>1, <1>3 DEF TypeOK, Becomes
  <2>2. Idle.stage = "idle"
    BY DEF Idle
  <2> QED
    BY <1>1, <1>5, <1>6, <2>1, <2>2 DEF Below
<1>8. Spinner'
  BY <1>1 DEF Spinner, refresh
<1>9. ASSUME calm
      PROVE  /\ OnePage' /\ ~started' /\ ~released' /\ PagesTrue' /\ ListTrue'
             /\ noMore' => Covers(ToSet(list'), 1)
  <2>1. OnePage /\ pages[p] # Idle /\ ~started /\ ~released /\ ReadingTrue(pages[p])
    BY <1>1, <1>9, CalmPage
  <2>2. OnePage' /\ \A q \in 1 .. MaxPages : pages'[q] = Idle
    BY <1>1, <1>3, <2>1, PageAlone
  <2>3. PagesTrue'
    BY <2>2 DEF PagesTrue, Idle
  <2> DEFINE end == pages[p].end
  <2>4. /\ pages[p].next = end
        /\ noMore <=> end = 0
        /\ temp # <<>> => temp[1] > end
        /\ Covers(ToSet(list'), end + 1)
    BY <1>1, <1>2, <1>5, <2>1 DEF ReadingTrue, Ids
  <2>5. PICK top \in Ids : /\ end = 0 \/ top >= end + NextPage
                           /\ (IF temp = <<>> THEN end ELSE temp[1]) + 1 .. top \subseteq Banned
    BY <2>1, <2>4 DEF ReadingTrue
  <2> HIDE DEF end
  <2>6. end \in Ids
    BY <1>2 DEF end
  <2>7. noMore' => Covers(ToSet(list'), 1)
    <3>1. noMore' => end + 1 = 1
      BY <1>1, <2>4
    <3> QED
      BY <2>4, <3>1
  <2>8. CASE temp = <<>>
    <3>1. Reverse(temp) = <<>>
      <4>1. Reverse(temp) \in Seq(Ids) /\ DOMAIN Reverse(temp) = 1 .. Len(temp)
        BY <1>4, ReverseKeeps DEF Reverse
      <4> QED
        BY <2>8, <4>1
    <3>2. list' = list
      BY <1>1, <1>4, <3>1
    <3>3. ListTrue'
      BY <1>1, <1>9, <3>2 DEF CalmInv, ListTrue
    <3> QED
      BY <1>1, <2>1, <2>2, <2>3, <2>7, <3>3 DEF refresh
  <2>9. CASE temp # <<>>
    <3>1. temp[1] \in Ids
      BY <1>1, <2>9, SeenType
    <3>2. Last(list') = temp[1]
      BY <1>1, <1>4, <2>9, LastOfPage
    <3>3. end = 0 \/ temp[1] >= end + 2 \/ (temp[1] = end + 1 /\ LeftOut(end))
      BY <2>4, <2>5, <2>6, <2>9, <3>1, PageReachesBelow
    <3>4. CASE end = 0 \/ temp[1] >= end + 2
      <4>1. end + 1 <= temp[1] - 1 \/ end + 1 <= 1
        BY <2>6, <3>1, <3>4 DEF Ids
      <4>2. end + 1 \in Int /\ temp[1] - 1 \in Int
        BY <2>6, <3>1 DEF Ids
      <4> QED
        BY <1>1, <2>1, <2>2, <2>3, <2>4, <2>7, <3>2, <4>1, <4>2, CoversLess DEF refresh, ListTrue
    <3>5. CASE temp[1] = end + 1 /\ LeftOut(end)
      <4>1. Covers(ToSet(list'), end)
        BY <2>4, <2>6, <3>5, CoversLeftOut
      <4>2. temp[1] - 1 = end
        BY <2>6, <3>5 DEF Ids
      <4> QED
        BY <1>1, <2>1, <2>2, <2>3, <2>7, <3>2, <4>1, <4>2 DEF refresh, ListTrue
    <3> QED
      BY <3>3, <3>4, <3>5
  <2> QED
    BY <2>8, <2>9
<1> QED
  BY <1>1, <1>7, <1>8, <1>9 DEF CalmInv

\* A read that fails ends the user's calm.
LEMMA UnreadWhole ==
  ASSUME WholeInv, TypeOK', NEW p \in 1 .. MaxPages, PostUnread(p) \/ CommentUnread(p)
  PROVE  Below' /\ Spinner' /\ CalmInv'
<1>1. TypeOK /\ Below /\ Spinner
  BY DEF WholeInv, CommentsInv
<1>2. ~calm' /\ UNCHANGED <<count, list, atTop, refresh>>
  BY DEF PostUnread, CommentUnread
<1>3. CASE PostUnread(p)
  <2>1. \A q \in 1 .. MaxPages : pages'[q] = IF q = p THEN Idle ELSE pages[q]
    BY <1>1, <1>3 DEF TypeOK, PostUnread
  <2>2. Idle.stage = "idle"
    BY DEF Idle
  <2>3. UNCHANGED temp
    BY <1>3 DEF PostUnread
  <2>4. Below'
    BY <1>1, <1>2, <2>1, <2>2, <2>3 DEF Below
  <2> QED
    BY <1>1, <1>2, <2>4 DEF Spinner, CalmInv, refresh
<1>4. CASE CommentUnread(p)
  <2>1. pages[p] \in [stage : {"reading"}, next : Ids, end : Ids]
    BY <1>1, <1>4 DEF CommentUnread, Reads, TypeOK, Page, Idle
  <2>2. \A q \in 1 .. MaxPages :
          pages'[q] = IF q = p THEN [pages[p] EXCEPT !.next = @ - 1] ELSE pages[q]
    BY <1>1, <1>4 DEF TypeOK, CommentUnread
  <2>3. pages'[p].stage = "reading" /\ pages'[p].next = pages[p].next - 1
    BY <2>1, <2>2
  <2>4. count \in Ids /\ pages[p].next \in Ids /\ pages[p].next <= count
    BY <1>1, <2>1 DEF Below, TypeOK
  <2>5. ToSet(temp') = ToSet(temp) \cup {NoId} /\ NoId <= count
    <3>1. temp \in Seq(Ids) /\ NoId \in Ids
      BY <1>1, Numbers DEF TypeOK
    <3>2. temp' = Append(temp, NoId)
      BY <1>4 DEF CommentUnread
    <3>3. NoId <= count
      BY <2>4 DEF Ids, NoId
    <3> QED
      BY <3>1, <3>2, <3>3, AppendSet
  <2>6. pages'[p].next <= count
    BY <2>3, <2>4 DEF Ids
  <2>7. Below'
    BY <1>1, <1>2, <2>2, <2>3, <2>5, <2>6 DEF Below
  <2> QED
    BY <1>1, <1>2, <2>7 DEF Spinner, CalmInv, refresh
<1> QED
  BY <1>3, <1>4

\* The last row asks for what comes next, of a calm user with no page under way.
LEMMA LastRowWhole ==
  ASSUME WholeInv, TypeOK', LastRowAppears
  PROVE  Below' /\ Spinner' /\ CalmInv'
<1>1. /\ TypeOK /\ Gathering /\ Below /\ Spinner /\ CalmInv
      /\ list # <<>> /\ ~noMore /\ LoadMore(NextPage, Last(list))
      /\ calm' = (calm /\ NonePending /\ ~started)
      /\ UNCHANGED <<count, list, temp, noMore, atTop, refresh, acts>>
  BY DEF WholeInv, CommentsInv, LastRowAppears
<1>2. Last(list) \in Ids /\ Last(list) <= count
  BY <1>1, SeenType DEF Below
<1>3. Below'
  BY <1>1, <1>2, Numbers, AskedBelow
<1>4. Spinner'
  BY <1>1 DEF Spinner, refresh
<1>5. ASSUME calm'
      PROVE  OnePage' /\ ~started' /\ ~released' /\ PagesTrue' /\ ListTrue' /\ ~NonePending'
  <2>1. calm /\ NonePending /\ ~started /\ ~released
    BY <1>1, <1>5 DEF Spinner
  <2>2. /\ OnePage' /\ ~NonePending'
        /\ \A q \in 1 .. MaxPages :
             pages'[q] \in {Idle, [stage |-> "asked", size |-> NextPage, from |-> Last(list)]}
    BY <1>1, <1>2, <2>1, Numbers, AskedAlone
  <2>3. temp = <<>>
    BY <1>1, <2>1 DEF Gathering, NonePending, Idle
  <2>4. Last(list) # NoId => Covers(ToSet(list), Last(list) - 1)
    BY <1>1, <2>1 DEF CalmInv, ListTrue
  <2>5. \A q \in 1 .. MaxPages :
          /\ pages'[q].stage # "reading"
          /\ pages'[q].stage = "asked" => pages'[q].from = Last(list)
    BY <2>2 DEF Idle
  <2>6. PagesTrue'
    BY <1>1, <2>3, <2>4, <2>5 DEF PagesTrue, AskedTrue
  <2>7. ListTrue'
    BY <1>1, <2>1 DEF CalmInv, ListTrue
  <2> QED
    BY <1>1, <2>1, <2>2, <2>6, <2>7 DEF refresh
<1> QED
  BY <1>3, <1>4, <1>5 DEF CalmInv

\* The list is pulled, scrolled or let go, before a refresh of a calm user is due.
LEMMA GesturesWhole ==
  ASSUME WholeInv, TypeOK', Pull \/ ScrollAway \/ BackAtTop
  PROVE  Below' /\ Spinner' /\ CalmInv'
<1>1. TypeOK /\ Below /\ Spinner /\ CalmInv
  BY DEF WholeInv, CommentsInv
<1>2. UNCHANGED <<count, list, temp, noMore, pages>>
  BY DEF Pull, ScrollAway, BackAtTop, loader
<1>3. Below'
  BY <1>1, <1>2 DEF Below
<1>4. due \in Nat
  BY <1>1 DEF TypeOK
<1>5. Spinner'
  BY <1>1, <1>4, Booleans DEF Spinner, Pull, ScrollAway, BackAtTop, refresh
<1>6. calm' => /\ calm
               /\ started' => NonePending
               /\ released' => atTop'
  BY <1>1 DEF CalmInv, Spinner, Pull, ScrollAway, BackAtTop, refresh
<1>7. /\ OnePage' <=> OnePage
      /\ NonePending' <=> NonePending
      /\ PagesTrue' <=> PagesTrue
      /\ ListTrue' <=> ListTrue
  BY <1>2 DEF OnePage, NonePending, PagesTrue, ListTrue, AskedTrue, ReadingTrue
<1> QED
  BY <1>1, <1>2, <1>3, <1>5, <1>6, <1>7 DEF CalmInv

\* A refresh of a calm user begins the list anew.
LEMMA RefreshWhole ==
  ASSUME WholeInv, TypeOK', RefreshFires
  PROVE  Below' /\ Spinner' /\ CalmInv'
<1>1. /\ TypeOK /\ Gathering /\ Below /\ Spinner /\ CalmInv
      /\ due > 0 /\ due' = due - 1 /\ noMore' = FALSE
      /\ LoadMore(NextPage, NoId)
      /\ UNCHANGED <<count, temp, atTop, calm, acts>>
  BY DEF WholeInv, CommentsInv, RefreshFires
<1>2. due = 1 /\ released /\ started
  BY <1>1 DEF Spinner
<1>3. Spinner'
  <2>1. due' = 0
    BY <1>1, <1>2
  <2>2. released' => started'
    BY <1>2 DEF RefreshFires
  <2> QED
    BY <2>1, <2>2 DEF Spinner
<1>4. list' = <<>> \/ list' = list
  BY DEF RefreshFires
<1>5. NoId <= count
  BY <1>1 DEF TypeOK, Ids, NoId
<1>6. ToSet(list') \subseteq ToSet(list)
  <2>1. ToSet(<<>>) = {}
    BY DEF ToSet
  <2> QED
    BY <1>4, <2>1
<1>7. Below'
  BY <1>1, <1>5, <1>6, Numbers, AskedBelow
<1>8. ASSUME calm
      PROVE  OnePage' /\ ~started' /\ ~released' /\ PagesTrue' /\ ListTrue' /\ ~NonePending'
  <2>1. NonePending /\ atTop
    BY <1>1, <1>2, <1>8 DEF CalmInv
  <2>2. ~started' /\ ~released'
    BY <2>1 DEF RefreshFires
  <2>3. /\ OnePage' /\ ~NonePending'
        /\ \A q \in 1 .. MaxPages :
             pages'[q] \in {Idle, [stage |-> "asked", size |-> NextPage, from |-> NoId]}
    BY <1>1, <2>1, Numbers, AskedAlone
  <2>4. temp = <<>>
    BY <1>1, <2>1 DEF Gathering, NonePending, Idle
  <2>5. \A q \in 1 .. MaxPages :
          /\ pages'[q].stage # "reading"
          /\ pages'[q].stage = "asked" => pages'[q].from = NoId
    BY <2>3 DEF Idle
  <2>6. PagesTrue'
    BY <1>1, <2>4, <2>5 DEF PagesTrue, AskedTrue
  <2>7. ListTrue'
    BY <1>1, <1>4, <1>8 DEF CalmInv, ListTrue
  <2> QED
    BY <2>2, <2>3, <2>6, <2>7
<1> QED
  BY <1>1, <1>3, <1>7, <1>8 DEF CalmInv

\* The user's own row stands at the end of the list and covers nothing.
LEMMA OwnCommentWhole ==
  ASSUME WholeInv, TypeOK', OwnCommentShown
  PROVE  Below' /\ Spinner' /\ CalmInv'
<1>1. /\ TypeOK /\ Below /\ Spinner /\ CalmInv
      /\ list' = Append(list, NoId)
      /\ UNCHANGED <<count, temp, noMore, pages, atTop, refresh, calm>>
  BY DEF WholeInv, CommentsInv, OwnCommentShown
<1>2. list \in Seq(Ids) /\ NoId \in Ids /\ NoId <= count
  BY <1>1, Numbers DEF TypeOK, Ids, NoId
<1>3. ToSet(list') = ToSet(list) \cup {NoId}
  BY <1>1, <1>2, AppendSet
<1>4. Last(list') = NoId
  BY <1>1, <1>2 DEF Last
<1>5. Below' /\ Spinner'
  BY <1>1, <1>2, <1>3 DEF Below, Spinner, refresh
<1>6. OnePage' = OnePage /\ NonePending' = NonePending
  BY <1>1 DEF OnePage, NonePending
<1>7. \A low : Covers(ToSet(list), low) => Covers(ToSet(list'), low)
  BY <1>3, CoversNoId
<1>8. \A low : Covers(ToSet(list) \cup ToSet(temp), low)
                 => Covers(ToSet(list') \cup ToSet(temp), low)
  <2>1. ToSet(list') \cup ToSet(temp) = (ToSet(list) \cup ToSet(temp)) \cup {NoId}
    BY <1>3
  <2> QED
    BY <2>1, CoversNoId
<1>9. PagesTrue => PagesTrue'
  BY <1>1, <1>7, <1>8 DEF PagesTrue, AskedTrue, ReadingTrue
<1>10. ListTrue'
  BY <1>4 DEF ListTrue
<1> QED
  BY <1>1, <1>5, <1>6, <1>7, <1>9, <1>10 DEF CalmInv, refresh

\* A new comment is above all that is shown.
LEMMA CommentStoredWhole ==
  ASSUME WholeInv, TypeOK', CommentStored
  PROVE  Below' /\ Spinner' /\ CalmInv'
<1>1. /\ TypeOK /\ Below /\ Spinner /\ CalmInv /\ count' = count + 1
      /\ UNCHANGED <<list, temp, noMore, pages, atTop, refresh, calm>>
  BY DEF WholeInv, CommentsInv, CommentStored, loader
<1>2. count \in Ids /\ ToSet(list) \cup ToSet(temp) \subseteq Ids
  BY <1>1, SeenType DEF TypeOK
<1>3. \A c \in Ids : c <= count => c <= count'
  BY <1>1, <1>2 DEF Ids
<1>4. \A p \in 1 .. MaxPages :
        /\ pages[p].stage = "asked" => pages[p].from \in Ids
        /\ pages[p].stage = "reading" => pages[p].next \in Ids
  BY <1>1 DEF TypeOK, Page, Idle
<1>5. Below'
  BY <1>1, <1>2, <1>3, <1>4 DEF Below
<1> QED
  BY <1>1, <1>5
     DEF Spinner, CalmInv, OnePage, NonePending, PagesTrue, ListTrue, AskedTrue, ReadingTrue,
         refresh

\* A step that changes nothing.
LEMMA StutterWhole ==
  ASSUME WholeInv, UNCHANGED vars
  PROVE  Below' /\ Spinner' /\ CalmInv'
BY DEF WholeInv, vars, loader, refresh, Below, Spinner, CalmInv, OnePage, NonePending,
   PagesTrue, ListTrue, AskedTrue, ReadingTrue

\* The view opens with one page asked for, from the top.
LEMMA WholeBegins == Init => WholeInv
<1> SUFFICES ASSUME Init PROVE WholeInv
  OBVIOUS
<1>1. CommentsInv /\ TypeOK
  BY CommentsBegin DEF CommentsInv
<1>2. /\ list = <<>> /\ temp = <<>> /\ noMore = FALSE
      /\ started = FALSE /\ released = FALSE /\ due = 0
  BY DEF Init
<1>3. \A p \in 1 .. MaxPages :
        /\ pages[p].stage # "reading"
        /\ pages[p].stage = "asked" => pages[p].from = NoId
        /\ pages[p] # Idle => p = 1
  BY DEF Init, Idle
<1>4. ToSet(list) = {} /\ ToSet(temp) = {}
  BY <1>2 DEF ToSet
<1>5. NoId <= count
  BY <1>1 DEF TypeOK, Ids, NoId
<1>6. Below /\ Spinner
  BY <1>2, <1>3, <1>4, <1>5 DEF Below, Spinner
<1>7. CalmInv
  BY <1>2, <1>3, <1>4
     DEF CalmInv, OnePage, PagesTrue, AskedTrue, ListTrue
<1> QED
  BY <1>1, <1>6, <1>7 DEF WholeInv

\* Every step keeps the list without gaps.
LEMMA WholePreserved ==
  ASSUME WholeInv, [Next]_vars
  PROVE  WholeInv'
<1>1. CommentsInv' /\ TypeOK'
  BY CommentsPreserved DEF WholeInv, CommentsInv
<1>2. CASE UNCHANGED vars
  BY <1>1, <1>2, StutterWhole DEF WholeInv
<1>3. CASE \E p \in 1 .. MaxPages : PageStep(p) \/ PostUnread(p) \/ CommentUnread(p)
  BY <1>1, <1>3, PageBeginsWhole, CommentReadWhole, PageShownWhole, UnreadWhole
     DEF PageStep, WholeInv
<1>4. CASE LastRowAppears \/ Pull \/ ScrollAway \/ BackAtTop \/ RefreshFires
  BY <1>1, <1>4, LastRowWhole, GesturesWhole, RefreshWhole DEF WholeInv
<1>5. CASE OwnCommentShown \/ CommentStored
  BY <1>1, <1>5, OwnCommentWhole, CommentStoredWhole DEF WholeInv
<1> QED
  BY <1>2, <1>3, <1>4, <1>5 DEF Next

\* A calm user who is told the end has been shown every comment that is not banned
\* up to the newest of the list, although each page begins two below a row that
\* need not be the first of its page, but for those that a page of banned comments
\* makes the next one leave out.
THEOREM CommentsEndMeansEnd == Spec => []EndMeansEnd
<1>1. WholeInv => EndMeansEnd
  <2>1. \A c \in 1 .. MaxComments : 1 <= c
    BY Numbers
  <2> QED
    BY <2>1 DEF WholeInv, CalmInv, Covers, EndMeansEnd
<1> QED
  BY <1>1, WholeBegins, WholePreserved, PTL DEF Spec
=============================================================================
