---------------------------- MODULE SendingProofs -----------------------------
(***************************************************************************)
(* Proofs about Sending, for any texts, limit and number of taps.           *)
(***************************************************************************)
EXTENDS Sending, TLAPS

-----------------------------------------------------------------------------
(* The limiter.                                                            *)

Tagged(s) == s \in Seq(Char) /\ Len(s) >= 1 /\ s[1] = "#"

\* A sign is put before a text that has none.
LEMMA WithSignTags == ASSUME NEW s \in Seq(Char) PROVE Tagged(WithSign(s))
<1>1. CASE s # <<>> /\ Head(s) = "#"
  BY <1>1 DEF WithSign, Tagged
<1>2. CASE ~(s # <<>> /\ Head(s) = "#")
  <2>1. <<"#">> \in Seq(Char)
    BY DEF Char
  <2>2. /\ <<"#">> \o s \in Seq(Char)
        /\ Len(<<"#">> \o s) = 1 + Len(s)
        /\ (<<"#">> \o s)[1] = "#"
    BY <2>1
  <2> QED
    BY <1>2, <2>2 DEF WithSign, Tagged
<1> QED
  BY <1>1, <1>2

\* A prefix that is not empty has the sign its text has.
LEMMA PrefixTags ==
  ASSUME NEW s, Tagged(s), NEW n \in 1 .. Len(s)
  PROVE  Tagged(SubSeq(s, 1, n)) /\ Len(SubSeq(s, 1, n)) = n
BY DEF Tagged

\* Cutting a text keeps its sign, and to the limit.
LEMMA TruncatedTags ==
  ASSUME NEW s, Tagged(s)
  PROVE  Tagged(Truncated(s)) /\ Len(Truncated(s)) <= HashtagLimit
<1>1. Shortest(Len(s), HashtagLimit) \in 1 .. Len(s)
      /\ Shortest(Len(s), HashtagLimit) <= HashtagLimit
  BY LimitAssumption DEF Tagged, Shortest
<1> QED
  BY <1>1, PrefixTags DEF Truncated

\* The sign is not among the characters that are refused.
LEMMA WithoutOneTags == ASSUME NEW s, Tagged(s) PROVE Tagged(WithoutOne(s))
<1>1. CASE s # <<>> /\ s[Len(s)] = "refused"
  <2>1. Len(s) - 1 \in 1 .. Len(s)
    BY <1>1 DEF Tagged
  <2> QED
    BY <1>1, <2>1, PrefixTags DEF WithoutOne
<1>2. CASE ~(s # <<>> /\ s[Len(s)] = "refused")
  BY <1>2 DEF WithoutOne
<1> QED
  BY <1>1, <1>2

\* Cutting refused characters off the end keeps the sign.
LEMMA WithoutAllTags ==
  ASSUME NEW s, Tagged(s), NEW t \in WithoutAll(s)
  PROVE  Tagged(t) /\ Len(t) <= Len(s)
<1>1. PICK n \in 0 .. Len(s) : /\ \A i \in n + 1 .. Len(s) : s[i] = "refused"
                               /\ t = SubSeq(s, 1, n)
  BY DEF WithoutAll
<1>2. n \in 1 .. Len(s)
  BY <1>1 DEF Tagged
<1> QED
  BY <1>1, <1>2, PrefixTags DEF Tagged

\* What the limiter leaves of any text is a hashtag within the limit.
LEMMA LimitedIsTag ==
  ASSUME NEW s \in Seq(Char), NEW h \in Limited(s)
  PROVE  Tagged(h) /\ Len(h) <= HashtagLimit
<1>1. CASE h = Truncated(WithoutOne(WithSign(s)))
  BY <1>1, WithSignTags, WithoutOneTags, TruncatedTags
<1>2. CASE \E t \in WithoutAll(WithSign(s)) : h \in WithoutAll(Truncated(t))
  <2>1. PICK t \in WithoutAll(WithSign(s)) : h \in WithoutAll(Truncated(t))
    BY <1>2
  <2>2. Tagged(Truncated(t)) /\ Len(Truncated(t)) <= HashtagLimit
    BY WithSignTags, WithoutAllTags, TruncatedTags
  <2>3. Tagged(h) /\ Len(h) <= Len(Truncated(t))
    BY <2>1, <2>2, WithoutAllTags
  <2> QED
    BY <2>2, <2>3, LimitAssumption DEF Tagged
<1> QED
  BY <1>1, <1>2 DEF Limited

\* What can be typed is a text.
LEMMA TypedIsText == Typed \subseteq Seq(Char)
BY LimitAssumption DEF Typed

-----------------------------------------------------------------------------
(* Posts and comments.                                                     *)

\* Of a user who waits for the row there is one comment on its way, and the field
\* still holds it.
OneOnItsWay ==
  oneByOne => /\ cTimers + cBlocks <= 1
              /\ ~CommentIdle => comment # NoText

\* The two parts of PostsAreAsked and of NoticesTellPosts: of anybody, and of a
\* user who does not switch while a post or its notice waits.
TotalAsked == \A t \in Field : Total(stored, t) + timers[t] <= Total(asked, t)
TotalTold  == \A t \in Field : Total(notified, t) + notices[t] = Total(stored, t)

PlacedAsked ==
  calm => \A s \in Servers, t \in Field :
    stored[<<s, t>>] + (IF s = selected THEN timers[t] ELSE 0) <= asked[<<s, t>>]

PlacedTold ==
  calm => \A s \in Servers, t \in Field :
    notified[<<s, t>>] + (IF s = selected THEN notices[t] ELSE 0) = stored[<<s, t>>]

\* PlacedAsked is kept by a timer because it is one that was counted, by a switch
\* because then none waits; CommentIsShownAsSent needs OneOnItsWay.
SendingInv ==
  /\ TypeOK
  /\ HashtagIsTag
  /\ PostsAreWhole
  /\ PlacedAsked /\ PlacedTold
  /\ TotalAsked /\ TotalTold
  /\ OneOnItsWay
  /\ CommentIsShownAsSent

TotalInv    == TotalAsked /\ TotalTold
ComposeInv  == HashtagIsTag /\ PostsAreWhole /\ PlacedAsked /\ PlacedTold
CommentsInv == OneOnItsWay /\ CommentIsShownAsSent

\* Invariants of a view are about the variables of that view.
LEMMA ComposeApart ==
  ASSUME TypeOK, ComposeInv, UNCHANGED <<server, fields, posts, calm>>
  PROVE  ComposeInv'
BY DEF ComposeInv, HashtagIsTag, PostsAreWhole, PlacedAsked, PlacedTold, server, fields, posts

\* Totals do not depend on where the user is.
LEMMA TotalsApart == ASSUME TotalInv, UNCHANGED posts PROVE TotalInv'
BY DEF TotalInv, TotalAsked, TotalTold, Total, posts

\* What is said of comments is theirs alone.
LEMMA CommentsApart ==
  ASSUME TypeOK, CommentsInv, UNCHANGED comments
  PROVE  CommentsInv'
BY DEF CommentsInv, OneOnItsWay, CommentIdle, CommentIsShownAsSent, comments

\* At the start nothing is asked for, stored or shown.
LEMMA SendingBegins == Init => SendingInv
<1> SUFFICES ASSUME Init PROVE SendingInv
  OBVIOUS
<1> USE DEF Init
<1>1. NoText \in Field
  BY DEF Field
<1>2. view \in View /\ acts \in 0 .. MaxActs
  BY SendingAssumption
<1>7. FlagsOK
  BY DEF FlagsOK
<1>3. PostsOK /\ CommentsOK
  BY <1>1 DEF PostsOK, CommentsOK, Counts, Placed
<1>4. HashtagIsTag
  BY DEF HashtagIsTag
<1>5. PostsAreWhole /\ PlacedAsked /\ PlacedTold
  BY <1>1 DEF PostsAreWhole, PlacedAsked, PlacedTold
<1>8. TotalAsked /\ TotalTold
  <2>1. \A s \in Servers, t \in Field : <<s, t>> \in Servers \X Field
    OBVIOUS
  <2> QED
    BY <2>1 DEF TotalAsked, TotalTold, Total, Servers
<1>6. OneOnItsWay /\ CommentIsShownAsSent
  BY DEF OneOnItsWay, CommentIdle, CommentIsShownAsSent
<1> QED
  BY <1>2, <1>3, <1>4, <1>5, <1>6, <1>7, <1>8 DEF SendingInv, TypeOK

\* Counts stay counts.
LEMMA CountUp ==
  /\ \A f \in Counts, t \in Field : [f EXCEPT ![t] = @ + 1] \in Counts
  /\ \A f \in Placed, s \in Servers, t \in Field : [f EXCEPT ![<<s, t>>] = @ + 1] \in Placed
BY DEF Counts, Placed

\* A count goes down only from above zero.
LEMMA CountDown == \A f \in Counts, t \in Field : f[t] > 0 => [f EXCEPT ![t] = @ - 1] \in Counts
BY DEF Counts

\* What the counts are after one went up or down.
LEMMA CountedUp ==
  ASSUME NEW f \in Counts, NEW t \in Field
  PROVE  \A u \in Field : /\ f[u] \in Nat
                          /\ [f EXCEPT ![t] = @ + 1][u] = IF u = t THEN f[u] + 1 ELSE f[u]
BY DEF Counts

\* The same, going down.
LEMMA CountedDown ==
  ASSUME NEW f \in Counts, NEW t \in Field
  PROVE  \A u \in Field : /\ f[u] \in Nat
                          /\ [f EXCEPT ![t] = @ - 1][u] = IF u = t THEN f[u] - 1 ELSE f[u]
BY DEF Counts

\* A total is a number, and goes up with its text on either server.
LEMMA TotalUp ==
  ASSUME NEW f \in Placed, NEW s \in Servers, NEW t \in Field
  PROVE  \A u \in Field :
           /\ Total(f, u) \in Nat
           /\ Total([f EXCEPT ![<<s, t>>] = @ + 1], u) = Total(f, u) + IF u = t THEN 1 ELSE 0
<1> SUFFICES ASSUME NEW u \in Field
             PROVE  /\ Total(f, u) \in Nat
                    /\ Total([f EXCEPT ![<<s, t>>] = @ + 1], u)
                         = Total(f, u) + IF u = t THEN 1 ELSE 0
  OBVIOUS
<1>1. "Public" \in Servers /\ "School" \in Servers /\ "Public" # "School"
      /\ (s = "Public" \/ s = "School")
  BY DEF Servers
<1>2. \A r \in Servers : /\ f[<<r, u>>] \in Nat
                          /\ [f EXCEPT ![<<s, t>>] = @ + 1][<<r, u>>]
                               = f[<<r, u>>] + IF r = s /\ u = t THEN 1 ELSE 0
  BY DEF Placed
<1> QED
  BY <1>1, <1>2 DEF Total

\* createPost counts a text of the field.
LEMMA CreatePostTypes ==
  ASSUME PostsOK, CreatePost
  PROVE  timers' \in Counts /\ asked' \in Placed /\ UNCHANGED <<stored, notices, notified>>
BY CountUp DEF PostsOK, CreatePost, posts

\* Steps have results of the right types.
LEMMA PostTypes == ASSUME TypeOK, ComposeStep PROVE PostsOK'
<1> USE DEF server, fields, posts
<1>0. PostsOK /\ NoText \in Field
  BY DEF TypeOK, Field
<1>1. CASE TypePost \/ TickBox \/ CancelPopUp \/ ContractLoads
  BY <1>0, <1>1 DEF TypePost, TickBox, CancelPopUp, ContractLoads, PostsOK
<1>2. CASE TypeHashtag
  <2>1. hashtag' \in Seq(Char)
    BY <1>2, LimitedIsTag, TypedIsText DEF TypeHashtag, Tagged
  <2> QED
    BY <1>0, <1>2, <2>1 DEF TypeHashtag, PostsOK
<1>3. CASE TapCreate
  <2>1. CASE sure
    BY <1>0, <1>3, <2>1, CreatePostTypes DEF TapCreate, PostsOK
  <2>2. CASE ~sure
    BY <1>0, <1>3, <2>2 DEF TapCreate, PostsOK
  <2> QED
    BY <2>1, <2>2
<1>4. CASE SendFromPopUp
  BY <1>0, <1>4, CreatePostTypes DEF SendFromPopUp, PostsOK
<1>5. ASSUME NEW t \in Field, PostTimerFires(t) PROVE PostsOK'
  <2>1. hashtag' \in Seq(Char)
    <3>1. <<>> \in Seq(Char)
      OBVIOUS
    <3> QED
      BY <1>5, <3>1, LimitedIsTag DEF PostTimerFires, Tagged
  <2>2. timers' \in Counts
    BY <1>0, <1>5, CountDown DEF PostTimerFires, PostsOK
  <2>3. stored' \in Placed /\ notices' \in Counts
    BY <1>0, <1>5, CountUp DEF PostTimerFires, Stored, NotStored, PostsOK
  <2> QED
    BY <1>0, <1>5, <2>1, <2>2, <2>3 DEF PostTimerFires, PostsOK
<1>6. ASSUME NEW t \in Field, NoticeSent(t) PROVE PostsOK'
  <2>1. notices' \in Counts /\ notified' \in Placed
    BY <1>0, <1>6, CountUp, CountDown DEF NoticeSent, PostsOK
  <2> QED
    BY <1>0, <1>6, <2>1 DEF NoticeSent, PostsOK
<1>7. CASE Switch
  BY <1>0, <1>7 DEF Switch, PostsOK
<1> QED
  BY <1>1, <1>2, <1>3, <1>4, <1>5, <1>6, <1>7 DEF ComposeStep

\* Typing, tapping and sending keep the types of comments.
LEMMA CommentTypes == ASSUME TypeOK, CommentStep PROVE CommentsOK'
<1>0. CommentsOK /\ NoText \in Field
  BY DEF TypeOK, Field
<1>1. CASE TypeComment \/ CommentContractLoads
  BY <1>0, <1>1 DEF TypeComment, CommentContractLoads, CommentsOK
<1>2. CASE TapComment
  BY <1>0, <1>2 DEF TapComment, CommentsOK
<1>3. CASE CommentTimerFires
  <2>1. cThreads' \in Counts
    BY <1>0, <1>3, CountUp DEF CommentTimerFires, CommentsOK
  <2> QED
    BY <1>0, <1>3, <2>1 DEF CommentTimerFires, CommentsOK
<1>4. ASSUME NEW t \in Field, CommentThread(t) PROVE CommentsOK'
  <2>1. cThreads' \in Counts /\ cSent' \in Counts
    BY <1>0, <1>4, CountUp, CountDown DEF CommentThread, CommentsOK
  <2> QED
    BY <1>0, <1>4, <2>1 DEF CommentThread, CommentsOK
<1>5. CASE CommentBlock
  <2>1. cShown' \in Counts
    BY <1>0, <1>5, CountUp DEF CommentBlock, CommentsOK
  <2> QED
    BY <1>0, <1>5, <2>1 DEF CommentBlock, CommentsOK
<1> QED
  BY <1>1, <1>2, <1>3, <1>4, <1>5 DEF CommentStep

\* Each view's steps leave the variables of the other alone.
LEMMA ViewsAreApart ==
  /\ ComposeStep => UNCHANGED comments
  /\ CommentStep => UNCHANGED <<server, fields, posts, calm>>
<1>1. ComposeStep => UNCHANGED comments
  BY DEF ComposeStep, TypePost, TypeHashtag, TapCreate, TickBox, CancelPopUp, SendFromPopUp,
    PostTimerFires, NoticeSent, Switch, ContractLoads
<1>2. CommentStep => UNCHANGED <<server, fields, posts, calm>>
  BY DEF CommentStep, TypeComment, TapComment, CommentTimerFires, CommentThread, CommentBlock,
    CommentContractLoads
<1> QED
  BY <1>1, <1>2

\* The view that is open and the flags of the fields.
LEMMA FlagTypes == ASSUME TypeOK, ComposeStep \/ CommentStep PROVE FlagsOK' /\ view' \in View
<1> USE DEF server, fields, comments, FlagsOK
<1>0. FlagsOK /\ view \in View
  BY DEF TypeOK
<1>1. CASE ComposeStep
  BY <1>0, <1>1 DEF ComposeStep, TypePost, TypeHashtag, TapCreate, TickBox, CancelPopUp, SendFromPopUp,
    PostTimerFires, NoticeSent, Switch, ContractLoads
<1>2. CASE CommentStep
  BY <1>0, <1>2 DEF CommentStep, TypeComment, TapComment, CommentTimerFires, CommentThread, CommentBlock,
    CommentContractLoads
<1> QED
  BY <1>1, <1>2

\* Counting a step stays within the bound.
LEMMA ActTypes == ASSUME TypeOK, ComposeStep \/ CommentStep PROVE acts' \in 0 .. MaxActs
<1>1. acts' = acts \/ UserActs
  BY DEF ComposeStep, TypePost, TypeHashtag, TapCreate, TickBox, CancelPopUp, SendFromPopUp,
    PostTimerFires, NoticeSent, Switch, ContractLoads,
    CommentStep, TypeComment, TapComment, CommentTimerFires, CommentThread, CommentBlock,
    CommentContractLoads
<1> QED
  BY <1>1, SendingAssumption DEF TypeOK, UserActs

\* Every step keeps the types.
LEMMA SendingTypes == ASSUME TypeOK, [Next]_vars PROVE TypeOK'
<1>1. CASE ComposeStep
  <2>1. CommentsOK'
    BY <1>1, ViewsAreApart DEF comments, TypeOK, CommentsOK
  <2> QED
    BY <1>1, <2>1, PostTypes, FlagTypes, ActTypes DEF TypeOK
<1>2. CASE CommentStep
  <2>1. PostsOK'
    BY <1>2, ViewsAreApart DEF server, fields, posts, TypeOK, PostsOK
  <2> QED
    BY <1>2, <2>1, CommentTypes, FlagTypes, ActTypes DEF TypeOK
<1>3. CASE UNCHANGED vars
  BY <1>3 DEF vars, server, fields, posts, comments, TypeOK, FlagsOK, PostsOK, CommentsOK
<1> QED
  BY <1>1, <1>2, <1>3 DEF Next

\* The steps of ComposeView.
LEMMA ComposeSteps == ASSUME SendingInv, ComposeStep PROVE ComposeInv'
<1> USE SendingAssumption DEF server, fields, posts
<1>0. PostsOK /\ ComposeInv /\ NoText \in Field
  BY DEF SendingInv, TypeOK, ComposeInv, Field
<1> DEFINE PostsInv == PostsAreWhole /\ PlacedAsked /\ PlacedTold
<1>a. ASSUME UNCHANGED <<selected, posts, calm>> PROVE PostsInv'
  BY <1>0, <1>a DEF ComposeInv, PostsAreWhole, PlacedAsked, PlacedTold
<1>b. ASSUME NEW s \in Seq(Char), hashtag' \in Limited(s) PROVE HashtagIsTag'
  BY <1>b, LimitedIsTag DEF Tagged, HashtagIsTag
<1>c. ASSUME UNCHANGED hashtag PROVE HashtagIsTag'
  BY <1>0, <1>c DEF ComposeInv, HashtagIsTag
<1>d. ASSUME CreatePost, UNCHANGED <<selected, calm>> PROVE PostsInv'
  <2>1. CASE ~Complete
    BY <1>a, <1>d, <2>1 DEF CreatePost
  <2>2. CASE Complete
    <3>1. draft \in Field /\ draft # NoText
      BY <1>0, <2>2 DEF Complete, PostsOK
    <3>2. /\ timers' = [timers EXCEPT ![draft] = @ + 1]
          /\ asked' = [asked EXCEPT ![<<selected, draft>>] = @ + 1]
          /\ UNCHANGED <<stored, notices, notified, selected, calm>>
      BY <1>d, <2>2 DEF CreatePost
    <3>3. \A u \in Field : timers[u] \in Nat /\ timers'[u] = IF u = draft THEN timers[u] + 1 ELSE timers[u]
      BY <1>0, <3>1, <3>2, CountedUp DEF PostsOK
    <3>4. \A s \in Servers, u \in Field :
            /\ asked[<<s, u>>] \in Nat
            /\ asked'[<<s, u>>] = IF s = selected /\ u = draft THEN asked[<<s, u>>] + 1 ELSE asked[<<s, u>>]
      <4>1. selected \in Servers /\ asked \in Placed
        BY <1>0 DEF PostsOK
      <4>2. asked' = [asked EXCEPT ![<<selected, draft>>] = @ + 1]
        BY <3>2
      <4> QED
        BY <3>1, <4>1, <4>2 DEF Placed
    <3>5. \A s \in Servers, u \in Field : stored[<<s, u>>] \in Nat
      BY <1>0 DEF PostsOK, Placed
    <3>6. PostsAreWhole'
      BY <1>0, <3>1, <3>2, <3>3 DEF ComposeInv, PostsAreWhole
    <3>7. PlacedAsked'
      <4> SUFFICES ASSUME calm', NEW s \in Servers, NEW u \in Field
                   PROVE  stored'[<<s, u>>] + (IF s = selected' THEN timers'[u] ELSE 0) <= asked'[<<s, u>>]
        BY DEF PlacedAsked
      <4>1. stored[<<s, u>>] + (IF s = selected THEN timers[u] ELSE 0) <= asked[<<s, u>>]
        BY <1>0, <3>2 DEF ComposeInv, PlacedAsked
      <4> QED
        BY <4>1, <3>2, <3>3, <3>4, <3>5
    <3>8. PlacedTold'
      BY <1>0, <3>2 DEF ComposeInv, PlacedTold
    <3> QED
      BY <3>6, <3>7, <3>8
  <2> QED
    BY <2>1, <2>2
<1> HIDE DEF PostsInv
<1>1. CASE TypePost
  BY <1>1, <1>a, <1>c DEF TypePost, ComposeInv, PostsInv
<1>2. CASE TypeHashtag
  BY <1>2, <1>a, <1>b, TypedIsText DEF TypeHashtag, ComposeInv, PostsInv
<1>3. CASE TapCreate
  BY <1>3, <1>a, <1>c, <1>d DEF TapCreate, ComposeInv, PostsInv
<1>4. CASE TickBox \/ CancelPopUp
  BY <1>4, <1>a, <1>c DEF TickBox, CancelPopUp, ComposeInv, PostsInv
<1>5. CASE SendFromPopUp
  BY <1>5, <1>c, <1>d DEF SendFromPopUp, ComposeInv, PostsInv
<1>6. ASSUME NEW t \in Field, PostTimerFires(t) PROVE ComposeInv'
  <2>1. HashtagIsTag'
    <3>1. <<>> \in Seq(Char)
      OBVIOUS
    <3> QED
      BY <1>6, <3>1, <1>b DEF PostTimerFires
  <2>2. \A u \in Field : timers[u] \in Nat /\ timers'[u] = IF u = t THEN timers[u] - 1 ELSE timers[u]
    BY <1>0, <1>6, CountedDown DEF PostTimerFires, PostsOK
  <2>3. timers[t] > 0 /\ t # NoText /\ UNCHANGED <<selected, notified, asked, calm>>
    BY <1>0, <1>6 DEF PostTimerFires, ComposeInv, PostsAreWhole
  <2>4. \A s \in Servers, u \in Field :
          stored[<<s, u>>] \in Nat /\ asked[<<s, u>>] \in Nat /\ notified[<<s, u>>] \in Nat
    BY <1>0 DEF PostsOK, Placed
  <2>5. CASE Stored(t)
    <3>1. \A u \in Field : notices[u] \in Nat /\ notices'[u] = IF u = t THEN notices[u] + 1 ELSE notices[u]
      BY <1>0, <2>5, CountedUp DEF Stored, PostsOK
    <3>2. \A s \in Servers, u \in Field :
            stored'[<<s, u>>] = IF s = selected /\ u = t THEN stored[<<s, u>>] + 1 ELSE stored[<<s, u>>]
      <4>1. selected \in Servers /\ stored \in Placed /\ stored' = [stored EXCEPT ![<<selected, t>>] = @ + 1]
        BY <1>0, <2>5 DEF Stored, PostsOK
      <4> QED
        BY <4>1 DEF Placed
    <3>3. PostsAreWhole'
      BY <1>0, <2>2, <2>3, <3>2 DEF ComposeInv, PostsAreWhole
    <3>4. PlacedAsked'
      <4> SUFFICES ASSUME calm', NEW s \in Servers, NEW u \in Field
                   PROVE  stored'[<<s, u>>] + (IF s = selected' THEN timers'[u] ELSE 0) <= asked'[<<s, u>>]
        BY DEF PlacedAsked
      <4>1. stored[<<s, u>>] + (IF s = selected THEN timers[u] ELSE 0) <= asked[<<s, u>>]
        BY <1>0, <2>3 DEF ComposeInv, PlacedAsked
      <4> QED
        BY <4>1, <2>2, <2>3, <2>4, <3>2
    <3>5. PlacedTold'
      <4> SUFFICES ASSUME calm', NEW s \in Servers, NEW u \in Field
                   PROVE  notified'[<<s, u>>] + (IF s = selected' THEN notices'[u] ELSE 0) = stored'[<<s, u>>]
        BY DEF PlacedTold
      <4>1. notified[<<s, u>>] + (IF s = selected THEN notices[u] ELSE 0) = stored[<<s, u>>]
        BY <1>0, <2>3 DEF ComposeInv, PlacedTold
      <4> QED
        BY <4>1, <2>3, <2>4, <3>1, <3>2
    <3> QED
      BY <2>1, <3>3, <3>4, <3>5 DEF ComposeInv
  <2>6. CASE NotStored
    <3>1. UNCHANGED <<stored, notices>>
      BY <2>6 DEF NotStored
    <3>2. PostsAreWhole'
      BY <1>0, <2>2, <2>3, <3>1 DEF ComposeInv, PostsAreWhole
    <3>3. PlacedAsked'
      <4> SUFFICES ASSUME calm', NEW s \in Servers, NEW u \in Field
                   PROVE  stored'[<<s, u>>] + (IF s = selected' THEN timers'[u] ELSE 0) <= asked'[<<s, u>>]
        BY DEF PlacedAsked
      <4>1. stored[<<s, u>>] + (IF s = selected THEN timers[u] ELSE 0) <= asked[<<s, u>>]
        BY <1>0, <2>3 DEF ComposeInv, PlacedAsked
      <4> QED
        BY <4>1, <2>2, <2>3, <2>4, <3>1
    <3>4. PlacedTold'
      BY <1>0, <2>3, <3>1 DEF ComposeInv, PlacedTold
    <3> QED
      BY <2>1, <3>2, <3>3, <3>4 DEF ComposeInv
  <2> QED
    BY <1>6, <2>5, <2>6 DEF PostTimerFires
<1>7. ASSUME NEW t \in Field, NoticeSent(t) PROVE ComposeInv'
  <2>1. PostsAreWhole' /\ PlacedAsked'
    BY <1>0, <1>7 DEF NoticeSent, ComposeInv, PostsAreWhole, PlacedAsked
  <2>2. \A u \in Field : notices[u] \in Nat /\ notices'[u] = IF u = t THEN notices[u] - 1 ELSE notices[u]
    BY <1>0, <1>7, CountedDown DEF NoticeSent, PostsOK
  <2>3. \A s \in Servers, u \in Field :
          /\ notified[<<s, u>>] \in Nat /\ stored[<<s, u>>] \in Nat
          /\ notified'[<<s, u>>] = IF s = selected /\ u = t THEN notified[<<s, u>>] + 1 ELSE notified[<<s, u>>]
    BY <1>0, <1>7 DEF NoticeSent, PostsOK, Placed
  <2>4. PlacedTold'
    <3>0. timers' = timers /\ UNCHANGED <<calm, selected, stored>>
      BY <1>7 DEF NoticeSent
    <3> SUFFICES ASSUME calm', NEW s \in Servers, NEW u \in Field
                 PROVE  notified'[<<s, u>>] + (IF s = selected' THEN notices'[u] ELSE 0) = stored'[<<s, u>>]
      BY DEF PlacedTold
    <3>1. notified[<<s, u>>] + (IF s = selected THEN notices[u] ELSE 0) = stored[<<s, u>>]
      BY <1>0, <3>0 DEF ComposeInv, PlacedTold
    <3> QED
      BY <3>1, <2>2, <2>3, <3>0
  <2> QED
    BY <1>7, <1>c, <2>1, <2>4 DEF NoticeSent, ComposeInv
<1>8. CASE Switch
  <2>1. PostsAreWhole'
    BY <1>0, <1>8 DEF Switch, ComposeInv, PostsAreWhole
  <2>2. calm' => /\ calm
                 /\ \A t \in Field : timers[t] = 0 /\ timers'[t] = 0 /\ notices[t] = 0 /\ notices'[t] = 0
    BY <1>0, <1>8 DEF Switch, NoneWaits, PostsOK
  <2>3. PlacedAsked'
    BY <1>0, <1>8, <2>2 DEF Switch, ComposeInv, PlacedAsked
  <2>4. PlacedTold'
    BY <1>0, <1>8, <2>2 DEF Switch, ComposeInv, PlacedTold
  <2> QED
    BY <1>8, <1>c, <2>1, <2>3, <2>4 DEF Switch, ComposeInv
<1>9. CASE ContractLoads
  BY <1>9, <1>a, <1>c DEF ContractLoads, ComposeInv, PostsInv
<1> QED
  BY <1>1, <1>2, <1>3, <1>4, <1>5, <1>6, <1>7, <1>8, <1>9 DEF ComposeStep

\* What a timer or a thread takes from one count it adds to another.
LEMMA TotalSteps == ASSUME SendingInv, ComposeStep PROVE TotalInv'
<1> USE DEF server, fields, posts
<1>0. PostsOK /\ TotalInv
  BY DEF SendingInv, TypeOK, TotalInv
<1>1. ASSUME CreatePost PROVE TotalInv'
  <2>1. CASE ~Complete
    BY <1>0, <1>1, <2>1, TotalsApart DEF CreatePost
  <2>2. CASE Complete
    <3>1. /\ draft \in Field /\ selected \in Servers
          /\ timers \in Counts /\ asked \in Placed
      BY <1>0 DEF PostsOK
    <3>2. /\ timers' = [timers EXCEPT ![draft] = @ + 1]
          /\ asked' = [asked EXCEPT ![<<selected, draft>>] = @ + 1]
          /\ UNCHANGED <<stored, notices, notified>>
      BY <1>1, <2>2 DEF CreatePost
    <3>3. \A u \in Field : /\ timers[u] \in Nat
                            /\ timers'[u] = IF u = draft THEN timers[u] + 1 ELSE timers[u]
      BY <3>1, <3>2, CountedUp
    <3>4. \A u \in Field : /\ Total(asked, u) \in Nat
                            /\ Total(asked', u) = Total(asked, u) + IF u = draft THEN 1 ELSE 0
      BY <3>1, <3>2, TotalUp
    <3>5. \A u \in Field : Total(stored, u) \in Nat /\ Total(stored', u) = Total(stored, u)
      <4>1. \A u \in Field : Total(stored, u) \in Nat
        BY <1>0, <3>1, TotalUp DEF PostsOK
      <4> QED
        BY <3>2, <4>1
    <3>6. TotalAsked'
      BY <1>0, <3>3, <3>4, <3>5 DEF TotalInv, TotalAsked
    <3>7. TotalTold'
      BY <1>0, <3>2 DEF TotalInv, TotalTold, Total
    <3> QED
      BY <3>6, <3>7 DEF TotalInv
  <2> QED
    BY <2>1, <2>2
<1>2. CASE TypePost \/ TypeHashtag \/ TickBox \/ CancelPopUp \/ Switch \/ ContractLoads
  BY <1>0, <1>2, TotalsApart
     DEF TypePost, TypeHashtag, TickBox, CancelPopUp, Switch, ContractLoads
<1>3. CASE TapCreate \/ SendFromPopUp
  BY <1>0, <1>1, <1>3, TotalsApart DEF TapCreate, SendFromPopUp
<1>4. ASSUME NEW t \in Field, PostTimerFires(t) PROVE TotalInv'
  <2>1. \A u \in Field : timers[u] \in Nat /\ timers'[u] = IF u = t THEN timers[u] - 1 ELSE timers[u]
    BY <1>0, <1>4, CountedDown DEF PostTimerFires, PostsOK
  <2>2. \A u \in Field : /\ Total(stored, u) \in Nat /\ Total(asked, u) \in Nat
                          /\ Total(notified, u) \in Nat /\ notices[u] \in Nat
    <3>1. selected \in Servers /\ stored \in Placed /\ asked \in Placed /\ notified \in Placed
          /\ notices \in Counts
      BY <1>0 DEF PostsOK
    <3> QED
      BY <3>1, TotalUp DEF Counts
  <2>3. UNCHANGED <<notified, asked>>
    BY <1>4 DEF PostTimerFires
  <2>4. CASE Stored(t)
    <3>1. \A u \in Field : notices'[u] = IF u = t THEN notices[u] + 1 ELSE notices[u]
      BY <1>0, <2>4, CountedUp DEF Stored, PostsOK
    <3>2. \A u \in Field : Total(stored', u) = Total(stored, u) + IF u = t THEN 1 ELSE 0
      <4>1. selected \in Servers /\ stored \in Placed
        BY <1>0 DEF PostsOK
      <4>2. stored' = [stored EXCEPT ![<<selected, t>>] = @ + 1]
        BY <2>4 DEF Stored
      <4> QED
        BY <4>1, <4>2, TotalUp
    <3>3. TotalAsked'
      <4> SUFFICES ASSUME NEW u \in Field
                   PROVE  Total(stored', u) + timers'[u] <= Total(asked', u)
        BY DEF TotalAsked, Total
      <4>1. Total(stored, u) + timers[u] <= Total(asked, u) /\ Total(asked', u) = Total(asked, u)
        BY <1>0, <2>3 DEF TotalInv, TotalAsked, Total
      <4> QED
        BY <2>1, <2>2, <3>2, <4>1
    <3>4. TotalTold'
      <4> SUFFICES ASSUME NEW u \in Field
                   PROVE  Total(notified', u) + notices'[u] = Total(stored', u)
        BY DEF TotalTold, Total
      <4>1. Total(notified, u) + notices[u] = Total(stored, u) /\ Total(notified', u) = Total(notified, u)
        BY <1>0, <2>3 DEF TotalInv, TotalTold, Total
      <4> QED
        BY <2>2, <3>1, <3>2, <4>1
    <3> QED
      BY <3>3, <3>4 DEF TotalInv
  <2>5. CASE NotStored
    <3>1. UNCHANGED <<stored, notices, notified, asked>>
      BY <2>3, <2>5 DEF NotStored
    <3>2. TotalTold'
      BY <1>0, <3>1 DEF TotalInv, TotalTold, Total
    <3>3. TotalAsked'
      <4> SUFFICES ASSUME NEW u \in Field
                   PROVE  Total(stored', u) + timers'[u] <= Total(asked', u)
        BY DEF TotalAsked, Total
      <4>1. /\ Total(stored, u) + timers[u] <= Total(asked, u)
            /\ Total(asked', u) = Total(asked, u) /\ Total(stored', u) = Total(stored, u)
        BY <1>0, <3>1 DEF TotalInv, TotalAsked, Total
      <4>2. timers'[u] <= timers[u] /\ timers'[u] \in Int
        BY <2>1
      <4> QED
        BY <2>1, <2>2, <4>1, <4>2
    <3> QED
      BY <3>2, <3>3 DEF TotalInv
  <2> QED
    BY <1>4, <2>4, <2>5 DEF PostTimerFires
<1>5. ASSUME NEW t \in Field, NoticeSent(t) PROVE TotalInv'
  <2>1. /\ notices' = [notices EXCEPT ![t] = @ - 1]
        /\ notified' = [notified EXCEPT ![<<selected, t>>] = @ + 1]
        /\ UNCHANGED <<timers, stored, asked>>
    BY <1>5 DEF NoticeSent
  <2>2. \A u \in Field : notices[u] \in Nat /\ notices'[u] = IF u = t THEN notices[u] - 1 ELSE notices[u]
    BY <1>0, <2>1, CountedDown DEF PostsOK
  <2>3. \A u \in Field : /\ Total(notified, u) \in Nat
                          /\ Total(notified', u) = Total(notified, u) + IF u = t THEN 1 ELSE 0
    <3>1. selected \in Servers /\ notified \in Placed
      BY <1>0 DEF PostsOK
    <3> QED
      BY <2>1, <3>1, TotalUp
  <2>4. TotalTold'
    <3> SUFFICES ASSUME NEW u \in Field
                 PROVE  Total(notified', u) + notices'[u] = Total(stored', u)
      BY DEF TotalTold, Total
    <3>1. Total(notified, u) + notices[u] = Total(stored, u) /\ Total(stored', u) = Total(stored, u)
      BY <1>0, <2>1 DEF TotalInv, TotalTold, Total
    <3> QED
      BY <2>2, <2>3, <3>1
  <2>5. TotalAsked'
    BY <1>0, <2>1 DEF TotalInv, TotalAsked, Total
  <2> QED
    BY <2>4, <2>5 DEF TotalInv
<1> QED
  BY <1>2, <1>3, <1>4, <1>5 DEF ComposeStep

\* The steps of CommentView.
LEMMA CommentSteps == ASSUME SendingInv, CommentStep PROVE CommentsInv'
<1> USE SendingAssumption DEF CommentIdle
<1>0. CommentsOK /\ OneOnItsWay /\ CommentIsShownAsSent /\ NoText \in Field
  BY DEF SendingInv, TypeOK, Field
<1> USE DEF CommentsInv, OneOnItsWay, CommentIsShownAsSent, CommentsOK
<1> HIDE DEF CommentIsShownAsSent
<1>1. CASE TypeComment
  <2>1. oneByOne' => oneByOne /\ cTimers = 0 /\ cBlocks = 0 /\ UNCHANGED <<cTimers, cBlocks>>
    BY <1>1 DEF TypeComment
  <2>2. UNCHANGED <<cThreads, cSent, cShown>>
    BY <1>1 DEF TypeComment
  <2>3. CommentIsShownAsSent'
    BY <1>0, <2>1, <2>2 DEF CommentIsShownAsSent
  <2> QED
    BY <2>1, <2>3
<1>2. CASE TapComment
  <2>1. /\ oneByOne' => oneByOne /\ cTimers = 0 /\ cBlocks = 0
        /\ comment # NoText /\ cTimers' = cTimers + 1
        /\ UNCHANGED <<comment, cBlocks, cThreads, cSent, cShown>>
    BY <1>2 DEF TapComment
  <2>2. CommentIsShownAsSent'
    BY <1>0, <2>1 DEF CommentIsShownAsSent
  <2> QED
    BY <2>1, <2>2
<1> USE DEF CommentIsShownAsSent
<1>3. CASE CommentTimerFires
  BY <1>0, <1>3 DEF CommentTimerFires, Counts
<1>4. ASSUME NEW t \in Field, CommentThread(t) PROVE CommentsInv'
  BY <1>0, <1>4 DEF CommentThread, Counts
<1>5. CASE CommentBlock
  BY <1>0, <1>5 DEF CommentBlock, Counts
<1>6. CASE CommentContractLoads
  BY <1>0, <1>6 DEF CommentContractLoads
<1> QED
  BY <1>1, <1>2, <1>3, <1>4, <1>5, <1>6 DEF CommentStep

\* Every step keeps the invariant.
LEMMA SendingSteps == SendingInv /\ [Next]_vars => SendingInv'
<1> SUFFICES ASSUME SendingInv, [Next]_vars PROVE SendingInv'
  OBVIOUS
<1>1. TypeOK /\ ComposeInv /\ TotalInv /\ CommentsInv
  BY DEF SendingInv, ComposeInv, TotalInv, CommentsInv
<1>2. CASE ComposeStep
  BY <1>1, <1>2, ComposeSteps, TotalSteps, CommentsApart, ViewsAreApart, SendingTypes
     DEF SendingInv, ComposeInv, TotalInv, CommentsInv
<1>3. CASE CommentStep
  BY <1>1, <1>3, CommentSteps, ComposeApart, TotalsApart, ViewsAreApart, SendingTypes
     DEF SendingInv, ComposeInv, TotalInv, CommentsInv
<1>4. CASE UNCHANGED vars
  BY <1>1, <1>4, ComposeApart, TotalsApart, CommentsApart, SendingTypes
     DEF SendingInv, ComposeInv, TotalInv, CommentsInv, vars
<1> QED
  BY <1>2, <1>3, <1>4 DEF Next

\* The invariant of every user.
LEMMA SendingAlways == Spec => []SendingInv
BY SendingBegins, SendingSteps, PTL DEF Spec

-----------------------------------------------------------------------------
\* Type correctness of both views.
THEOREM SendingTypeCorrect == Spec => []TypeOK
<1>1. SendingInv => TypeOK
  BY DEF SendingInv
<1> QED
  BY <1>1, SendingAlways, PTL

\* The hashtag keeps its sign and its limit, whatever is typed, and whichever way
\* an assignment inside the observer is compiled.
THEOREM HashtagStaysTag == Spec => []HashtagIsTag
<1>1. SendingInv => HashtagIsTag
  BY DEF SendingInv
<1> QED
  BY <1>1, SendingAlways, PTL

\* No post lacks title or message.
THEOREM PostsStayWhole == Spec => []PostsAreWhole
<1>1. SendingInv => PostsAreWhole
  BY DEF SendingInv
<1> QED
  BY <1>1, SendingAlways, PTL

\* For any number of taps, waiting timers and switches, posts are those that were
\* asked for; they are on the server they were asked for if no switch was made
\* while one waited.
THEOREM PostsWereAsked == Spec => []PostsAreAsked
<1>1. SendingInv => PostsAreAsked
  BY DEF SendingInv, TotalAsked, PlacedAsked, PostsAreAsked
<1> QED
  BY <1>1, SendingAlways, PTL

\* Each post is announced once, whatever is switched; it is announced where it is
\* if no switch was made while a post or its notice waited.
THEOREM PostsAreAnnounced == Spec => []NoticesTellPosts
<1>1. SendingInv => NoticesTellPosts
  BY DEF SendingInv, TotalTold, PlacedTold, NoticesTellPosts
<1> QED
  BY <1>1, SendingAlways, PTL

\* Comments sent one by one are shown as they were sent.
THEOREM CommentsAreShown == Spec => []CommentIsShownAsSent
<1>1. SendingInv => CommentIsShownAsSent
  BY DEF SendingInv
<1> QED
  BY <1>1, SendingAlways, PTL
=============================================================================
