------------------------------- MODULE Sending --------------------------------
(***************************************************************************)
(* Sending a post from ComposeView and a comment from CommentView.  Both    *)
(* wait, in a repeating timer without an interval, for a contract that is   *)
(* loaded.  A post is what the fields held at the tap, and is sent from the *)
(* main thread; a comment is what its field holds when the timer fires, is  *)
(* sent from a background thread, and becomes a row of the list, with what  *)
(* the field holds by then, in a later block.                               *)
(*                                                                         *)
(* A timer whose block is on the main queue does not fire again before the  *)
(* block has run, but others may.  A restart ends all that waits, and is    *)
(* where Init begins; the servers are ServerSelection's, seen from outside, *)
(* of a user whose contract is the selected server's.                       *)
(***************************************************************************)
EXTENDS TextLimiter

CONSTANTS
  Texts,     \* what a post, without its hashtag, or a comment says
  NoText,    \* an empty field; of a post: title, message or both are empty
  MaxActs    \* bound on taps, switches and edits of the hashtag

ASSUME SendingAssumption == NoText \notin Texts /\ MaxActs \in Nat

VARIABLES
  view,      \* the view in use: they share no state, so one at a time is enough
  selected,  \* the server that is on
  loaded,    \* loader.contract.loaded, of the contract of that server
  draft,     \* ComposeView's title and message
  hashtag,   \* ComposeView's hashtag
  popUp,     \* showPopUp
  sure,      \* COMPOSE_ALERT: "Do not ask me again" is ticked
  timers,    \* posts that wait for the contract, by text
  stored,    \* posts in the contracts, by server and text
  notices,   \* sendNotification's threads, by the post's text
  notified,  \* what was written to the servers' Notifications documents
  cLoaded,   \* the comment loader's contract is loaded
  comment,   \* CommentView's field
  cTimers,   \* its timers that have not fired
  cBlocks,   \* its blocks on the main queue
  cThreads,  \* its background threads, by text
  cSent,     \* calls of the contract's addComment, by text
  cShown,    \* rows that were added to the list, by text
  asked,     \* history: posts asked for, by the server that was on and text
  calm,      \* history: no switch while a post or its notice waited
  oneByOne,  \* history: nothing typed or tapped while a comment waited
  acts       \* those of the user so far

server == <<selected, loaded>>
fields == <<draft, hashtag, popUp, sure>>
posts  == <<timers, stored, notices, notified, asked>>
comments == <<cLoaded, comment, cTimers, cBlocks, cThreads, cSent, cShown, oneByOne>>
vars == <<view, server, fields, posts, comments, calm, acts>>

-----------------------------------------------------------------------------
View    == {"compose", "comments"}
Servers == {"Public", "School"}
Field  == Texts \cup {NoText}
Counts == [Field -> Nat]
Placed == [Servers \X Field -> Nat]

FlagsOK ==
  /\ loaded \in BOOLEAN /\ popUp \in BOOLEAN /\ sure \in BOOLEAN /\ cLoaded \in BOOLEAN
  /\ calm \in BOOLEAN /\ oneByOne \in BOOLEAN

PostsOK ==
  /\ selected \in Servers
  /\ draft \in Field /\ hashtag \in Seq(Char)
  /\ timers \in Counts /\ notices \in Counts
  /\ stored \in Placed /\ notified \in Placed /\ asked \in Placed

CommentsOK ==
  /\ comment \in Field
  /\ cTimers \in Nat /\ cBlocks \in Nat
  /\ cThreads \in Counts /\ cSent \in Counts /\ cShown \in Counts

TypeOK ==
  /\ view \in View /\ acts \in 0 .. MaxActs
  /\ FlagsOK /\ PostsOK /\ CommentsOK

UserActs == /\ acts < MaxActs
            /\ acts' = acts + 1

NoneWaits == \A t \in Field : timers[t] = 0 /\ notices[t] = 0

CommentIdle == cTimers = 0 /\ cBlocks = 0

\* titleShake, messageShake, hashtagShake.
Complete == draft # NoText /\ hashtag # <<>>

\* How often a text is counted, wherever it is.
Total(f, t) == f[<<"Public", t>>] + f[<<"School", t>>]

-----------------------------------------------------------------------------
(* ComposeView.  Under the pop-up the fields can still be edited.          *)

TypePost ==
  /\ draft' \in Field
  /\ UNCHANGED <<view, server, hashtag, popUp, sure, posts, comments, calm, acts>>

TypeHashtag ==
  /\ UserActs
  /\ \E s \in Typed : hashtag' \in Limited(s)
  /\ UNCHANGED <<view, server, draft, popUp, sure, posts, comments, calm>>

\* createPost, on the fields as they are now.
CreatePost ==
  IF Complete
  THEN /\ timers' = [timers EXCEPT ![draft] = @ + 1]
       /\ asked'  = [asked EXCEPT ![<<selected, draft>>] = @ + 1]
       /\ UNCHANGED <<stored, notices, notified>>
  ELSE UNCHANGED posts

\* The button "Create Post".
TapCreate ==
  /\ ~popUp /\ Complete
  /\ UserActs
  /\ popUp' = ~sure
  /\ IF sure THEN CreatePost ELSE UNCHANGED posts
  /\ UNCHANGED <<view, server, draft, hashtag, sure, comments, calm>>

TickBox ==
  /\ popUp
  /\ UserActs
  /\ sure' = ~sure
  /\ UNCHANGED <<view, server, draft, hashtag, popUp, posts, comments, calm>>

CancelPopUp ==
  /\ popUp
  /\ popUp' = FALSE
  /\ UNCHANGED <<view, server, draft, hashtag, sure, posts, comments, calm, acts>>

SendFromPopUp ==
  /\ popUp
  /\ UserActs
  /\ popUp' = FALSE
  /\ CreatePost
  /\ UNCHANGED <<view, server, draft, hashtag, sure, comments, calm>>

\* SmartContract.createPost: a post that could be sent is announced.
Stored(t) ==
  /\ stored'  = [stored EXCEPT ![<<selected, t>>] = @ + 1]
  /\ notices' = [notices EXCEPT ![t] = @ + 1]

NotStored == UNCHANGED <<stored, notices>>

\* Deviation: a timer that was invalidated fires.
PostTimerFiresInvalid(t) ==
  /\ loaded /\ asked[<<selected, t>>] > 0
  /\ timers'  = [timers EXCEPT ![t] = @ - 1]
  /\ draft'   = NoText
  /\ hashtag' \in Limited(<<>>)
  /\ Stored(t) \/ NotStored
  /\ UNCHANGED <<view, server, popUp, sure, notified, asked, comments, calm, acts>>

\* Deviation: the post is what the fields hold by now.
PostTimerFiresLate(t) ==
  /\ timers[t] > 0 /\ loaded
  /\ timers'  = [timers EXCEPT ![t] = @ - 1]
  /\ draft'   = NoText
  /\ hashtag' \in Limited(<<>>)
  /\ Stored(draft) \/ NotStored
  /\ UNCHANGED <<view, server, popUp, sure, notified, asked, comments, calm, acts>>

\* Deviation: a post is sent only when the fields are still filled in.
PostTimerFiresComplete(t) ==
  /\ timers[t] > 0 /\ loaded /\ Complete
  /\ timers'  = [timers EXCEPT ![t] = @ - 1]
  /\ draft'   = NoText
  /\ hashtag' \in Limited(<<>>)
  /\ Stored(t) \/ NotStored
  /\ UNCHANGED <<view, server, popUp, sure, notified, asked, comments, calm, acts>>

\* The timer of a post that waits sees a loaded contract.  The fields are
\* emptied whatever they hold by now; the transaction may fail.
PostTimerFires(t) ==
  /\ timers[t] > 0 /\ loaded
  /\ timers'  = [timers EXCEPT ![t] = @ - 1]
  /\ draft'   = NoText
  /\ hashtag' \in Limited(<<>>)
  /\ Stored(t) \/ NotStored
  /\ UNCHANGED <<view, server, popUp, sure, notified, asked, comments, calm, acts>>

\* Deviation: the announcement is always the public server's.
NoticeSentElsewhere(t) ==
  /\ notices[t] > 0
  /\ notices'  = [notices EXCEPT ![t] = @ - 1]
  /\ notified' = [notified EXCEPT ![<<"Public", t>>] = @ + 1]
  /\ UNCHANGED <<view, server, fields, timers, stored, asked, comments, calm, acts>>

\* sendNotification's thread writes to the document of the server that is on.
NoticeSent(t) ==
  /\ notices[t] > 0
  /\ notices'  = [notices EXCEPT ![t] = @ - 1]
  /\ notified' = [notified EXCEPT ![<<selected, t>>] = @ + 1]
  /\ UNCHANGED <<view, server, fields, timers, stored, asked, comments, calm, acts>>

-----------------------------------------------------------------------------
(* CommentView.                                                            *)

TypeComment ==
  /\ comment' \in Field
  /\ oneByOne' = (oneByOne /\ CommentIdle)
  /\ UNCHANGED <<view, server, fields, posts, cLoaded, cTimers, cBlocks, cThreads, cSent, cShown, calm, acts>>

\* addComment.
TapComment ==
  /\ comment # NoText
  /\ UserActs
  /\ cTimers' = cTimers + 1
  /\ oneByOne' = (oneByOne /\ CommentIdle)
  /\ UNCHANGED <<view, server, fields, posts, cLoaded, comment, cBlocks, cThreads, cSent, cShown, calm>>

\* A timer sees a loaded contract: it starts a thread and posts a block.
CommentTimerFires ==
  /\ cTimers > 0 /\ cLoaded
  /\ cTimers'  = cTimers - 1
  /\ cThreads' = [cThreads EXCEPT ![comment] = @ + 1]
  /\ cBlocks'  = cBlocks + 1
  /\ UNCHANGED <<view, server, fields, posts, cLoaded, comment, cSent, cShown, oneByOne, calm, acts>>

CommentThread(t) ==
  /\ cThreads[t] > 0
  /\ cThreads' = [cThreads EXCEPT ![t] = @ - 1]
  /\ cSent'    = [cSent EXCEPT ![t] = @ + 1]
  /\ UNCHANGED <<view, server, fields, posts, cLoaded, comment, cTimers, cBlocks, cShown, oneByOne, calm, acts>>

\* Deviation: the field is emptied first.
CommentBlockEmptied ==
  /\ cBlocks > 0
  /\ cShown'  = [cShown EXCEPT ![NoText] = @ + 1]
  /\ comment' = NoText
  /\ cBlocks' = cBlocks - 1
  /\ UNCHANGED <<view, server, fields, posts, cLoaded, cTimers, cThreads, cSent, oneByOne, calm, acts>>

\* The main queue's block: the row, and then the field is emptied.
CommentBlock ==
  /\ cBlocks > 0
  /\ cShown'  = [cShown EXCEPT ![comment] = @ + 1]
  /\ comment' = NoText
  /\ cBlocks' = cBlocks - 1
  /\ UNCHANGED <<view, server, fields, posts, cLoaded, cTimers, cThreads, cSent, oneByOne, calm, acts>>

-----------------------------------------------------------------------------
(* The rest of the application.  A switch replaces the post loader's        *)
(* contract by one that is not loaded, and leaves the comment loader's.     *)

Switch ==
  /\ UserActs
  /\ selected' \in Servers \ {selected}
  /\ loaded' = FALSE
  /\ calm' = (calm /\ NoneWaits)
  /\ UNCHANGED <<view, fields, posts, comments>>

ContractLoads ==
  /\ ~loaded
  /\ loaded' = TRUE
  /\ UNCHANGED <<view, selected, fields, posts, comments, calm, acts>>

CommentContractLoads ==
  /\ ~cLoaded
  /\ cLoaded' = TRUE
  /\ UNCHANGED <<view, server, fields, posts, comment, cTimers, cBlocks, cThreads, cSent, cShown, oneByOne, calm, acts>>

Init ==
  /\ view \in View
  /\ selected \in Servers /\ loaded = FALSE
  /\ draft = NoText /\ hashtag = <<>> /\ popUp = FALSE /\ sure \in BOOLEAN
  /\ timers = [t \in Field |-> 0] /\ notices = timers
  /\ stored = [k \in Servers \X Field |-> 0] /\ notified = stored /\ asked = stored
  /\ cLoaded = FALSE /\ comment = NoText /\ cTimers = 0 /\ cBlocks = 0
  /\ cThreads = timers /\ cSent = timers /\ cShown = timers
  /\ calm = TRUE /\ oneByOne = TRUE
  /\ acts = 0

ComposeStep ==
  \/ TypePost \/ TypeHashtag
  \/ TapCreate \/ TickBox \/ CancelPopUp \/ SendFromPopUp
  \/ \E t \in Field : PostTimerFires(t) \/ NoticeSent(t)
  \/ Switch
  \/ ContractLoads

CommentStep ==
  \/ TypeComment \/ TapComment
  \/ CommentTimerFires
  \/ \E t \in Field : CommentThread(t)
  \/ CommentBlock
  \/ CommentContractLoads

Next ==
  \/ view = "compose" /\ ComposeStep
  \/ view = "comments" /\ CommentStep

\* A contract's keys come, and timers run.
Fairness ==
  /\ WF_vars(view = "compose" /\ ContractLoads)
  /\ \A t \in Field : WF_vars(PostTimerFires(t))

Spec == Init /\ [][Next]_vars /\ Fairness

-----------------------------------------------------------------------------
\* However the field is edited, the hashtag has its sign and keeps to its limit:
\* it is cut after the sign was added, and adding it is what may exceed it.
HashtagIsTag ==
  hashtag # <<>> => Head(hashtag) = "#" /\ Len(hashtag) <= HashtagLimit

\* No post is sent without title or message, though fields are edited under the
\* pop-up after the button has looked at them, and emptied by an earlier post's
\* timer.
PostsAreWhole == timers[NoText] = 0 /\ \A s \in Servers : stored[<<s, NoText>>] = 0

\* A post is sent as it was when it was asked for, and no more often than that,
\* while others wait, the fields change and servers are switched.  It reaches the
\* server that was on, if no switch is made while one waits: otherwise it reaches
\* the one that is on by then.
PostsAreAsked ==
  /\ \A t \in Field : Total(stored, t) + timers[t] <= Total(asked, t)
  /\ calm => \A s \in Servers, t \in Field :
       stored[<<s, t>>] + (IF s = selected THEN timers[t] ELSE 0) <= asked[<<s, t>>]

\* Each post in a contract is announced once, and a post that could not be sent is
\* not announced.  It is announced to the readers of that contract, if no switch is
\* made while a post or its notice waits: otherwise the notice follows the switch.
NoticesTellPosts ==
  /\ \A t \in Field : Total(notified, t) + notices[t] = Total(stored, t)
  /\ calm => \A s \in Servers, t \in Field :
       notified[<<s, t>>] + (IF s = selected THEN notices[t] ELSE 0) = stored[<<s, t>>]

\* A comment is shown once, as it was sent, and never empty, though field, thread
\* and block go their own ways; of a user who waits for the row.
CommentIsShownAsSent ==
  oneByOne => \A t \in Field :
    /\ cShown[t] + (IF cBlocks > 0 /\ comment = t THEN 1 ELSE 0) = cSent[t] + cThreads[t]
    /\ t = NoText => cSent[t] + cThreads[t] = 0

\* A post that was asked for does not wait for ever, whatever becomes of the
\* fields and however many wait.
PostsAreTried == \A t \in Texts : timers[t] > 0 ~> timers[t] = 0
=============================================================================
