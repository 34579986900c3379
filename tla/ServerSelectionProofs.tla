------------------------ MODULE ServerSelectionProofs ------------------------
(***************************************************************************)
(* Proofs about ServerSelection, for any set of slots and any bound on the  *)
(* user's steps.                                                           *)
(***************************************************************************)
EXTENDS ServerSelection, TLAPS

\* Selected is one of the two servers whatever the flags say.
LEMMA SelectedType == TypeOK => Selected \in Servers
BY DEF TypeOK, Selected, Servers, Location

\* saveKey leaves a legal value in the keychain.
LEMMA SavedType ==
  ASSUME keys \in KeyStates, NEW v \in Address \cup {ErrorKeys}
  PROVE  Saved(v) \in KeyStates
BY DEF Saved, KeyStates

\* Posting one or two getAPIs calls keeps the table of calls well formed.
LEMMA CallTypes ==
  ASSUME fetch \in [Slots -> Call], CallGetAPIs \/ CallGetAPIsTwice
  PROVE  fetch' \in [Slots -> Call]
BY DEF CallGetAPIs, CallGetAPIsTwice, Queued, Call, Stage, Address, Servers

\* Counting a step of the user stays within the bound.
LEMMA ActsType ==
  ASSUME acts \in 0 .. MaxActs, UserActs
  PROVE  acts' \in 0 .. MaxActs
BY MaxActsAssumption DEF UserActs

-----------------------------------------------------------------------------
\* Type correctness: every variable of the application stays in its range.
THEOREM TypeCorrect == Spec => []TypeOK
<1> USE DEF TypeOK
<1>1. Init => TypeOK
  <2> SUFFICES ASSUME Init PROVE TypeOK
    OBVIOUS
  <2>1. fetch \in [Slots -> Call]
    BY DEF Init, FreshInstall, ReturningUser, Free, Queued, Call, Stage, Address
  <2>2. acts \in 0 .. MaxActs
    BY MaxActsAssumption DEF Init
  <2>3. CASE FreshInstall
    BY <2>1, <2>2, <2>3 DEF Init, FreshInstall, Contract, Location
  <2>4. CASE ReturningUser
    BY <2>1, <2>2, <2>4 DEF Init, ReturningUser, KeyStates, Contract, Location
  <2> QED
    BY <2>3, <2>4 DEF Init
<1>2. ASSUME TypeOK, [Next]_vars
      PROVE  TypeOK'
  <2>1. ASSUME NEW s \in Slots, RunBlock(s) PROVE TypeOK'
    BY <1>2, <2>1, SelectedType
       DEF RunBlock, Call, Stage, Free, Address, flags, contracts, account
  <2>2. ASSUME NEW s \in Slots, LocationAnswer(s) PROVE TypeOK'
    BY <1>2, <2>2 DEF LocationAnswer, Call, Stage, Address, flags, contracts, account
  <2>3. ASSUME NEW s \in Slots, ApiAnswer(s) PROVE TypeOK'
    <3>1. fetch[s].server \in Address
      BY <1>2 DEF Call
    <3>2. keys' \in KeyStates
      BY <1>2, <2>3, <3>1, SavedType DEF ApiAnswer
    <3>3. fetch' \in [Slots -> Call]
      BY <1>2, <2>3 DEF ApiAnswer, Call, Stage, Address
    <3> QED
      BY <1>2, <2>3, <3>2, <3>3 DEF ApiAnswer, flags, contracts, account
  <2>4. ASSUME NEW s \in Slots, Notify(s) PROVE TypeOK'
    <3>1. serverChanging' \in BOOLEAN
      BY <1>2, <2>4 DEF Notify
    <3> QED
      BY <1>2, <2>4, <3>1 DEF Notify, Call, Stage, Free, Address, contracts, account
  <2>5. ASSUME LoadPostContract \/ LoadCommentContract PROVE TypeOK'
    <3>1. keys \in Contract
      BY <1>2, <2>5 DEF LoadPostContract, LoadCommentContract, KeysReceived,
                        KeyStates, Contract
    <3> QED
      BY <1>2, <2>5, <3>1 DEF LoadPostContract, LoadCommentContract, flags, account
  <2>6. ASSUME SwitchToSchool \/ SwitchToPublic PROVE TypeOK'
    <3>1. acts' \in 0 .. MaxActs
      BY <1>2, <2>6, ActsType DEF SwitchToSchool, SwitchToPublic
    <3>2. CASE Reload
      <4>1. fetch' \in [Slots -> Call]
        BY <1>2, <3>2, CallTypes DEF Reload
      <4> QED
        BY <1>2, <2>6, <3>1, <3>2, <4>1
           DEF SwitchToSchool, SwitchToPublic, Reload, KeyStates, Contract, account
    <3>3. CASE ~Reload
      BY <1>2, <2>6, <3>1, <3>3 DEF SwitchToSchool, SwitchToPublic, contracts, account
    <3> QED
      BY <3>2, <3>3
  <2>7. ASSUME HomeAppears PROVE TypeOK'
    <3>1. fetch' \in [Slots -> Call]
      BY <1>2, <2>7, CallTypes DEF HomeAppears
    <3>2. acts' \in 0 .. MaxActs
      BY <1>2, <2>7, ActsType DEF HomeAppears
    <3> QED
      BY <1>2, <2>7, <3>1, <3>2 DEF HomeAppears, contracts
  <2>8. ASSUME RequestLink PROVE TypeOK'
    BY <1>2, <2>8 DEF RequestLink, flags, contracts
  <2>9. ASSUME OpenLink PROVE TypeOK'
    BY <1>2, <2>9, ActsType DEF OpenLink, flags, contracts
  <2>10. ASSUME SignInSucceeds PROVE TypeOK'
    <3>1. fetch' \in [Slots -> Call]
      BY <1>2, <2>10, CallTypes DEF SignInSucceeds
    <3> QED
      BY <1>2, <2>10, <3>1 DEF SignInSucceeds, OpenMainView, KeyStates, Contract, flags
  <2>11. ASSUME SignInFails PROVE TypeOK'
    BY <1>2, <2>11 DEF SignInFails, flags, contracts
  <2>12. ASSUME SchoolFeedAnswer PROVE TypeOK'
    BY <1>2, <2>12 DEF SchoolFeedAnswer, Location, contracts
  <2>13. ASSUME SignOut PROVE TypeOK'
    BY <1>2, <2>13, ActsType DEF SignOut, Location, contracts
  <2>14. ASSUME Restart PROVE TypeOK'
    <3>1. acts' \in 0 .. MaxActs
      BY <1>2, <2>14, ActsType DEF Restart
    <3>2. fetch' \in [Slots -> Call]
      BY <2>14 DEF Restart, Queued, Free, Call, Stage, Address
    <3> QED
      BY <1>2, <2>14, <3>1, <3>2 DEF Restart, OpenMainView, KeyStates, Contract, flags
  <2>15. CASE UNCHANGED vars
    BY <1>2, <2>15 DEF vars, flags, contracts, account
  <2> QED
    BY <1>2, <2>1, <2>2, <2>3, <2>4, <2>5, <2>6, <2>7, <2>8, <2>9, <2>10, <2>11,
       <2>12, <2>13, <2>14, <2>15 DEF Next, FetchStep
<1> QED
  BY <1>1, <1>2, PTL DEF Spec

-----------------------------------------------------------------------------
(* The keychain and the feed.                                              *)

\* A loaded contract is the one the keychain names.  The property is its own
\* inductive invariant: the keys change only when there are none, and then no
\* contract is loaded, or when a new contract object deletes them.
THEOREM KeychainFeed == Spec => []KeychainNamesFeed
<1>1. Init => KeychainNamesFeed
  BY DEF Init, FreshInstall, ReturningUser, KeychainNamesFeed, Address, Servers,
     Placeholder, Absent, Unloaded
<1>2. ASSUME KeychainNamesFeed, [Next]_vars
      PROVE  KeychainNamesFeed'
  <2> USE DEF KeychainNamesFeed
  <2>1. ASSUME NEW s \in Slots, FetchStep(s) PROVE KeychainNamesFeed'
    <3>1. UNCHANGED postContract
      BY <2>1 DEF FetchStep, RunBlock, LocationAnswer, ApiAnswer, Notify, contracts
    <3>2. keys # NoKeys => keys' = keys
      BY <2>1 DEF FetchStep, RunBlock, LocationAnswer, ApiAnswer, Notify, Saved
    <3>3. NoKeys \notin Address
      BY DEF NoKeys, Address, Servers, Placeholder
    <3> QED
      BY <1>2, <3>1, <3>2, <3>3
  <2>2. CASE LoadPostContract
    BY <2>2 DEF LoadPostContract
  <2>3. CASE LoadCommentContract
    BY <1>2, <2>3 DEF LoadCommentContract
  <2>4. CASE SwitchToSchool \/ SwitchToPublic
    <3>1. postContract' = Unloaded \/ UNCHANGED <<keys, postContract>>
      BY <2>4 DEF SwitchToSchool, SwitchToPublic, Reload, contracts
    <3> QED
      BY <1>2, <3>1 DEF Address, Servers, Placeholder, Unloaded
  <2>5. CASE HomeAppears \/ RequestLink \/ OpenLink \/ SignInFails
             \/ SchoolFeedAnswer \/ SignOut \/ UNCHANGED vars
    <3>1. UNCHANGED <<keys, postContract>>
      BY <2>5 DEF HomeAppears, RequestLink, OpenLink, SignInFails, SchoolFeedAnswer,
         SignOut, contracts, vars
    <3> QED
      BY <1>2, <3>1
  <2>6. CASE SignInSucceeds \/ Restart
    <3>1. postContract' \in {Unloaded, Absent}
      BY <2>6 DEF SignInSucceeds, Restart, OpenMainView
    <3> QED
      BY <3>1 DEF Address, Servers, Placeholder, Unloaded, Absent
  <2> QED
    BY <1>2, <2>1, <2>2, <2>3, <2>4, <2>5, <2>6 DEF Next
<1> QED
  BY <1>1, <1>2, PTL DEF Spec

\* No step takes working keys away except the creation of a contract object for
\* the feed, which deletes them.
THEOREM KeysKept == Spec => RefreshKeepsKeys
<1> DEFINE Kept == keys \in Address /\ keys' # keys
                     => keys' = NoKeys /\ postContract' = Unloaded
<1>1. ASSUME Next PROVE Kept
  <2>1. ASSUME NEW s \in Slots, FetchStep(s) PROVE Kept
    BY <2>1 DEF FetchStep, RunBlock, LocationAnswer, ApiAnswer, Notify, Saved,
       NoKeys, Address, Servers, Placeholder
  <2>2. CASE SwitchToSchool \/ SwitchToPublic
    BY <2>2 DEF SwitchToSchool, SwitchToPublic, Reload
  <2>3. CASE HomeAppears \/ RequestLink \/ OpenLink \/ SignInFails \/ SignOut
             \/ SchoolFeedAnswer \/ LoadPostContract \/ LoadCommentContract
    BY <2>3 DEF HomeAppears, RequestLink, OpenLink, SignInFails, SchoolFeedAnswer,
       SignOut, LoadPostContract, LoadCommentContract
  <2>4. CASE SignInSucceeds \/ Restart
    BY <2>4 DEF SignInSucceeds, Restart, OpenMainView
  <2> QED
    BY <1>1, <2>1, <2>2, <2>3, <2>4 DEF Next
<1>2. [Next]_vars => [Kept]_vars
  BY <1>1
<1> QED
  BY <1>2, PTL DEF Spec, RefreshKeepsKeys
-----------------------------------------------------------------------------
(* The patient user.                                                       *)

\* A patient behaviour is a behaviour: what holds of Spec holds of it.
LEMMA PatientIsSpec == PatientSpec => Spec
<1>1. [Next /\ PatientStep]_vars => [Next]_vars
  OBVIOUS
<1> QED
  BY <1>1, PTL DEF PatientSpec, Spec

\* While the selection stands, a call asks for it, and what a call brings is
\* the selected server's address, the placeholder or an error; while it changes
\* no call is past reading it and the keys go.
LEMMA PatientStepKeepsInv ==
  ASSUME TypeOK, TypeOK', PatientInv, Next, PatientStep
  PROVE  PatientInv'
<1> USE DEF PatientInv
<1>1. ASSUME NEW s \in Slots, RunBlock(s) PROVE PatientInv'
  <2>1. Selected' = Selected /\ UNCHANGED <<keys, screen>>
    BY <1>1 DEF RunBlock, flags, account, Selected
  <2> QED
    BY <1>1, <2>1 DEF RunBlock, Free, TypeOK
<1>2. ASSUME NEW s \in Slots, LocationAnswer(s) PROVE PatientInv'
  <2>1. Selected' = Selected /\ UNCHANGED <<keys, screen>>
    BY <1>2 DEF LocationAnswer, flags, account, Selected
  <2>2. Placeholder \notin Servers
    BY DEF Placeholder, Servers
  <2> QED
    BY <1>2, <2>1, <2>2 DEF LocationAnswer, TypeOK
<1>3. ASSUME NEW s \in Slots, ApiAnswer(s) PROVE PatientInv'
  <2>1. Selected' = Selected /\ UNCHANGED screen
    BY <1>3 DEF ApiAnswer, flags, account, Selected
  <2>2. keys' \in {keys, fetch[s].server, ErrorKeys}
    BY <1>3 DEF ApiAnswer, Saved
  <2>3. ErrorKeys \notin Servers
    BY DEF ErrorKeys, Servers
  <2> QED
    BY <1>3, <2>1, <2>2, <2>3 DEF ApiAnswer, TypeOK
<1>4. ASSUME NEW s \in Slots, Notify(s) PROVE PatientInv'
  <2>1. Selected' = Selected /\ UNCHANGED <<keys, screen>>
    BY <1>4 DEF Notify, account, Selected
  <2> QED
    BY <1>4, <2>1 DEF Notify, Free, TypeOK
<1>5. ASSUME \/ SwitchToSchool \/ SwitchToPublic \/ HomeAppears \/ RequestLink
             \/ OpenLink \/ SignInSucceeds \/ SignInFails \/ SchoolFeedAnswer
             \/ SignOut \/ Restart \/ LoadPostContract \/ LoadCommentContract
      PROVE  PatientInv'
  <2>1. \A s \in Slots : fetch'[s].stage \in {"location", "api"} => fetch'[s] = fetch[s]
    BY <1>5 DEF SwitchToSchool, SwitchToPublic, Reload, HomeAppears, RequestLink,
       OpenLink, SignInSucceeds, SignInFails, SchoolFeedAnswer, SignOut, Restart,
       LoadPostContract, LoadCommentContract, CallGetAPIs, CallGetAPIsTwice, Queued,
       Free, TypeOK
  <2>2. screen' = "main" => keys' = NoKeys \/ (keys' = keys /\ screen = "main")
    BY <1>5 DEF SwitchToSchool, SwitchToPublic, Reload, HomeAppears, RequestLink,
       OpenLink, SignInSucceeds, SignInFails, SchoolFeedAnswer, SignOut, Restart,
       LoadPostContract, LoadCommentContract, OpenMainView, account
  <2>3. NoKeys \notin Servers
    BY DEF NoKeys, Servers
  <2>4. CASE Selected' = Selected
    BY <2>1, <2>2, <2>3, <2>4
  <2>5. CASE Selected' # Selected
    BY <2>1, <2>3, <2>5 DEF PatientStep, Quiet
  <2> QED
    BY <2>4, <2>5
<1> QED
  BY <1>1, <1>2, <1>3, <1>4, <1>5 DEF Next, FetchStep

\* The invariant of the patient behaviours.
LEMMA PatientInvariant == PatientSpec => []PatientInv
<1>1. ASSUME Init PROVE PatientInv
  <2>1. \A s \in Slots : fetch[s].stage \notin {"location", "api"}
    <3>1. CASE FreshInstall
      BY <3>1 DEF FreshInstall, Free
    <3>2. CASE ReturningUser
      <4>1. PICK a, b \in Slots :
              fetch = [u \in Slots |-> IF u \in {a, b} THEN Queued ELSE Free]
        BY <3>2 DEF ReturningUser
      <4>2. \A s \in Slots : fetch[s] = IF s \in {a, b} THEN Queued ELSE Free
        BY <4>1, Zenon
      <4>3. Queued.stage = "queued" /\ Free.stage = "free"
        BY DEF Queued, Free
      <4> QED
        BY <4>2, <4>3
    <3> QED
      BY <1>1, <3>1, <3>2 DEF Init
  <2>2. screen = "main" => keys \notin Servers
    BY <1>1 DEF Init, FreshInstall, ReturningUser, Servers, NoKeys
  <2> QED
    BY <2>1, <2>2 DEF PatientInv
<1>2. ASSUME TypeOK, TypeOK', PatientInv, [Next /\ PatientStep]_vars
      PROVE  PatientInv'
  <2>1. CASE Next /\ PatientStep
    BY <1>2, <2>1, PatientStepKeepsInv
  <2>2. CASE UNCHANGED vars
    BY <1>2, <2>2 DEF PatientInv, vars, flags, account, Selected
  <2> QED
    BY <1>2, <2>1, <2>2
<1> QED
  BY <1>1, <1>2, PatientIsSpec, TypeCorrect, PTL DEF PatientSpec

\* What the feed shows follows from the keychain, which follows the selection.
LEMMA ShownFromKeys == KeychainNamesFeed /\ PatientInv => SelectedServerShown
BY DEF KeychainNamesFeed, PatientInv, SelectedServerShown, Address

\* If the user waits for each look-up, the feed never comes from a server other
\* than the selected one.
THEOREM SelectedShown == PatientSpec => []SelectedServerShown
BY PatientIsSpec, KeychainFeed, PatientInvariant, ShownFromKeys, PTL

\* A loaded contract under the main view was loaded there, and before that it
\* was polling.
LEMMA LoadedFromUnloaded ==
  ASSUME [Next]_vars, screen' = "main", postContract' \in Address
  PROVE  screen = "main" /\ (postContract = postContract' \/ postContract = Unloaded)
<1> USE DEF Address, Servers, Placeholder, Unloaded, Absent
<1>1. ASSUME NEW s \in Slots, FetchStep(s) PROVE UNCHANGED <<screen, postContract>>
  BY <1>1 DEF FetchStep, RunBlock, LocationAnswer, ApiAnswer, Notify, contracts, account
<1>2. CASE SwitchToSchool \/ SwitchToPublic
  BY <1>2 DEF SwitchToSchool, SwitchToPublic, Reload, contracts, account
<1>3. CASE HomeAppears \/ RequestLink \/ OpenLink \/ SignInFails \/ SchoolFeedAnswer
           \/ SignOut \/ LoadPostContract \/ LoadCommentContract \/ UNCHANGED vars
  BY <1>3 DEF HomeAppears, RequestLink, OpenLink, SignInFails, SchoolFeedAnswer, SignOut,
     LoadPostContract, LoadCommentContract, contracts, account, vars
<1>4. CASE SignInSucceeds \/ Restart
  BY <1>4 DEF SignInSucceeds, Restart, OpenMainView
<1> QED
  BY <1>1, <1>2, <1>3, <1>4 DEF Next

\* For a patient user the feed implements the abstract one: blank, or from the
\* selected server, or broken, and blank whenever the selection changes.
THEOREM FeedImplementsSelectedServer == PatientSpec => ImplementsSelectedServer
<1>1. Init => Reader!Init
  <2> SUFFICES ASSUME Init PROVE Reader!Init
    OBVIOUS
  <2>1. Selected \in Servers
    BY DEF Init, FreshInstall, ReturningUser, Selected, Servers
  <2>2. Shown = "blank"
    <3>1. screen = "login" \/ postContract = Unloaded
      BY DEF Init, FreshInstall, ReturningUser
    <3> QED
      BY <3>1 DEF Shown, Address, Servers, Placeholder, Unloaded
  <2> QED
    BY <2>1, <2>2 DEF Reader!Init
<1>2. ASSUME TypeOK', KeychainNamesFeed', PatientInv', [Next /\ PatientStep]_vars
      PROVE  [Reader!Next]_<<Selected, Shown>>
  <2>1. Selected' \in Servers
    BY <1>2 DEF TypeOK, Selected, Servers, Location
  <2>2. CASE Shown' = "blank"
    BY <2>1, <2>2 DEF Reader!Next, Reader!Select
  <2>3. CASE Shown' # "blank"
    <3>1. screen' = "main" /\ postContract' \in Address
      BY <1>2, <2>3 DEF TypeOK, Shown
    <3>2. keys' # NoKeys
      BY <1>2, <3>1 DEF KeychainNamesFeed, NoKeys, Address, Servers, Placeholder
    <3>3. Selected' = Selected
      BY <1>2, <3>1, <3>2 DEF PatientStep, vars, flags, Selected
    <3>4. Shown' \in {Selected', "broken"}
      BY <1>2, <3>1 DEF KeychainNamesFeed, PatientInv, Shown, Address
    <3>5. screen = "main" /\ (postContract = postContract' \/ postContract = Unloaded)
      BY <1>2, <3>1, LoadedFromUnloaded
    <3>6. CASE postContract = postContract'
      BY <3>1, <3>3, <3>5, <3>6 DEF Shown
    <3>7. CASE postContract = Unloaded
      <4>1. Shown = "blank"
        BY <3>7 DEF Shown, Unloaded, Address, Servers, Placeholder
      <4> QED
        BY <3>3, <3>4, <4>1 DEF Reader!Next, Reader!Reveal
    <3> QED
      BY <3>5, <3>6, <3>7
  <2> QED
    BY <2>2, <2>3
<1> QED
  BY <1>1, <1>2, PatientIsSpec, TypeCorrect, KeychainFeed, PatientInvariant, PTL
     DEF PatientSpec, ImplementsSelectedServer, Reader!Spec
=============================================================================
