--------------------------- MODULE ServerSelection ---------------------------
(***************************************************************************)
(* Which server the application talks to.                                  *)
(*                                                                         *)
(* A dVox server is a smart contract, named here by its contract address.  *)
(* The application keeps three strings in the keychain (Credentials,       *)
(* ContractAddress, InfuraURL); APIs.getAPIs looks them up in Firestore,   *)
(* and every SmartContract object polls the keychain until they are there. *)
(* The user's choice of server is in UserDefaults; Server.switchToSchool   *)
(* and switchToPublic change it and throw the keys away.                   *)
(*                                                                         *)
(* Everything here runs on the main queue, so a handler is one step; what  *)
(* interleaves is the handlers, the blocks they post, the polling timers   *)
(* and Firestore's answers, which come back in any order.                  *)
(***************************************************************************)
EXTENDS Naturals

CONSTANTS
  Slots,      \* names for the getAPIs calls in flight: bounds how many there are
  MaxActs     \* bound on the steps the user takes (asking for a link again is none)

ASSUME SlotsAssumption == \E s1, s2 \in Slots : s1 # s2
ASSUME MaxActsAssumption == MaxActs \in Nat

VARIABLES
  keys,             \* the three keychain items, always added and deleted together
  fetch,            \* Slots -> the getAPIs call in that slot
  schoolLoc,        \* UserDefaults "SCHOOL_LOCATION" ("error" when it is not set)
  schoolEnable,     \* UserDefaults "SCHOOL_ENABLE"
  readyToLoad,      \* UserDefaults "READY_TO_LOAD"
  serverChanging,   \* UserDefaults "SERVER_CHANGING"
  postContract,     \* the address in PostLoader2.contract
  commentContract,  \* the address in MainView's CommentLoader.contract
  email,            \* is there an "Email" in UserDefaults?
  signedIn,         \* is Auth.auth().currentUser set?
  screen,           \* the root view: LoginView or MainView
  link,             \* is a sign-in with an e-mail link under way?
  feed,             \* is getSchoolFeed waiting for Firestore?
  appeared,         \* has the home tab of this MainView appeared?
  acts              \* steps the user has taken

flags     == <<schoolLoc, schoolEnable, readyToLoad, serverChanging>>
contracts == <<postContract, commentContract>>
account   == <<email, signedIn, screen, link, feed, appeared>>
vars      == <<keys, fetch, flags, contracts, account, acts>>

-----------------------------------------------------------------------------
Servers == {"Public", "School"}

\* getAPIs starts from the string "Public" and keeps it when the Locations
\* document cannot be read: a value that passes for an address and is none.
Placeholder == "placeholder"
Address     == Servers \cup {Placeholder}

NoKeys    == "no keys"
ErrorKeys == "error"
KeyStates == Address \cup {NoKeys, ErrorKeys}

\* A contract object that is still polling the keychain, and no object at all.
Unloaded == "unloaded"
Absent   == "absent"
Contract == Address \cup {Unloaded, Absent}

Location == {"error", "publicOnly", "School"}

Stage == {"free", "queued", "location", "api", "notify"}
Call  == [stage : Stage, server : Address]
Free   == [stage |-> "free",   server |-> Placeholder]
Queued == [stage |-> "queued", server |-> Placeholder]

TypeOK ==
  /\ keys \in KeyStates
  /\ fetch \in [Slots -> Call]
  /\ schoolLoc \in Location
  /\ schoolEnable \in BOOLEAN
  /\ readyToLoad \in BOOLEAN
  /\ serverChanging \in BOOLEAN
  /\ postContract \in Contract
  /\ commentContract \in Contract
  /\ email \in BOOLEAN
  /\ signedIn \in BOOLEAN
  /\ screen \in {"login", "main"}
  /\ link \in BOOLEAN
  /\ feed \in BOOLEAN
  /\ appeared \in BOOLEAN
  /\ acts \in 0 .. MaxActs

\* The server a getAPIs block asks for when it runs.
Selected == IF schoolLoc \notin {"error", "publicOnly"} /\ schoolEnable
            THEN schoolLoc ELSE "Public"

\* Deviation: SecItemUpdate instead of SecItemAdd.
SavedOver(value) == value

\* saveKey goes through SecItemAdd, which refuses an item that exists.
Saved(value) == IF keys = NoKeys THEN value ELSE keys

\* Deviation: an item that says "error" is a key.
KeysReceivedError == keys # NoKeys

KeysReceived == keys \notin {NoKeys, ErrorKeys}

IsFree(s) == fetch[s].stage = "free"

\* getAPIs posts its block to the main queue; n calls take n free slots.
CallGetAPIs == \E s \in Slots :
  /\ IsFree(s)
  /\ fetch' = [fetch EXCEPT ![s] = Queued]

CallGetAPIsTwice == \E s, t \in Slots :
  /\ s # t /\ IsFree(s) /\ IsFree(t)
  /\ fetch' = [fetch EXCEPT ![s] = Queued, ![t] = Queued]

UserActs == /\ acts < MaxActs
            /\ acts' = acts + 1

-----------------------------------------------------------------------------
(* The life of a getAPIs call.                                             *)

\* Deviation: the block forgets SCHOOL_ENABLE.
RunBlockAnySchool(s) ==
  /\ fetch[s].stage = "queued"
  /\ fetch' = [fetch EXCEPT ![s] =
                 IF readyToLoad
                 THEN [stage |-> "location",
                       server |-> IF schoolLoc = "School" THEN schoolLoc ELSE "Public"]
                 ELSE Free]
  /\ UNCHANGED <<keys, flags, contracts, account, acts>>

\* The block reads the three flags when it runs, not when it was posted, and
\* does nothing at all before READY_TO_LOAD: its group is then never left.
RunBlock(s) ==
  /\ fetch[s].stage = "queued"
  /\ fetch' = [fetch EXCEPT ![s] =
                 IF readyToLoad THEN [stage |-> "location", server |-> Selected]
                                ELSE Free]
  /\ UNCHANGED <<keys, flags, contracts, account, acts>>

\* The Locations document: the address of the server, or the literal left alone.
LocationAnswer(s) ==
  /\ fetch[s].stage = "location"
  /\ \E address \in {fetch[s].server, Placeholder} :
       fetch' = [fetch EXCEPT ![s] = [stage |-> "api", server |-> address]]
  /\ UNCHANGED <<keys, flags, contracts, account, acts>>

\* The APIs document: setOnSuccess with the credentials and the address, or
\* setOnError; both leave the group, whose notify block goes to the main queue.
ApiAnswer(s) ==
  /\ fetch[s].stage = "api"
  /\ \E answer \in {fetch[s].server, ErrorKeys} : keys' = Saved(answer)
  /\ fetch' = [fetch EXCEPT ![s] = [stage |-> "notify", server |-> Placeholder]]
  /\ UNCHANGED <<flags, contracts, account, acts>>

\* Deviation: the notify block forgets SERVER_CHANGING.
NotifyOnlyPrints(s) ==
  /\ fetch[s].stage = "notify"
  /\ fetch' = [fetch EXCEPT ![s] = Free]
  /\ UNCHANGED <<keys, flags, contracts, account, acts>>

\* The notify block looks at the keychain, whoever wrote it.
Notify(s) ==
  /\ fetch[s].stage = "notify"
  /\ fetch' = [fetch EXCEPT ![s] = Free]
  /\ serverChanging' = (serverChanging /\ ~KeysReceived)
  /\ UNCHANGED <<keys, schoolLoc, schoolEnable, readyToLoad, contracts, account, acts>>

-----------------------------------------------------------------------------
(* SmartContract objects: the 0.1 s timer of each.                         *)

LoadPostContract ==
  /\ postContract = Unloaded
  /\ KeysReceived
  /\ postContract' = keys
  /\ UNCHANGED <<keys, fetch, flags, commentContract, account, acts>>

LoadCommentContract ==
  /\ commentContract = Unloaded
  /\ KeysReceived
  /\ commentContract' = keys
  /\ UNCHANGED <<keys, fetch, flags, postContract, account, acts>>

-----------------------------------------------------------------------------
(* The user changes server.  switchToSchool and switchToPublic run the same *)
(* steps: save "error" (lost: either the keys exist, or the next line drops *)
(* them), getAPIs, and reloadIfNeeded, whose new SmartContract deletes the  *)
(* keys and calls getAPIs again.  The comment loader's reloadIfNeeded reads *)
(* a flag nobody sets ("RELOAD_NEEDED_comment", against                     *)
(* "RELOAD_NEEDED_comments" set two lines above): its contract stays.       *)
(* RELOAD_NEEDED is set and cleared within the step.                        *)

\* Deviation: the post loader's reload is skipped, as the comment loader's is.
ReloadKeysOnly ==
  /\ serverChanging' = TRUE
  /\ keys' = NoKeys
  /\ CallGetAPIsTwice
  /\ UNCHANGED <<schoolLoc, readyToLoad, contracts, account>>

Reload ==
  /\ serverChanging' = TRUE
  /\ keys' = NoKeys
  /\ CallGetAPIsTwice
  /\ postContract' = Unloaded
  /\ UNCHANGED <<schoolLoc, readyToLoad, commentContract, account>>

SwitchToSchool ==
  /\ postContract # Absent
  /\ UserActs
  /\ schoolLoc # "publicOnly"
  /\ schoolEnable' = TRUE
  /\ Reload

SwitchToPublic ==
  /\ postContract # Absent
  /\ UserActs
  /\ schoolEnable' = FALSE
  /\ \/ /\ schoolLoc = "publicOnly"
        /\ UNCHANGED <<keys, fetch, schoolLoc, readyToLoad, serverChanging, contracts, account>>
     \/ /\ schoolLoc # "publicOnly"
        /\ Reload

-----------------------------------------------------------------------------
(* Start-up, sign-in and sign-out.                                         *)

\* MainView makes two SmartContract objects; each init deletes the keys and
\* calls getAPIs.
OpenMainView ==
  /\ screen' = "main"
  /\ appeared' = FALSE
  /\ keys' = NoKeys
  /\ postContract' = Unloaded
  /\ commentContract' = Unloaded

\* Deviation: the home tab deletes the keys before it asks for them.
HomeAppearsResets ==
  /\ screen = "main"
  /\ IF appeared THEN UserActs ELSE acts' = acts
  /\ appeared' = TRUE
  /\ readyToLoad' = TRUE
  /\ keys' = NoKeys
  /\ CallGetAPIs
  /\ UNCHANGED <<schoolLoc, schoolEnable, serverChanging, contracts,
                 email, signedIn, screen, link, feed>>

\* Deviation: the home tab marks the application ready and calls nothing.
HomeAppearsOnlyMarks ==
  /\ screen = "main"
  /\ IF appeared THEN UserActs ELSE acts' = acts
  /\ appeared' = TRUE
  /\ readyToLoad' = TRUE
  /\ UNCHANGED <<keys, fetch, schoolLoc, schoolEnable, serverChanging, contracts,
                 email, signedIn, screen, link, feed>>

\* The home tab marks the application ready and calls getAPIs; the first time
\* comes with MainView, later ones with the user's return to the tab.
HomeAppears ==
  /\ screen = "main"
  /\ IF appeared THEN UserActs ELSE acts' = acts
  /\ appeared' = TRUE
  /\ readyToLoad' = TRUE
  /\ CallGetAPIs
  /\ UNCHANGED <<keys, schoolLoc, schoolEnable, serverChanging, contracts,
                 email, signedIn, screen, link, feed>>

\* LoginView.googleLogin: the link was sent, the address is remembered.
RequestLink ==
  /\ screen = "login"
  /\ email' = TRUE
  /\ UNCHANGED <<keys, fetch, flags, contracts, signedIn, screen, link, feed, appeared, acts>>

\* handleDeepLink: without an e-mail address the login view with an error;
\* otherwise the school is asked for before the link is even looked at.
OpenLink ==
  /\ ~link /\ ~feed
  /\ UserActs
  /\ \/ /\ ~email
        /\ screen' = "login"
        /\ UNCHANGED <<link, feed>>
     \/ /\ email
        /\ feed' = TRUE
        /\ \/ link' = TRUE /\ screen' = screen
           \/ link' = FALSE /\ screen' = "login"
  /\ UNCHANGED <<keys, fetch, flags, contracts, email, signedIn, appeared>>

SignInSucceeds ==
  /\ link
  /\ link' = FALSE
  /\ signedIn' = TRUE
  /\ OpenMainView
  /\ CallGetAPIsTwice
  /\ UNCHANGED <<flags, email, feed, acts>>

SignInFails ==
  /\ link
  /\ link' = FALSE
  /\ screen' = "login"
  /\ UNCHANGED <<keys, fetch, flags, contracts, email, signedIn, feed, appeared, acts>>

\* getSchoolFeed's answer: the school of the address, "publicOnly", or nothing.
SchoolFeedAnswer ==
  /\ feed
  /\ feed' = FALSE
  /\ \/ /\ schoolLoc' = "School"
        /\ schoolEnable' = TRUE
     \/ /\ schoolLoc' = "publicOnly"
        /\ UNCHANGED schoolEnable
     \/ UNCHANGED <<schoolLoc, schoolEnable>>
  /\ UNCHANGED <<keys, fetch, readyToLoad, serverChanging, contracts,
                 email, signedIn, screen, link, appeared, acts>>

\* forceSignOut wipes UserDefaults; keychain, contracts and calls go on.
SignOut ==
  /\ screen = "main"
  /\ UserActs
  /\ schoolLoc' = "error"
  /\ schoolEnable' = FALSE
  /\ readyToLoad' = FALSE
  /\ serverChanging' = FALSE
  /\ email' = FALSE
  /\ signedIn' = FALSE
  /\ screen' = "login"
  /\ UNCHANGED <<keys, fetch, contracts, link, feed, appeared>>

\* The process ends and starts again: UserDefaults and keychain survive, the
\* calls and objects do not.
Restart ==
  /\ UserActs
  /\ link' = FALSE
  /\ feed' = FALSE
  /\ \/ /\ signedIn
        /\ OpenMainView
        /\ \E s, t \in Slots :
             /\ s # t
             /\ fetch' = [u \in Slots |-> IF u \in {s, t} THEN Queued ELSE Free]
     \/ /\ ~signedIn
        /\ screen' = "login"
        /\ appeared' = FALSE
        /\ fetch' = [u \in Slots |-> Free]
        /\ postContract' = Absent
        /\ commentContract' = Absent
        /\ UNCHANGED keys
  /\ UNCHANGED <<flags, email, signedIn>>

-----------------------------------------------------------------------------
(* A fresh installation (the keychain outlives the previous one), or the    *)
(* start of the application of a user who is signed in.                     *)

FreshInstall ==
  /\ keys \in KeyStates
  /\ fetch = [s \in Slots |-> Free]
  /\ schoolLoc = "error" /\ schoolEnable = FALSE
  /\ readyToLoad = FALSE /\ serverChanging = FALSE
  /\ postContract = Absent /\ commentContract = Absent
  /\ email = FALSE /\ signedIn = FALSE /\ screen = "login"

ReturningUser ==
  /\ keys = NoKeys
  /\ \E s, t \in Slots :
       /\ s # t
       /\ fetch = [u \in Slots |-> IF u \in {s, t} THEN Queued ELSE Free]
  /\ schoolLoc \in {"publicOnly", "School"}
  /\ schoolEnable \in BOOLEAN /\ (schoolEnable => schoolLoc = "School")
  /\ readyToLoad = TRUE /\ serverChanging \in BOOLEAN
  /\ postContract = Unloaded /\ commentContract = Unloaded
  /\ email = TRUE /\ signedIn = TRUE /\ screen = "main"

Init ==
  /\ FreshInstall \/ ReturningUser
  /\ link = FALSE /\ feed = FALSE /\ appeared = FALSE
  /\ acts = 0

FetchStep(s) == RunBlock(s) \/ LocationAnswer(s) \/ ApiAnswer(s) \/ Notify(s)

Next ==
  \/ \E s \in Slots : FetchStep(s)
  \/ LoadPostContract
  \/ LoadCommentContract
  \/ SwitchToSchool
  \/ SwitchToPublic
  \/ HomeAppears
  \/ RequestLink
  \/ OpenLink
  \/ SignInSucceeds
  \/ SignInFails
  \/ SchoolFeedAnswer
  \/ SignOut
  \/ Restart

Spec == Init /\ [][Next]_vars

\* Blocks and timers of the main queue run, Firestore and Firebase Auth answer
\* (an error after their timeout, if nothing else) and MainView's first tab
\* appears.  Nothing is assumed of the user.
Fairness ==
  /\ \A s \in Slots : WF_vars(FetchStep(s))
  /\ WF_vars(LoadPostContract)
  /\ WF_vars(LoadCommentContract)
  /\ WF_vars(SignInSucceeds \/ SignInFails)
  /\ WF_vars(SchoolFeedAnswer)
  /\ WF_vars(~appeared /\ HomeAppears)

FairSpec == Spec /\ Fairness
-----------------------------------------------------------------------------
(* Properties of every behaviour.                                          *)

\* Hides, blocks and votes are filed under the ContractAddress in the keychain
\* while posts are read from the contract object (SmartContract.getPost through
\* BanContainer): a loaded contract must be the one the keychain names, through
\* late answers, refreshes, switches and sign-outs.
KeychainNamesFeed == postContract \in Address => keys = postContract

\* The home tab calls getAPIs on every appearance without deleting the keys
\* first.  Whatever such a call brings back, an error or another server's
\* address, it does not take the working keys away.
RefreshKeepsKeys ==
  [][(keys \in Address /\ keys' # keys) => keys' = NoKeys /\ postContract' = Unloaded]_vars

\* A contract object that waits for keys is not left waiting: it loads, or a
\* failed look-up has stored "error", or the user is back at the login view.
ContractSettles ==
  (postContract = Unloaded) ~>
    (postContract \in Address \/ keys = ErrorKeys \/ screen = "login")

\* SERVER_CHANGING, under which getPost answers nothing, is cleared in the end
\* unless a look-up failed or the user is back at the login view.
ChangeFlagClears ==
  serverChanging ~> (~serverChanging \/ keys = ErrorKeys \/ screen = "login")

-----------------------------------------------------------------------------
(* The behaviours of a patient user: the selection changes only when no     *)
(* getAPIs call has read the old one, and never under a main view that      *)
(* keeps its keys (as getSchoolFeed's answer does when it comes late).       *)

Quiet == \A s \in Slots : fetch[s].stage \notin {"location", "api"}

PatientStep ==
  Selected' # Selected => Quiet /\ (screen' = "main" => keys' = NoKeys)

PatientSpec == Init /\ [][Next /\ PatientStep]_vars

\* Then the feed never comes from a server other than the selected one.
SelectedServerShown ==
  screen = "main" /\ postContract \in Servers => postContract = Selected

\* Why it holds: no call carries, and under the main view no keychain holds, a
\* server other than the selected one.
PatientInv ==
  /\ \A s \in Slots :
       fetch[s].stage \in {"location", "api"} /\ fetch[s].server \in Servers
         => fetch[s].server = Selected
  /\ screen = "main" /\ keys \in Servers => keys = Selected

\* The feed as its reader sees it.
Shown == IF screen = "login" \/ postContract \notin Address THEN "blank"
         ELSE IF postContract = Placeholder THEN "broken"
         ELSE postContract

Reader == INSTANCE SelectedServer
            WITH Blank <- "blank", Broken <- "broken", wanted <- Selected, shown <- Shown

\* Seen from the feed, the whole exchange of flags, calls, keys and timers is
\* Select and Reveal.
ImplementsSelectedServer == Reader!Spec

-----------------------------------------------------------------------------
(* What the source says of the program, and the program does not do.       *)

\* README.md:7: "Each post has its own title, ..., and a section for comments":
\* the comments under a post are read from the server the post is from.
CommentsOfThePost ==
  postContract \in Servers /\ commentContract \in Servers
    => commentContract = postContract
=============================================================================
