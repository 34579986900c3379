--------------------------- MODULE ServerSettings ----------------------------
(***************************************************************************)
(* The "Available Servers" part of SettingsView, which drives               *)
(* ServerSelection: two check boxes, and the switches they schedule one     *)
(* second ahead on the main queue.  A ticked box is drawn as an always-on   *)
(* toggle, and it is the appearance of that toggle that schedules a switch: *)
(* after a tap, and again whenever the tab comes back on screen.            *)
(***************************************************************************)
EXTENDS ServerSelection, Sequences

CONSTANT MaxPending   \* bound on the switches scheduled and not yet run

ASSUME MaxPendingAssumption == MaxPending \in Nat

VARIABLES
  publicBox,   \* SettingsView.publicServer
  schoolBox,   \* SettingsView.schoolServer
  pending      \* the scheduled switches, oldest first (all wait one second)

ui      == <<publicBox, schoolBox, pending>>
allVars == <<vars, ui>>

SettingsTypeOK ==
  /\ publicBox \in BOOLEAN
  /\ schoolBox \in BOOLEAN
  /\ pending \in Seq(Servers)
  /\ Len(pending) <= MaxPending

SchoolAvailable == schoolLoc \notin {"publicOnly", "error"}

\* Deviation: a toggle that appears asks for what @AppStorage holds by default.
ToggleAppearsDefault(box, server) ==
  IF /\ box /\ SchoolAvailable
     /\ \/ server = "Public" /\ schoolEnable
        \/ server = "School" /\ ~schoolEnable
  THEN <<"publicOnly">> ELSE <<>>

\* Appearance of the always-on toggles that are drawn: what each schedules.
\* publicToggle and schoolToggle both give up without a school.
ToggleAppears(box, server) ==
  IF /\ box /\ SchoolAvailable
     /\ \/ server = "Public" /\ schoolEnable
        \/ server = "School" /\ ~schoolEnable
  THEN <<server>> ELSE <<>>

Schedule(requests) ==
  /\ pending' = pending \o requests
  /\ Len(pending') <= MaxPending

-----------------------------------------------------------------------------
SettingsAppear ==
  /\ screen = "main"
  /\ Schedule(ToggleAppears(publicBox, "Public") \o ToggleAppears(schoolBox, "School"))
  /\ UNCHANGED <<publicBox, schoolBox, vars>>

TapPublic ==
  /\ screen = "main"
  /\ ~publicBox
  /\ publicBox' = TRUE
  /\ Schedule(ToggleAppears(TRUE, "Public"))
  /\ UNCHANGED <<schoolBox, vars>>

TapSchool ==
  /\ screen = "main"
  /\ SchoolAvailable
  /\ ~schoolBox
  /\ schoolBox' = TRUE
  /\ Schedule(ToggleAppears(TRUE, "School"))
  /\ UNCHANGED <<publicBox, vars>>

\* Deviation: the scheduled switch leaves the other box alone.
RunSwitchOneBox ==
  /\ pending # <<>>
  /\ pending' = Tail(pending)
  /\ \/ Head(pending) = "Public" /\ SwitchToPublic
     \/ Head(pending) = "School" /\ SwitchToSchool
  /\ UNCHANGED <<publicBox, schoolBox>>

\* A scheduled switch runs: it clears the other box and calls Server.
\* switchToSchool returns at once for a user without a school.
RunSwitch ==
  /\ pending # <<>>
  /\ pending' = Tail(pending)
  /\ \/ /\ Head(pending) = "Public"
        /\ schoolBox' = FALSE
        /\ SwitchToPublic
        /\ UNCHANGED publicBox
     \/ /\ Head(pending) = "School"
        /\ publicBox' = FALSE
        /\ \/ SwitchToSchool
           \/ schoolLoc = "publicOnly" /\ UNCHANGED vars
        /\ UNCHANGED schoolBox

\* A new MainView makes a new SettingsView, which takes its boxes from
\* SCHOOL_ENABLE.  Signing in takes longer than the second a switch waits; a
\* restart drops the scheduled switches with the process.
NewSettings ==
  /\ \/ SignInSucceeds /\ pending = <<>>
     \/ Restart
  /\ publicBox' = ~schoolEnable
  /\ schoolBox' = schoolEnable
  /\ pending' = <<>>

Elsewhere ==
  /\ \/ \E s \in Slots : FetchStep(s)
     \/ LoadPostContract
     \/ LoadCommentContract
     \/ HomeAppears
     \/ RequestLink
     \/ OpenLink
     \/ SignInFails
  /\ UNCHANGED ui

LearnsSchool == SchoolFeedAnswer /\ UNCHANGED ui

LeavesMainView == SignOut /\ UNCHANGED ui

SettingsInit ==
  /\ Init
  /\ publicBox = ~schoolEnable
  /\ schoolBox = schoolEnable
  /\ pending = <<>>

SettingsNext ==
  \/ SettingsAppear
  \/ TapPublic
  \/ TapSchool
  \/ RunSwitch
  \/ NewSettings
  \/ Elsewhere
  \/ LearnsSchool
  \/ LeavesMainView

SettingsSpec == SettingsInit /\ [][SettingsNext]_allVars

-----------------------------------------------------------------------------
\* A step of the user who lets what is scheduled run before tapping a box, and whose
\* school is known before the main view opens.  The tab may be left and come back at
\* any time.
Waits ==
  /\ TapPublic \/ TapSchool => pending = <<>>
  /\ feed /\ screen = "main" => feed' \/ UNCHANGED <<schoolLoc, schoolEnable>>

\* The boxes tell which server is on, and only one of them is ticked, whenever no
\* switch is scheduled.
BoxesTellServer ==
  screen = "main" /\ pending = <<>> /\ schoolLoc = "School"
    => /\ schoolBox <=> schoolEnable
       /\ publicBox <=> ~schoolEnable
=============================================================================
