---------------------------- MODULE TopicsProofs -----------------------------
(***************************************************************************)
(* Proofs about Topics and the settings, for any set of slots and any       *)
(* bounds: the topics this device is subscribed to match the selected       *)
(* server, and the boxes tell the user who waits.                           *)
(***************************************************************************)
EXTENDS Topics, ServerSelectionProofs

-----------------------------------------------------------------------------
(* The settings are a user of ServerSelection.                             *)

\* A scheduled switch is a switch, or does nothing.
LEMMA RunSwitchDrives == RunSwitch => Next \/ UNCHANGED vars
BY DEF RunSwitch, Next

\* A new settings view comes with a sign-in or a restart.
LEMMA NewSettingsDrives == NewSettings => Next
BY DEF NewSettings, Next

\* What happens elsewhere is what ServerSelection says happens.
LEMMA ElsewhereDrives == Elsewhere => Next
BY DEF Elsewhere, Next

\* Every step of the settings and their notifications is a step of the servers
\* or leaves them alone.
LEMMA StepDrives == TopicsNext => [Next]_vars
<1> SUFFICES ASSUME TopicsStep PROVE Next \/ UNCHANGED vars
  BY DEF TopicsNext
<1>1. CASE SwitchTopics
  BY <1>1, RunSwitchDrives DEF SwitchTopics
<1>2. CASE NotificationsToggle
  BY <1>2 DEF NotificationsToggle, allVars
<1>3. CASE SchoolFeedSubscribes
  BY <1>3 DEF SchoolFeedSubscribes, LearnsSchool, Next
<1>4. CASE SignOutForgets
  BY <1>4 DEF SignOutForgets, LeavesMainView, Next
<1>5. CASE NewBox
  BY <1>5, NewSettingsDrives DEF NewBox
<1>6. CASE NoNotifications
  BY <1>6, ElsewhereDrives DEF NoNotifications, SettingsAppear, TapPublic, TapSchool
<1> QED
  BY <1>1, <1>2, <1>3, <1>4, <1>5, <1>6 DEF TopicsStep

\* What is proved of ServerSelection may be used here.
LEMMA SettingsDriveServers == TopicsSpec => Spec
<1>1. TopicsInit => Init
  BY DEF TopicsInit, SettingsInit
<1>2. [TopicsNext]_topicsVars => [Next]_vars
  <2> SUFFICES ASSUME [TopicsNext]_topicsVars PROVE [Next]_vars
    OBVIOUS
  <2>1. CASE TopicsNext
    BY <2>1, StepDrives
  <2>2. CASE UNCHANGED topicsVars
    BY <2>2 DEF topicsVars, allVars
  <2> QED
    BY <2>1, <2>2
<1> QED
  BY <1>1, <1>2, PTL DEF TopicsSpec, Spec

-----------------------------------------------------------------------------
(* The topics match.                                                       *)

\* Every entry of the dictionary.
Entries == {subscriptions[kind] : kind \in Servers}

\* What was left behind apart, the dictionary can give up what is subscribed.
Recallable == topics \ leftBehind \subseteq Entries \cup {"error"}

\* The topic of no server comes from the box, and only while the flags name a school
\* that is not known; no switch is scheduled then, since without a school none is in
\* the main view.
Stray ==
  /\ schoolLoc = "error" /\ pending # <<>> => screen # "main" /\ ~notificationsOn
  /\ "error" \in topics \ leftBehind => schoolLoc = "error" /\ schoolEnable /\ pending = <<>>
  /\ schoolLoc = "error" /\ schoolEnable => topics \ leftBehind \subseteq {"error"}

\* TopicsMatch alone is not inductive: a switch takes the old topic away only if
\* the dictionary still has it, and a switch, or the box, subscribes to what the
\* flags name only if they name something.
TopicsInv ==
  /\ notificationsOn \in BOOLEAN
  /\ subscriptions \in [Servers -> Topic]
  /\ TopicsMatch
  /\ Recallable
  /\ Stray

\* What was left behind is so until it is given up.
KeepsLeftBehind == leftBehind \cap topics' \subseteq leftBehind'

\* The topic of the selected server is a real one.
LEMMA SelectedTopic == TypeOK => TopicOf(Selected) # "error"
BY DEF TypeOK, Location, TopicOf, Kind, Selected, PublicLocation

\* When the flags name a server, resubscribe takes the topic of the server that
\* getAPIs asks for.
LEMMA FlagsTopicNext ==
  ASSUME TypeOK', schoolEnable' => schoolLoc' # "error"
  PROVE  TopicOf(IF schoolEnable' THEN schoolLoc' ELSE "Public") = TopicOf(Selected')
BY DEF TypeOK, Location, TopicOf, Kind, Selected, PublicLocation

\* Giving up the dictionary's topics leaves only what was left behind.
LEMMA NothingLeft ==
  ASSUME Recallable, "error" \notin topics \ leftBehind
  PROVE  AfterTempUnsubscribe \subseteq leftBehind
BY DEF AfterTempUnsubscribe, Recallable, Entries

\* Subscribing files the topic under its kind.
LEMMA SubscribedType ==
  ASSUME NEW location \in Location \cup {"Public"}, NEW left,
         subscriptions \in [Servers -> Topic], SubscribeTo(location, left)
  PROVE  /\ subscriptions' \in [Servers -> Topic]
         /\ TopicOf(location) \in Entries'
         /\ notificationsOn' = TRUE
<1>1. Kind(location) \in Servers
  BY DEF Kind, Servers
<1>2. TopicOf(location) \in Topic
  BY DEF TopicOf, Kind, Topic, PublicLocation, Location
<1>3. subscriptions'[Kind(location)] = TopicOf(location)
  BY <1>1 DEF SubscribeTo
<1>4. subscriptions' \in [Servers -> Topic]
  BY <1>1, <1>2 DEF SubscribeTo
<1> QED
  BY <1>1, <1>3, <1>4 DEF SubscribeTo, Entries

\* A step that changes neither the flags nor what Notifications keeps, opens no view
\* with a switch scheduled, and schedules one only with a school.
LEMMA TopicsUntouched ==
  ASSUME TopicsInv, KeepsLeftBehind,
         UNCHANGED <<schoolLoc, schoolEnable, remembered, topics>>,
         pending' # <<>> /\ schoolLoc = "error" =>
           pending # <<>> /\ (screen' = "main" => screen = "main")
  PROVE  TopicsInv'
<1> USE DEF TopicsInv, remembered, KeepsLeftBehind
<1>1. TopicsMatch'
  BY DEF TopicsMatch, Selected, TopicOf, Kind
<1>2. Recallable'
  BY DEF Recallable, Entries
<1>3. Stray'
  BY DEF Stray
<1> QED
  BY <1>1, <1>2, <1>3

\* Taking over the topic of the server the flags name, when nothing else is left but
\* what was left behind, establishes the invariant.
LEMMA TopicsTaken ==
  ASSUME TypeOK', subscriptions \in [Servers -> Topic],
         NEW left, left \subseteq {TopicOf(Selected')} \cup leftBehind', Resubscribe(left),
         schoolEnable' => schoolLoc' # "error", schoolLoc' = "error" => pending' = <<>>
  PROVE  TopicsInv'
<1> DEFINE location == IF schoolEnable' THEN schoolLoc' ELSE "Public"
<1>1. location \in Location \cup {"Public"}
  BY DEF TypeOK
<1>2. SubscribeTo(location, left)
  BY DEF Resubscribe
<1>3. TopicOf(location) = TopicOf(Selected')
  BY FlagsTopicNext
<1> HIDE DEF location
<1>4. topics' = left \cup {TopicOf(Selected')}
  BY <1>2, <1>3 DEF SubscribeTo
<1>5. /\ subscriptions' \in [Servers -> Topic]
      /\ TopicOf(location) \in Entries'
      /\ notificationsOn' = TRUE
  BY <1>1, <1>2, SubscribedType
<1>6. TopicsMatch'
  BY <1>4, <1>5 DEF TopicsMatch, TopicOf, Kind, Selected, PublicLocation
<1>7. Recallable'
  BY <1>3, <1>4, <1>5 DEF Recallable
<1>8. Stray'
  <2>1. TopicOf(Selected') # "error"
    BY DEF TypeOK, Location, TopicOf, Kind, Selected, PublicLocation
  <2> QED
    BY <1>4, <2>1 DEF Stray
<1> QED
  BY <1>5, <1>6, <1>7, <1>8 DEF TopicsInv

-----------------------------------------------------------------------------
(* Each step keeps the topics matched.                                      *)

\* What Notifications keeps is well formed after every step.
LEMMA RememberedType ==
  ASSUME TypeOK, TypeOK', TopicsInv, TopicsStep
  PROVE  notificationsOn' \in BOOLEAN /\ subscriptions' \in [Servers -> Topic]
<1> USE DEF TopicsInv
<1>1. ASSUME NEW left, Resubscribe(left)
      PROVE  notificationsOn' \in BOOLEAN /\ subscriptions' \in [Servers -> Topic]
  <2> DEFINE location == IF schoolEnable' THEN schoolLoc' ELSE "Public"
  <2>1. location \in Location \cup {"Public"}
    BY DEF TypeOK
  <2>2. SubscribeTo(location, left)
    BY <1>1 DEF Resubscribe
  <2> HIDE DEF location
  <2> QED
    BY <2>1, <2>2, SubscribedType
<1>2. CASE SwitchTopics
  BY <1>1, <1>2 DEF SwitchTopics, remembered
<1>3. CASE NotificationsToggle
  BY <1>1, <1>3 DEF NotificationsToggle
<1>4. CASE SchoolFeedSubscribes
  <2>1. schoolLoc' \in Location
    BY DEF TypeOK
  <2> QED
    BY <1>4, <2>1, SubscribedType DEF SchoolFeedSubscribes, remembered
<1>5. CASE SignOutForgets
  BY <1>5 DEF SignOutForgets, NoSubscriptions, Topic
<1>6. CASE NewBox \/ NoNotifications
  BY <1>6 DEF NewBox, NoNotifications, topicVars, remembered
<1> QED
  BY <1>2, <1>3, <1>4, <1>5, <1>6 DEF TopicsStep

\* A switch gives up what was subscribed and takes the selected topic, or leaves
\* the user without a school on the public one.
LEMMA SwitchMatches ==
  ASSUME TypeOK, TypeOK', TopicsInv, KeepsLeftBehind, SwitchTopics
  PROVE  TopicsInv'
<1> USE DEF TopicsInv
<1>1. UNCHANGED <<schoolLoc, screen>> /\ pending # <<>>
  BY DEF SwitchTopics, RunSwitch, SwitchToPublic, SwitchToSchool, Reload, vars, flags, account
<1>2. "error" \notin topics \ leftBehind
  BY <1>1 DEF Stray
<1>3. AfterTempUnsubscribe \subseteq leftBehind
  BY <1>2, NothingLeft
<1>4. CASE schoolLoc # "publicOnly" /\ notificationsOn
  <2>1. schoolLoc' # "error"
    BY <1>1, <1>4 DEF Stray
  <2>2. Resubscribe(AfterTempUnsubscribe)
    BY <1>4 DEF SwitchTopics
  <2>3. AfterTempUnsubscribe \subseteq leftBehind'
    BY <1>3, <2>2 DEF Resubscribe, SubscribeTo, KeepsLeftBehind
  <2> QED
    BY <2>1, <2>2, <2>3, TopicsTaken
<1>5. CASE schoolLoc = "publicOnly"
  <2>1. UNCHANGED <<remembered, topics>>
    BY <1>5 DEF SwitchTopics
  <2>2. TopicsMatch'
    BY <1>1, <1>5, <2>1 DEF TopicsMatch, Selected, remembered, KeepsLeftBehind
  <2> QED
    BY <1>1, <1>2, <1>5, <2>1, <2>2 DEF Recallable, Stray, Entries, remembered, KeepsLeftBehind
<1>6. CASE schoolLoc # "publicOnly" /\ ~notificationsOn
  <2>1. UNCHANGED remembered /\ topics' \subseteq leftBehind'
    BY <1>3, <1>6 DEF SwitchTopics, KeepsLeftBehind
  <2>2. pending' # <<>> => pending # <<>>
    BY <1>1
  <2> QED
    BY <1>1, <1>6, <2>1, <2>2 DEF TopicsMatch, Recallable, Stray, remembered
<1> QED
  BY <1>4, <1>5, <1>6

\* The box gives up all, or takes the selected topic; under the flags of a school
\* that is not known it takes the topic of no server.
LEMMA ToggleMatches ==
  ASSUME TypeOK, TypeOK', TopicsInv, KeepsLeftBehind, NotificationsToggle
  PROVE  TopicsInv'
<1> USE DEF TopicsInv
<1>1. UNCHANGED <<schoolLoc, schoolEnable, pending, screen>> /\ screen = "main"
  BY DEF NotificationsToggle, allVars, vars, flags, account, ui
<1>2. schoolLoc = "error" => pending = <<>>
  BY <1>1 DEF Stray
<1>3. CASE postsNotifications' /\ (schoolEnable => schoolLoc # "error")
  <2>1. Resubscribe(topics)
    BY <1>3 DEF NotificationsToggle
  <2>2. topics \subseteq topics'
    BY <2>1 DEF Resubscribe, SubscribeTo
  <2>3. topics \subseteq {TopicOf(Selected')} \cup leftBehind'
    BY <1>1, <1>3, <2>2 DEF TopicsMatch, Selected, KeepsLeftBehind
  <2> QED
    BY <1>1, <1>2, <1>3, <2>1, <2>3, TopicsTaken
<1>4. CASE postsNotifications' /\ schoolEnable /\ schoolLoc = "error"
  <2>1. SubscribeTo("error", topics)
    BY <1>1, <1>4 DEF NotificationsToggle, Resubscribe
  <2>2. subscriptions' \in [Servers -> Topic] /\ notificationsOn' = TRUE
    BY <2>1, SubscribedType DEF Location
  <2>3. topics' = topics \cup {"error"}
    BY <2>1 DEF SubscribeTo, TopicOf, Kind
  <2>4. topics' \ leftBehind' \subseteq {"error"}
    BY <1>4, <2>3 DEF Stray, KeepsLeftBehind
  <2> QED
    BY <1>1, <1>2, <1>4, <2>2, <2>4 DEF TopicsMatch, Recallable, Stray
<1>5. CASE ~postsNotifications'
  <2>1. topics' = AfterTempUnsubscribe /\ notificationsOn' = FALSE /\ UNCHANGED subscriptions
    BY <1>5 DEF NotificationsToggle
  <2>2. topics' \subseteq topics
    BY <2>1 DEF AfterTempUnsubscribe
  <2>3. topics' \ leftBehind' \subseteq topics \ leftBehind
    BY <2>2 DEF KeepsLeftBehind
  <2>4. Recallable' /\ Stray'
    BY <1>1, <1>2, <2>1, <2>3 DEF Recallable, Stray, Entries
  <2>5. TopicsMatch'
    <3>1. (schoolEnable => schoolLoc # "error") => topics' \subseteq leftBehind
      BY <2>1, NothingLeft DEF Stray
    <3> QED
      BY <1>1, <2>1, <3>1 DEF TopicsMatch, KeepsLeftBehind
  <2> QED
    BY <2>1, <2>4, <2>5
<1> QED
  BY <1>3, <1>4, <1>5

\* getSchoolFeed's answer subscribes to what it found, and leaves what there was if
\* that is another school.
LEMMA SchoolFeedMatches ==
  ASSUME TypeOK, TypeOK', TopicsInv, KeepsLeftBehind, SchoolFeedSubscribes,
         leftBehind' = (leftBehind \cup LeftBehind) \cap topics'
  PROVE  TopicsInv'
<1>1. SchoolFeedAnswer /\ UNCHANGED <<pending, screen>>
  BY DEF SchoolFeedSubscribes, LearnsSchool, SchoolFeedAnswer, ui
<1>2. CASE UNCHANGED <<schoolLoc, schoolEnable, remembered, topics>>
  BY <1>1, <1>2, TopicsUntouched
<1>3. CASE /\ schoolLoc' = "publicOnly" \/ (schoolLoc' = "School" /\ schoolEnable')
           /\ SubscribeTo(schoolLoc', topics)
  <2>1. /\ schoolLoc' # "error"
        /\ Resubscribe(topics) \/ (schoolLoc' = "publicOnly" /\ SubscribeTo("publicOnly", topics))
    BY <1>3 DEF Resubscribe
  <2>2. TopicOf(schoolLoc') = TopicOf(Selected') /\ schoolLoc' \in Location
    BY <1>3 DEF TopicOf, Kind, Selected, PublicLocation, Location
  <2>3. topics' = topics \cup {TopicOf(Selected')}
    BY <1>3, <2>2 DEF SubscribeTo
  <2>4. /\ subscriptions' \in [Servers -> Topic] /\ notificationsOn' = TRUE
        /\ TopicOf(Selected') \in Entries'
    BY <1>3, <2>2, SubscribedType DEF TopicsInv
  <2>5. topics \subseteq {TopicOf(Selected')} \cup leftBehind'
    <3>1. CASE UNCHANGED <<schoolLoc, schoolEnable>>
      BY <2>1, <2>3, <3>1 DEF TopicsInv, TopicsMatch, Selected, KeepsLeftBehind
    <3>2. CASE ~ UNCHANGED <<schoolLoc, schoolEnable>>
      BY <1>1, <2>3, <3>2 DEF LeftBehind
    <3> QED
      BY <3>1, <3>2
  <2>6. TopicOf(Selected') # "error"
    BY <1>3 DEF TopicOf, Kind, Selected, PublicLocation
  <2>7. TopicsMatch'
    BY <2>3, <2>4, <2>5 DEF TopicsMatch, TopicOf, Kind, Selected, PublicLocation
  <2>8. Recallable' /\ Stray'
    BY <2>1, <2>3, <2>4, <2>5, <2>6 DEF Recallable, Stray
  <2> QED
    BY <2>4, <2>7, <2>8 DEF TopicsInv
<1> QED
  BY <1>2, <1>3 DEF SchoolFeedSubscribes

\* Whoever signs out leaves everything behind.
LEMMA SignOutMatches ==
  ASSUME TopicsInv, SignOutForgets, leftBehind' = (leftBehind \cup LeftBehind) \cap topics'
  PROVE  TopicsInv'
<1>1. SignOut /\ topics' = topics
  BY DEF SignOutForgets, LeavesMainView
<1>2. topics' \subseteq leftBehind'
  BY <1>1 DEF LeftBehind
<1>3. /\ schoolEnable' = FALSE /\ screen' = "login"
      /\ notificationsOn' = FALSE /\ subscriptions' = NoSubscriptions
  BY <1>1 DEF SignOutForgets, SignOut
<1>4. TopicsMatch' /\ Recallable' /\ Stray'
  BY <1>2, <1>3 DEF TopicsMatch, Recallable, Stray
<1> QED
  BY <1>3, <1>4 DEF TopicsInv, NoSubscriptions, Topic

\* A new view takes its boxes and drops what was scheduled.
LEMMA NewBoxMatches ==
  ASSUME TopicsInv, KeepsLeftBehind, NewBox
  PROVE  TopicsInv'
<1>1. UNCHANGED <<schoolLoc, schoolEnable, remembered, topics>> /\ pending' = <<>>
  BY DEF NewBox, NewSettings, SignInSucceeds, Restart, flags
<1> QED
  BY <1>1, TopicsUntouched

\* An appearance or a tap schedules a switch only for a user with a school.
LEMMA OthersMatch ==
  ASSUME TopicsInv, KeepsLeftBehind, NoNotifications
  PROVE  TopicsInv'
<1>1. UNCHANGED <<remembered, topics>>
  BY DEF NoNotifications, topicVars
<1>2. CASE Elsewhere
  <2>1. UNCHANGED <<schoolLoc, schoolEnable, pending>> /\ (screen' = "main" => screen = "main")
    BY <1>2 DEF Elsewhere, ui, FetchStep, RunBlock, LocationAnswer, ApiAnswer, Notify,
       LoadPostContract, LoadCommentContract, HomeAppears, RequestLink, OpenLink,
       SignInFails, flags, account
  <2> QED
    BY <1>1, <2>1, TopicsUntouched
<1>3. CASE SettingsAppear \/ TapPublic \/ TapSchool
  <2>1. UNCHANGED <<schoolLoc, schoolEnable, screen>> /\ screen = "main"
    BY <1>3 DEF SettingsAppear, TapPublic, TapSchool, vars, flags, account
  <2>2. schoolLoc = "error" => pending' = <<>>
    <3> SUFFICES ASSUME schoolLoc = "error" PROVE pending' = <<>>
      OBVIOUS
    <3>1. ~SchoolAvailable
      BY DEF SchoolAvailable
    <3>2. pending = <<>>
      BY <2>1 DEF TopicsInv, Stray
    <3>3. pending' = pending \o <<>> \/ pending' = pending \o (<<>> \o <<>>)
      BY <1>3, <3>1 DEF SettingsAppear, TapPublic, TapSchool, Schedule, ToggleAppears
    <3> QED
      BY <3>2, <3>3
  <2> QED
    BY <1>1, <2>1, <2>2, TopicsUntouched
<1> QED
  BY <1>2, <1>3 DEF NoNotifications

\* The invariant holds of a fresh installation and of a user who returns.
LEMMA TopicsBegin == TopicsInit => TopicsInv
<1> SUFFICES ASSUME TopicsInit PROVE TopicsInv
  OBVIOUS
<1> USE DEF TopicsInit, SettingsInit
<1>1. Init
  OBVIOUS
<1>2. schoolLoc = "error" => ~schoolEnable
  BY <1>1 DEF Init, FreshInstall, ReturningUser
<1>3. schoolLoc \in Location /\ schoolEnable \in BOOLEAN
  BY <1>1 DEF Init, FreshInstall, ReturningUser, Location
<1>4. schoolEnable => schoolLoc = "School"
  BY <1>1 DEF Init, FreshInstall, ReturningUser
<1>5. TopicsMatch
  BY <1>2, <1>3, <1>4
     DEF TopicsMatch, Selected, TopicOf, Kind, Location, PublicLocation
<1>6. CASE schoolLoc = "error"
  BY <1>2, <1>5, <1>6 DEF TopicsInv, Recallable, Stray, Entries, NoSubscriptions, Topic, PublicLocation
<1>7. CASE schoolLoc # "error"
  <2>1. PICK kinds \in SUBSET Servers :
             /\ Kind(schoolLoc) \in kinds
             /\ schoolLoc = "publicOnly" => kinds = {"Public"}
             /\ PublicLocation \in topics => "Public" \in kinds
             /\ subscriptions = [kind \in Servers |->
                  IF kind \notin kinds THEN "error"
                  ELSE IF kind = "Public" THEN PublicLocation ELSE schoolLoc]
    BY <1>7
  <2>2. subscriptions \in [Servers -> Topic]
    <3>1. schoolLoc = "School" \/ "School" \notin kinds
      BY <1>3, <1>7, <2>1 DEF Location
    <3> QED
      BY <2>1, <3>1 DEF Servers, Topic
  <2>3. topics \subseteq {subscriptions[kind] : kind \in Servers}
    <3>1. topics \subseteq {PublicLocation, "School"}
      BY <1>4
    <3>2. PublicLocation \in topics => subscriptions["Public"] = PublicLocation
      BY <2>1 DEF Servers
    <3>3. "School" \in topics => subscriptions["School"] = "School"
      <4>1. "School" \in topics => schoolLoc = "School"
        BY <1>4 DEF PublicLocation
      <4> QED
        BY <2>1, <4>1 DEF Servers, Kind
    <3> QED
      BY <3>1, <3>2, <3>3 DEF Servers
  <2>4. "error" \notin topics
    BY <1>4 DEF PublicLocation
  <2>5. Recallable /\ Stray
    BY <1>7, <2>3, <2>4 DEF Recallable, Stray, Entries
  <2> QED
    BY <1>5, <2>2, <2>5 DEF TopicsInv
<1> QED
  BY <1>6, <1>7

\* The invariant is inductive, with the types of the servers.
LEMMA TopicsInvHolds == TopicsSpec => []TopicsInv
<1>1. TopicsInit => TopicsInv
  BY TopicsBegin
<1>2. ASSUME TypeOK, TypeOK', TopicsInv, [TopicsNext]_topicsVars
      PROVE  TopicsInv'
  <2>1. CASE TopicsNext
    <3>1. /\ TopicsStep
          /\ leftBehind' = (leftBehind \cup LeftBehind) \cap topics'
      BY <2>1 DEF TopicsNext
    <3>2. KeepsLeftBehind
      BY <3>1 DEF KeepsLeftBehind
    <3> QED
      BY <1>2, <3>1, <3>2, SwitchMatches, ToggleMatches, SchoolFeedMatches, SignOutMatches,
         NewBoxMatches, OthersMatch DEF TopicsStep
  <2>2. CASE UNCHANGED topicsVars
    <3>1. /\ UNCHANGED <<schoolLoc, schoolEnable, remembered, topics, pending, screen>>
          /\ KeepsLeftBehind
      BY <2>2 DEF topicsVars, allVars, vars, flags, account, ui, topicVars, KeepsLeftBehind
    <3> QED
      BY <1>2, <3>1, TopicsUntouched
  <2> QED
    BY <1>2, <2>1, <2>2
<1>3. TopicsSpec => []TypeOK
  BY SettingsDriveServers, TypeCorrect
<1> QED
  BY <1>1, <1>2, <1>3, PTL DEF TopicsSpec

\* What a sign-out or a new school left behind apart, the device is subscribed to the
\* topic of the selected server with notifications on, and to no other on or off:
\* through switches, the box, restarts and sign-outs, while the flags name a server.
THEOREM TopicsAlwaysMatch == TopicsSpec => []TopicsMatch
<1>1. TopicsInv => TopicsMatch
  BY DEF TopicsInv
<1> QED
  BY <1>1, TopicsInvHolds, PTL

-----------------------------------------------------------------------------
(* Type correctness of the settings and their notifications.               *)

\* The two boxes, the box of the notifications and what is scheduled.
BoxesTypeOK ==
  /\ SettingsTypeOK
  /\ postsNotifications \in BOOLEAN

\* Scheduling appends known servers, up to the bound.
LEMMA ScheduleType ==
  ASSUME SettingsTypeOK, NEW requests \in Seq(Servers), Schedule(requests)
  PROVE  pending' \in Seq(Servers) /\ Len(pending') <= MaxPending
BY DEF SettingsTypeOK, Schedule

\* What the appearance of a toggle schedules is the switch to its server.
LEMMA ToggleType ==
  ASSUME NEW box, NEW server \in Servers
  PROVE  ToggleAppears(box, server) \in Seq(Servers)
BY DEF ToggleAppears

\* Every step leaves the boxes well formed.
LEMMA BoxesStep ==
  ASSUME TypeOK, TypeOK', BoxesTypeOK, notificationsOn \in BOOLEAN, TopicsStep
  PROVE  BoxesTypeOK'
<1> USE DEF BoxesTypeOK
<1>1. CASE SwitchTopics
  <2>1. /\ pending # <<>> /\ pending' = Tail(pending)
        /\ schoolBox' \in {schoolBox, FALSE} /\ publicBox' \in {publicBox, FALSE}
        /\ UNCHANGED postsNotifications
    BY <1>1 DEF SwitchTopics, RunSwitch
  <2>2. pending' \in Seq(Servers) /\ Len(pending') <= Len(pending)
    BY <2>1 DEF SettingsTypeOK
  <2>3. Len(pending') <= MaxPending
    BY <2>2, MaxPendingAssumption DEF SettingsTypeOK
  <2> QED
    BY <2>1, <2>2, <2>3 DEF SettingsTypeOK
<1>2. CASE NotificationsToggle
  BY <1>2 DEF NotificationsToggle, allVars, ui, SettingsTypeOK
<1>3. CASE SchoolFeedSubscribes
  BY <1>3 DEF SchoolFeedSubscribes, LearnsSchool, ui, SettingsTypeOK
<1>4. CASE SignOutForgets
  BY <1>4 DEF SignOutForgets, LeavesMainView, ui, SettingsTypeOK
<1>5. CASE NewBox
  <2>1. schoolEnable' \in BOOLEAN /\ schoolEnable \in BOOLEAN
    BY DEF TypeOK
  <2>2. pending' = <<>> /\ publicBox' \in BOOLEAN /\ schoolBox' \in BOOLEAN
        /\ postsNotifications' \in BOOLEAN
    BY <1>5, <2>1 DEF NewBox, NewSettings
  <2> QED
    BY <2>2, MaxPendingAssumption DEF SettingsTypeOK
<1>6. CASE NoNotifications
  <2>1. UNCHANGED postsNotifications
    BY <1>6 DEF NoNotifications, topicVars
  <2>2. CASE Elsewhere
    BY <2>1, <2>2 DEF Elsewhere, ui, SettingsTypeOK
  <2>3. CASE SettingsAppear
    <3>1. ToggleAppears(publicBox, "Public") \o ToggleAppears(schoolBox, "School") \in Seq(Servers)
      BY ToggleType DEF Servers
    <3>2. pending' \in Seq(Servers) /\ Len(pending') <= MaxPending
      BY <2>3, <3>1, ScheduleType DEF SettingsAppear
    <3> QED
      BY <2>1, <2>3, <3>2 DEF SettingsAppear, SettingsTypeOK
  <2>4. CASE TapPublic
    <3>1. ToggleAppears(TRUE, "Public") \in Seq(Servers)
      BY ToggleType DEF Servers
    <3>2. pending' \in Seq(Servers) /\ Len(pending') <= MaxPending
      BY <2>4, <3>1, ScheduleType DEF TapPublic
    <3> QED
      BY <2>1, <2>4, <3>2 DEF TapPublic, SettingsTypeOK
  <2>5. CASE TapSchool
    <3>1. ToggleAppears(TRUE, "School") \in Seq(Servers)
      BY ToggleType DEF Servers
    <3>2. pending' \in Seq(Servers) /\ Len(pending') <= MaxPending
      BY <2>5, <3>1, ScheduleType DEF TapSchool
    <3> QED
      BY <2>1, <2>5, <3>2 DEF TapSchool, SettingsTypeOK
  <2> QED
    BY <1>6, <2>2, <2>3, <2>4, <2>5 DEF NoNotifications
<1> QED
  BY <1>1, <1>2, <1>3, <1>4, <1>5, <1>6 DEF TopicsStep

\* The topics are the school's, the public one or "error".
LEMMA TopicsStepType ==
  ASSUME TypeOK', topics \subseteq Topic, TopicsStep
  PROVE  topics' \subseteq Topic
<1>1. schoolLoc' \in Location
  BY DEF TypeOK
<1>2. \A location \in Location \cup {"Public"} : TopicOf(location) \in Topic
  BY DEF TopicOf, Kind, Topic, PublicLocation, Location
<1>3. AfterTempUnsubscribe \subseteq topics
  BY DEF AfterTempUnsubscribe
<1>4. \A left : left \subseteq Topic /\ Resubscribe(left) => topics' \subseteq Topic
  BY <1>1, <1>2 DEF Resubscribe, SubscribeTo
<1>5. CASE SwitchTopics
  BY <1>3, <1>4, <1>5 DEF SwitchTopics
<1>6. CASE NotificationsToggle
  BY <1>3, <1>4, <1>6 DEF NotificationsToggle
<1>7. CASE SchoolFeedSubscribes
  BY <1>1, <1>2, <1>7 DEF SchoolFeedSubscribes, SubscribeTo
<1>8. CASE SignOutForgets \/ NewBox \/ NoNotifications
  BY <1>8 DEF SignOutForgets, NewBox, NoNotifications, topicVars
<1> QED
  BY <1>5, <1>6, <1>7, <1>8 DEF TopicsStep

\* WaitsForTopics is a formula, and what was left behind is still subscribed.
LEMMA HistoriesType ==
  ASSUME waited \in BOOLEAN, TopicsNext
  PROVE  waited' \in BOOLEAN /\ leftBehind' \subseteq topics'
<1>1. waited' = (NewBox \/ (waited /\ WaitsForTopics))
  BY DEF TopicsNext
<1>2. leftBehind' = (leftBehind \cup LeftBehind) \cap topics'
  BY DEF TopicsNext
<1> QED
  BY <1>1, <1>2

\* Boxes, scheduled switches, dictionary and topics stay well formed, and no more
\* switches are scheduled than the bound allows.
THEOREM TopicsTypeCorrect == TopicsSpec => []TopicsTypeOK
<1>1. TopicsInit => TopicsTypeOK
  <2> SUFFICES ASSUME TopicsInit PROVE TopicsTypeOK
    OBVIOUS
  <2>1. schoolEnable \in BOOLEAN /\ (schoolEnable => schoolLoc = "School")
    BY DEF TopicsInit, SettingsInit, Init, FreshInstall, ReturningUser
  <2>2. SettingsTypeOK
    BY <2>1, MaxPendingAssumption DEF TopicsInit, SettingsInit, SettingsTypeOK
  <2>3. topics \subseteq Topic
    BY <2>1 DEF TopicsInit, Topic, PublicLocation
  <2>4. subscriptions \in [Servers -> Topic]
    BY TopicsBegin DEF TopicsInv
  <2> QED
    BY <2>2, <2>3, <2>4 DEF TopicsInit, TopicsTypeOK
<1>2. ASSUME TypeOK, TypeOK', TopicsInv, TopicsTypeOK, [TopicsNext]_topicsVars
      PROVE  TopicsTypeOK'
  <2>1. CASE TopicsNext
    <3>1. TopicsStep
      BY <2>1 DEF TopicsNext
    <3>2. BoxesTypeOK /\ notificationsOn \in BOOLEAN /\ topics \subseteq Topic
          /\ waited \in BOOLEAN
      BY <1>2 DEF TopicsTypeOK, BoxesTypeOK
    <3>3. BoxesTypeOK' /\ topics' \subseteq Topic
      BY <1>2, <3>1, <3>2, BoxesStep, TopicsStepType
    <3>4. waited' \in BOOLEAN /\ leftBehind' \subseteq topics'
      BY <2>1, <3>2, HistoriesType
    <3>5. notificationsOn' \in BOOLEAN /\ subscriptions' \in [Servers -> Topic]
      BY <1>2, <3>1, RememberedType
    <3> QED
      BY <3>3, <3>4, <3>5 DEF TopicsTypeOK, BoxesTypeOK
  <2>2. CASE UNCHANGED topicsVars
    BY <1>2, <2>2 DEF topicsVars, allVars, ui, topicVars, remembered, TopicsTypeOK,
       SettingsTypeOK
  <2> QED
    BY <1>2, <2>1, <2>2
<1>3. TopicsSpec => []TypeOK
  BY SettingsDriveServers, TypeCorrect
<1>4. TopicsSpec => []TopicsInv
  BY TopicsInvHolds
<1> QED
  BY <1>1, <1>2, <1>3, <1>4, PTL DEF TopicsSpec

-----------------------------------------------------------------------------
(* The boxes of the settings tell the user who waits.                      *)

\* With a school, either the boxes show the server, and what is left of the scheduled
\* switches is to it, or both boxes are ticked and every scheduled switch is to the
\* server that is not on.
On  == IF schoolEnable THEN "School" ELSE "Public"
Off == IF schoolEnable THEN "Public" ELSE "School"

BoxesShow ==
  \/ /\ pending \in Seq({On})
     /\ schoolBox = schoolEnable /\ publicBox = ~schoolEnable
  \/ /\ pending \in Seq({Off}) /\ pending # <<>>
     /\ publicBox = TRUE /\ schoolBox = TRUE

\* SettingsTellState alone is not inductive: nothing in it says which boxes are
\* ticked while a switch is scheduled, nor that without a school none is.
BoxesInv ==
  waited /\ screen = "main" =>
    /\ postsNotifications = notificationsOn
    /\ schoolLoc # "School" => pending = <<>>
    /\ schoolLoc = "School" => BoxesShow

\* What the boxes are compared with, and the boxes, are left alone.
LEMMA BoxesUntouched ==
  ASSUME BoxesInv, UNCHANGED <<ui, schoolLoc, schoolEnable, postsNotifications, notificationsOn>>,
         screen' = "main" => screen = "main", waited' => waited
  PROVE  BoxesInv'
BY DEF BoxesInv, BoxesShow, On, Off, ui

\* One switch runs of those scheduled.
LEMMA OneFewer ==
  ASSUME NEW S, NEW queue \in Seq(S), queue # <<>>
  PROVE  Head(queue) \in S /\ Tail(queue) \in Seq(S)
OBVIOUS

\* One switch more is scheduled.
LEMMA OneMore ==
  ASSUME NEW S, NEW queue \in Seq(S), NEW server \in S
  PROVE  queue \o <<server>> \in Seq(S) /\ queue \o <<server>> # <<>>
OBVIOUS

\* A scheduled switch runs: it unticks the box of the server that goes off, and what
\* is left is to the server that is on.
LEMMA SwitchShows ==
  ASSUME TypeOK, notificationsOn \in BOOLEAN, BoxesInv, waited, screen' = "main", SwitchTopics
  PROVE  BoxesInv'
<1>1. UNCHANGED <<schoolLoc, screen>>
  BY DEF SwitchTopics, RunSwitch, SwitchToPublic, SwitchToSchool, Reload, vars, flags, account
<1>2. schoolLoc = "School" /\ BoxesShow /\ postsNotifications = notificationsOn
  BY <1>1 DEF BoxesInv, SwitchTopics, RunSwitch
<1>3. schoolEnable \in BOOLEAN
  BY DEF TypeOK
<1>4. RunSwitch /\ UNCHANGED <<postsNotifications, notificationsOn>>
  BY DEF SwitchTopics, remembered, Resubscribe, SubscribeTo
<1>5. pending # <<>> /\ pending' = Tail(pending)
  BY <1>4 DEF RunSwitch
<1>6. PICK server \in {"Public", "School"} : /\ pending \in Seq({server}) /\ Head(pending) = server
                               /\ (server = On \/ (publicBox = TRUE /\ schoolBox = TRUE))
  BY <1>2, <1>5, OneFewer DEF BoxesShow, On, Off
<1>7. pending' \in Seq({server})
  BY <1>5, <1>6, OneFewer
<1>8. CASE server = "Public"
  <2>1. schoolEnable' = FALSE /\ schoolBox' = FALSE /\ publicBox' = publicBox
    BY <1>4, <1>5, <1>6, <1>8 DEF RunSwitch, SwitchToPublic
  <2>2. publicBox = TRUE
    BY <1>2, <1>3, <1>6, <1>8 DEF BoxesShow, On, Off
  <2> QED
    BY <1>1, <1>2, <1>4, <1>7, <1>8, <2>1, <2>2 DEF BoxesInv, BoxesShow, On
<1>9. CASE server = "School"
  <2>1. schoolEnable' = TRUE /\ publicBox' = FALSE /\ schoolBox' = schoolBox
    BY <1>2, <1>4, <1>6, <1>9 DEF RunSwitch, SwitchToSchool
  <2>2. schoolBox = TRUE
    BY <1>2, <1>3, <1>6, <1>9 DEF BoxesShow, On, Off
  <2> QED
    BY <1>1, <1>2, <1>4, <1>7, <1>9, <2>1, <2>2 DEF BoxesInv, BoxesShow, On
<1> QED
  BY <1>8, <1>9

\* What the tab schedules when it comes on screen.
LEMMA AppearShows ==
  ASSUME TypeOK, BoxesInv, waited, SettingsAppear,
         UNCHANGED <<postsNotifications, notificationsOn>>
  PROVE  BoxesInv'
<1>1. /\ UNCHANGED <<schoolLoc, schoolEnable, screen, publicBox, schoolBox>> /\ screen = "main"
      /\ pending' = pending \o (ToggleAppears(publicBox, "Public")
                                \o ToggleAppears(schoolBox, "School"))
  BY DEF SettingsAppear, Schedule, vars, flags, account
<1>2. postsNotifications = notificationsOn /\ schoolEnable \in BOOLEAN
  BY <1>1 DEF BoxesInv, TypeOK
<1>3. CASE schoolLoc # "School"
  <2>1. ~SchoolAvailable /\ pending = <<>>
    BY <1>1, <1>3 DEF SchoolAvailable, TypeOK, Location, BoxesInv
  <2>2. pending' = <<>> \o (<<>> \o <<>>)
    BY <1>1, <2>1 DEF ToggleAppears
  <2> QED
    BY <1>1, <1>2, <1>3, <2>2 DEF BoxesInv
<1>4. CASE schoolLoc = "School"
  <2>1. BoxesShow
    BY <1>1, <1>4 DEF BoxesInv
  <2>2. CASE pending \in Seq({On}) /\ schoolBox = schoolEnable /\ publicBox = ~schoolEnable
    <3>1. pending' = pending \o (<<>> \o <<>>)
      BY <1>1, <1>2, <2>2 DEF ToggleAppears
    <3>2. pending' \in Seq({On})
      BY <2>2, <3>1
    <3> QED
      BY <1>1, <1>2, <1>4, <2>2, <3>2 DEF BoxesInv, BoxesShow, On
  <2>3. CASE /\ pending \in Seq({Off}) /\ pending # <<>>
             /\ publicBox = TRUE /\ schoolBox = TRUE
    <3>1. /\ ToggleAppears(publicBox, "Public") \o ToggleAppears(schoolBox, "School")
               \in {<<Off>> \o <<>>, <<>> \o <<Off>>}
      BY <1>2, <1>4, <2>3 DEF ToggleAppears, SchoolAvailable, Off
    <3>2. <<Off>> \o <<>> = <<Off>> /\ <<>> \o <<Off>> = <<Off>>
      OBVIOUS
    <3>3. pending' \in Seq({Off}) /\ pending' # <<>>
      BY <1>1, <2>3, <3>1, <3>2, OneMore
    <3> QED
      BY <1>1, <1>2, <1>4, <2>3, <3>3 DEF BoxesInv, BoxesShow, Off
  <2> QED
    BY <2>1, <2>2, <2>3 DEF BoxesShow
<1> QED
  BY <1>3, <1>4

\* The user who waits taps with nothing scheduled.
LEMMA TapShows ==
  ASSUME TypeOK, BoxesInv, waited, Waits, TapPublic \/ TapSchool,
         UNCHANGED <<postsNotifications, notificationsOn>>
  PROVE  BoxesInv'
<1>1. /\ UNCHANGED <<schoolLoc, schoolEnable, screen>> /\ screen = "main"
      /\ pending = <<>>
  BY DEF TapPublic, TapSchool, vars, flags, account, Waits
<1>2. postsNotifications = notificationsOn /\ schoolEnable \in BOOLEAN
  BY <1>1 DEF BoxesInv, TypeOK
<1>3. CASE schoolLoc # "School"
  <2>1. ~SchoolAvailable
    BY <1>3 DEF SchoolAvailable, TypeOK, Location
  <2>2. pending' = <<>> \o <<>>
    BY <1>1, <2>1 DEF TapPublic, TapSchool, Schedule, ToggleAppears
  <2> QED
    BY <1>1, <1>2, <1>3, <2>2 DEF BoxesInv
<1>4. CASE schoolLoc = "School"
  <2>1. schoolBox = schoolEnable /\ publicBox = ~schoolEnable
    BY <1>1, <1>4 DEF BoxesInv, BoxesShow
  <2>2. CASE TapPublic
    <3>1. schoolEnable /\ schoolBox = TRUE /\ publicBox' = TRUE /\ schoolBox' = schoolBox
      BY <1>2, <2>1, <2>2 DEF TapPublic
    <3>2. pending' = <<>> \o <<"Public">>
      BY <1>1, <1>4, <2>2, <3>1 DEF TapPublic, Schedule, ToggleAppears, SchoolAvailable
    <3>3. pending' \in Seq({"Public"}) /\ pending' # <<>>
      BY <3>2, OneMore
    <3> QED
      BY <1>1, <1>2, <1>4, <3>1, <3>3 DEF BoxesInv, BoxesShow, Off
  <2>3. CASE TapSchool
    <3>1. ~schoolEnable /\ publicBox = TRUE /\ schoolBox' = TRUE /\ publicBox' = publicBox
      BY <1>2, <2>1, <2>3 DEF TapSchool
    <3>2. pending' = <<>> \o <<"School">>
      BY <1>1, <1>4, <2>3, <3>1 DEF TapSchool, Schedule, ToggleAppears, SchoolAvailable
    <3>3. pending' \in Seq({"School"}) /\ pending' # <<>>
      BY <3>2, OneMore
    <3> QED
      BY <1>1, <1>2, <1>4, <3>1, <3>3 DEF BoxesInv, BoxesShow, Off
  <2> QED
    BY <2>2, <2>3
<1> QED
  BY <1>3, <1>4

\* The answer about the school comes before the main view opens, or says nothing
\* new.
LEMMA SchoolFeedShows ==
  ASSUME BoxesInv, waited, WaitsForTopics, SchoolFeedSubscribes
  PROVE  BoxesInv'
<1>1. UNCHANGED <<ui, screen, postsNotifications>> /\ feed /\ feed' = FALSE
  BY DEF SchoolFeedSubscribes, LearnsSchool, SchoolFeedAnswer
<1>2. screen = "main" => UNCHANGED <<schoolLoc, schoolEnable, remembered>>
  BY <1>1 DEF WaitsForTopics, Waits
<1> QED
  BY <1>1, <1>2 DEF BoxesInv, BoxesShow, On, Off, ui, remembered

\* A new view takes all its boxes from what is stored.
LEMMA NewBoxShows ==
  ASSUME TypeOK, NewBox
  PROVE  BoxesInv'
<1>1. UNCHANGED <<schoolLoc, schoolEnable, remembered>>
  BY DEF NewBox, NewSettings, SignInSucceeds, Restart, flags
<1>2. /\ pending' = <<>> /\ publicBox' = ~schoolEnable /\ schoolBox' = schoolEnable
      /\ postsNotifications' = notificationsOn
  BY DEF NewBox, NewSettings
<1> QED
  BY <1>1, <1>2 DEF BoxesInv, BoxesShow, On, Off, remembered

\* Nothing that happens elsewhere opens a main view or touches a box.
LEMMA ElsewhereShows ==
  ASSUME BoxesInv, waited, Elsewhere, UNCHANGED topicVars
  PROVE  BoxesInv'
<1>1. UNCHANGED <<ui, schoolLoc, schoolEnable>> /\ (screen' = "main" => screen = "main")
  BY DEF Elsewhere, FetchStep, RunBlock, LocationAnswer, ApiAnswer, Notify,
     LoadPostContract, LoadCommentContract, HomeAppears, RequestLink, OpenLink,
     SignInFails, flags, account
<1> QED
  BY <1>1, BoxesUntouched DEF topicVars, remembered

\* For a user who lets what is scheduled run before the next tap, and whose school is
\* known before the main view opens, the settings tell which server is on, whether
\* notifications are, and tick one box only, however often the tab comes back on
\* screen while a switch waits.
THEOREM SettingsAlwaysTell == TopicsSpec => []SettingsTellState
<1>1. TopicsInit => BoxesInv
  BY DEF TopicsInit, SettingsInit, BoxesInv, BoxesShow, On
<1>2. ASSUME TypeOK, TopicsTypeOK, BoxesInv, [TopicsNext]_topicsVars
      PROVE  BoxesInv'
  <2>1. CASE UNCHANGED topicsVars
    BY <1>2, <2>1, BoxesUntouched
       DEF topicsVars, allVars, vars, flags, account, topicVars, remembered
  <2>2. CASE TopicsNext
    <3> SUFFICES ASSUME waited', screen' = "main" PROVE BoxesInv'
      BY DEF BoxesInv
    <3>1. TopicsStep /\ (NewBox \/ (waited /\ WaitsForTopics /\ Waits))
      BY <2>2 DEF TopicsNext, WaitsForTopics
    <3> SUFFICES ASSUME ~NewBox PROVE BoxesInv'
      BY <1>2, NewBoxShows
    <3>2. CASE NotificationsToggle
      <4>1. UNCHANGED <<ui, schoolLoc, schoolEnable, screen>>
        BY <3>2 DEF NotificationsToggle, allVars, vars, flags, account
      <4>2. notificationsOn' = postsNotifications'
        BY <1>2, <3>2 DEF NotificationsToggle, Resubscribe, SubscribeTo, TopicsTypeOK
      <4> QED
        BY <1>2, <3>1, <4>1, <4>2 DEF BoxesInv, BoxesShow, On, Off, ui
    <3>3. CASE SignOutForgets
      BY <3>3 DEF SignOutForgets, LeavesMainView, SignOut
    <3>4. CASE NoNotifications
      <4>1. UNCHANGED topicVars
        BY <3>4 DEF NoNotifications
      <4>2. UNCHANGED <<postsNotifications, notificationsOn>>
        BY <4>1 DEF topicVars, remembered
      <4> QED
        BY <1>2, <3>1, <3>4, <4>1, <4>2, TapShows, AppearShows, ElsewhereShows DEF NoNotifications
    <3>5. CASE SwitchTopics
      <4>1. notificationsOn \in BOOLEAN
        BY <1>2 DEF TopicsTypeOK
      <4> QED
        BY <1>2, <3>1, <3>5, <4>1, SwitchShows
    <3> QED
      BY <1>2, <3>1, <3>2, <3>3, <3>4, <3>5, SchoolFeedShows DEF TopicsStep
  <2> QED
    BY <1>2, <2>1, <2>2
<1>3. BoxesInv => SettingsTellState
  <2> SUFFICES ASSUME BoxesInv, waited, screen = "main"
               PROVE  BoxesTellServer /\ postsNotifications = notificationsOn
    BY DEF SettingsTellState, BoxesTellServer
  <2>1. ASSUME pending = <<>>, schoolLoc = "School"
        PROVE  schoolBox = schoolEnable /\ publicBox = ~schoolEnable
    BY <2>1 DEF BoxesInv, BoxesShow
  <2>2. BoxesTellServer
    BY <2>1, Zenon DEF BoxesTellServer
  <2> QED
    BY <2>2 DEF BoxesInv
<1>4. TopicsSpec => []TypeOK
  BY SettingsDriveServers, TypeCorrect
<1>5. TopicsSpec => []TopicsTypeOK
  BY TopicsTypeCorrect
<1> QED
  BY <1>1, <1>2, <1>3, <1>4, <1>5, PTL DEF TopicsSpec
=============================================================================
