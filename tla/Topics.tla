------------------------------- MODULE Topics --------------------------------
(***************************************************************************)
(* Push notifications of new posts: the topics of Firebase Messaging this   *)
(* device is subscribed to, against the server that is selected.            *)
(*                                                                         *)
(* Class Notifications is made anew for each use and keeps what it needs in *)
(* UserDefaults: the last topic of each kind and whether notifications are  *)
(* on.  It is called by a switch of server, by getSchoolFeed's answer and   *)
(* by the box in the settings; signing out wipes what it keeps.  Messaging  *)
(* applies subscriptions in the order they are asked for.                   *)
(***************************************************************************)
EXTENDS ServerSettings

VARIABLES
  subscriptions,      \* UserDefaults "SubscriptionsContainer"
  notificationsOn,    \* UserDefaults "NOTIFICATIONS_ON"
  postsNotifications, \* SettingsView.postsNotifications, the box
  topics,             \* the topics this device is subscribed to
  waited,             \* has the user of this view waited for switches? (history)
  leftBehind          \* topics a sign-out, or a new school, left subscribed (history)

remembered == <<subscriptions, notificationsOn>>
topicVars  == <<remembered, postsNotifications, topics>>
topicsVars == <<allVars, topicVars, waited, leftBehind>>

\* The topic of a school is its location.  A location that is not set, and a
\* dictionary entry that is absent, both read as "error".
PublicLocation == "PublicLocation"
Topic == {PublicLocation, "School", "error"}

NoSubscriptions == [kind \in Servers |-> "error"]

TopicsTypeOK ==
  /\ SettingsTypeOK
  /\ subscriptions \in [Servers -> Topic]
  /\ notificationsOn \in BOOLEAN
  /\ postsNotifications \in BOOLEAN
  /\ topics \subseteq Topic
  /\ waited \in BOOLEAN
  /\ leftBehind \subseteq topics

-----------------------------------------------------------------------------
(* Notifications.                                                          *)

Kind(location)    == IF location \in {"publicOnly", "Public"} THEN "Public" ELSE "School"
TopicOf(location) == IF Kind(location) = "Public" THEN PublicLocation ELSE location

\* subscribeTo, from the topics that are left.
SubscribeTo(location, left) ==
  /\ subscriptions' = [subscriptions EXCEPT ![Kind(location)] = TopicOf(location)]
  /\ notificationsOn' = TRUE
  /\ topics' = left \cup {TopicOf(location)}

\* resubscribe, with the flags as they are after the step.
Resubscribe(left) == SubscribeTo(IF schoolEnable' THEN schoolLoc' ELSE "Public", left)

\* Deviation: what is given up is the topic of the server the flags name, which
\* after a switch is the new one.
AfterTempUnsubscribeSelected ==
  topics \ {TopicOf(IF schoolEnable' THEN schoolLoc' ELSE "Public")}

\* tempUnsubscribe: unSubscribeFrom both entries; "error" returns early.  The
\* entries themselves stay, since they are removed by a key that is not theirs.
AfterTempUnsubscribe ==
  topics \ ({subscriptions[kind] : kind \in Servers} \ {"error"})

-----------------------------------------------------------------------------
(* The callers.                                                            *)

\* The end of switchToSchool and switchToPublic; both return before it without
\* a school.
SwitchTopics ==
  /\ RunSwitch
  /\ IF schoolLoc # "publicOnly" /\ notificationsOn
     THEN Resubscribe(AfterTempUnsubscribe)
     ELSE /\ topics' = IF schoolLoc # "publicOnly" THEN AfterTempUnsubscribe ELSE topics
          /\ UNCHANGED remembered
  /\ UNCHANGED postsNotifications

\* The box: unSubscribeFromAll, or resubscribe.
NotificationsToggle ==
  /\ screen = "main"
  /\ postsNotifications' = ~postsNotifications
  /\ UNCHANGED allVars
  /\ IF postsNotifications'
     THEN Resubscribe(topics)
     ELSE /\ topics' = AfterTempUnsubscribe
          /\ notificationsOn' = FALSE
          /\ UNCHANGED subscriptions

\* getSchoolFeed's answer subscribes to what it found, also to "publicOnly"; a
\* document that cannot be read changes nothing.
SchoolFeedSubscribes ==
  /\ LearnsSchool
  /\ \/ /\ schoolLoc' = schoolLoc /\ schoolEnable' = schoolEnable
        /\ UNCHANGED <<remembered, topics>>
     \/ /\ \/ schoolLoc' = "publicOnly"
           \/ schoolLoc' = "School" /\ schoolEnable'
        /\ SubscribeTo(schoolLoc', topics)
  /\ UNCHANGED postsNotifications

\* forceSignOut wipes UserDefaults; Messaging is not told.
SignOutForgets ==
  /\ LeavesMainView
  /\ subscriptions' = NoSubscriptions
  /\ notificationsOn' = FALSE
  /\ UNCHANGED <<postsNotifications, topics>>

\* A new SettingsView takes its box from NOTIFICATIONS_ON.
NewBox ==
  /\ NewSettings
  /\ postsNotifications' = notificationsOn
  /\ UNCHANGED <<remembered, topics>>

NoNotifications ==
  /\ \/ SettingsAppear
     \/ TapPublic
     \/ TapSchool
     \/ Elsewhere
  /\ UNCHANGED topicVars

\* A fresh installation, or a user who was subscribed at sign-in and has since
\* switched servers, or turned notifications off, any number of times.
TopicsInit ==
  /\ SettingsInit
  /\ notificationsOn \in BOOLEAN
  /\ postsNotifications = notificationsOn
  /\ topics = IF notificationsOn
              THEN {IF schoolEnable THEN schoolLoc ELSE PublicLocation} ELSE {}
  /\ \/ /\ schoolLoc = "error"
        /\ subscriptions = NoSubscriptions
        /\ ~notificationsOn
     \/ /\ schoolLoc # "error"
        /\ \E kinds \in SUBSET Servers :
             /\ Kind(schoolLoc) \in kinds
             /\ schoolLoc = "publicOnly" => kinds = {"Public"}
             /\ PublicLocation \in topics => "Public" \in kinds
             /\ subscriptions = [kind \in Servers |->
                  IF kind \notin kinds THEN "error"
                  ELSE IF kind = "Public" THEN PublicLocation ELSE schoolLoc]
  /\ waited = TRUE
  /\ leftBehind = {}

TopicsStep ==
  \/ SwitchTopics
  \/ NotificationsToggle
  \/ SchoolFeedSubscribes
  \/ SignOutForgets
  \/ NewBox
  \/ NoNotifications

\* What a sign-out, which wipes the dictionary, and the answer that names another
\* school, which gives nothing up, leave subscribed.
LeftBehind ==
  IF SignOut \/ (SchoolFeedAnswer /\ ~ UNCHANGED <<schoolLoc, schoolEnable>>)
  THEN topics ELSE {}

\* A step of the user who waits, and who is not subscribed under an open view.
WaitsForTopics == Waits /\ (feed /\ screen = "main" => feed' \/ UNCHANGED remembered)

\* A new view reads its boxes anew.
TopicsNext ==
  /\ TopicsStep
  /\ waited' = (NewBox \/ (waited /\ WaitsForTopics))
  /\ leftBehind' = (leftBehind \cup LeftBehind) \cap topics'

TopicsSpec == TopicsInit /\ [][TopicsNext]_topicsVars

-----------------------------------------------------------------------------
\* "Posts Notifications (selected server)" (SettingsView.swift:408): with
\* notifications on, the device is subscribed to the topic of the selected server,
\* and on or off to no other, but for what a sign-out or a new school left behind;
\* through any number of switches, each of which has only the dictionary's entries to
\* give up.  (A switch that outlives a sign-out can set the school's flag without a
\* school; the box then subscribes to a topic of no server.)
TopicsMatch ==
  LET wanted == IF notificationsOn THEN {TopicOf(Selected)} ELSE {}
  IN  (schoolEnable => schoolLoc # "error") =>
        wanted \subseteq topics /\ topics \subseteq wanted \cup leftBehind

\* The boxes of the settings tell which server is on, and whether notifications are,
\* to the user who lets a scheduled switch run before the next tap and whose school is
\* known before the view opens.  The tab may come back on screen while a switch waits,
\* any number of times, and each time the box that was tapped schedules it again.
SettingsTellState ==
  waited => /\ BoxesTellServer
            /\ screen = "main" => postsNotifications = notificationsOn
=============================================================================
