# A TLA+ model of dVox for iOS

dVox lets students post anonymously to a smart contract on an Ethereum test
network. The application is a SwiftUI client (`src/dVox/dVox`, about 6,400 lines
of Swift); the post contract, Firestore and Firebase Auth are outside the
repository. There are no tests and no design document: the code, its comments,
the strings it shows and `src/README.md` are the reference. This directory holds
TLA+ modules translated from that code, the TLC configurations that check them
and proofs checked by TLAPS.

The hard part of this program is not computation. It is many small handlers that
share global state (UserDefaults, the keychain, two published arrays) and meet
in orders nobody chose: blocks posted to the main queue, 0.1-second polling
timers, one-second delays, background threads, network answers, views that
appear again, process restarts.

## 1. Inventory

File names are relative to `src/dVox/dVox`; `C/` stands for `Components/`.

| Component | Code | State | Operations | What makes it correct |
|---|---|---|---|---|
| Server selection | `APIs.swift`, `SmartContract.swift` (init), `C/Other/Server.swift`, `MainView.swift` | three keychain items, `SCHOOL_LOCATION`, `SCHOOL_ENABLE`, `READY_TO_LOAD`, `SERVER_CHANGING`, two `SmartContract` objects | `getAPIs`, `saveKey`, `resetAPIs`, `switchToSchool`, `switchToPublic`, `reloadIfNeeded`, the polling timer | the feed comes from the selected server; the keychain names the contract in use; loading ends |
| Sign-in and start-up | `SceneDelegate.swift`, `LoginView.swift` | the signed-in user, `Email`, the root view | links, `getSchoolFeed`, restart, `forceSignOut` | a late answer does not leave the feed on the wrong server |
| Servers in the settings | `C/SettingsView/SettingsView.swift` | three boxes, switches scheduled a second ahead | appearance of a toggle, a tap, a scheduled switch | the boxes tell which server is on, and whether notifications are |
| Post feed | `C/HomeView/PostLoader2.swift`, `HomeView2.swift`, `PersistenceController.swift`, `C/Other/Ban*.swift` | `posts`, `items`, `noMorePosts`, hides and blocks, pages under way | pages, refresh, hide, block, resets | no duplicate, no hole, the end is the end, nothing hidden is shown |
| Nicknames | `Username.swift`, `C/ProfileView` | the name shown, the one kept, the registry in Firestore | generate, confirm, abort | the name kept is recorded as taken, the candidate as reserved, and neither is given to another |
| Comments | `C/HomeView/CommentLoader.swift`, `CommentView.swift` | `allComments`, `tempComments`, `noMoreComments` | pages, refresh, send | what was read is shown, the end is the end, a refresh ends; a comment is shown as it was sent |
| Votes | `C/VotesBlock.swift`, `VotesContainer.swift` | the vote each row shows, the votes kept, the timers that count them | up, down, take back | what is kept, counted and shown agree |
| Notification topics | `C/Other/Notifications.swift` | topic dictionary, `NOTIFICATIONS_ON` | subscribe, tempUnsubscribe, resubscribe, the box, sign-out | subscribed exactly to the selected server |
| Composing | `C/ComposeView`, `SmartContract.createPost` | the text fields, the pop-up, posts that wait for a contract | type, post, confirm | a post goes out whole, as asked and no more often; the hashtag keeps its form |

Interactions. `SettingsView` calls `Server`, which writes UserDefaults and the
keychain and replaces the contract object of `PostLoader2`. Every `SmartContract`
object and every page polls for state another component will set. `BanContainer`,
`BanAuthorContainer` and `VotesContainer` file their data under the contract
address in the keychain, while posts are read from the contract object.
`HomeView2` learns of a switch from `SERVER_CHANGED` when it appears.

What is left aside: `src/dVox/Pods` (third-party code), `AppDelegate.swift`
(push-token plumbing) and the views without state of their own (`ShimmerPost`,
`ShimmerComment`, `CustomTabView`, `PostList`, `CardView`, `PostView`,
`ScrumsView`).

## 2. Modules

| Module | Role |
|---|---|
| `ServerSelection` | which server the application talks to, with sign-in, sign-out and restarts |
| `SelectedServer` | what that promises the reader of the feed: `Select` and `Reveal` |
| `ServerSelectionProofs` | theorems about `ServerSelection`, and that it implements `SelectedServer` |
| `ServerSettings` | the settings view that drives `ServerSelection`; extends it |
| `Topics` | the notification topics around switches, sign-in and sign-out; extends `ServerSettings` |
| `TopicsProofs` | theorems about `Topics` and the boxes |
| `PostFeed` | pages, list, hides and blocks of one server |
| `PostFeedProofs` | theorems about `PostFeed` |
| `Nicknames` | names between the devices that share the registry |
| `NicknamesProofs` | theorems about `Nicknames` |
| `Comments`, `CommentsProofs` | the comment list of one post, and theorems about it |
| `Votes`, `VotesProofs` | votes kept, counted and shown on one device, and theorems about them |
| `TextLimiter` | the limiter of the hashtag, as a function from a text to what may become of it |
| `Sending`, `SendingProofs` | sending a post and sending a comment, and theorems about both; extends `TextLimiter` |
| `MCServerSelection`, `MCTopics`, `MCPostFeed`, `MCNicknames`, `MCVotes` | instances for TLC |

Operators marked *Deviation* in a comment state a plausible mistake (a forgotten
flag, a wrong start of a page, an array emptied too early) and are used nowhere:
putting one in the place of the definition below it makes the property named for
it in `PROJECT.json` fail, which shows that the property depends on that code.

### ServerSelection

A `getAPIs` call is a *slot* with a stage: `queued` (its block is on the main
queue), `location` and `api` (waiting for one of the two Firestore documents),
`notify` (its group was left). Everything else runs on the main queue, so each
handler is one step:

* `RunBlock` reads the three flags when the block runs, not when it was posted.
* `LocationAnswer` gives an address, or leaves the literal `"Public"` of
  `APIs.swift:30` (`Placeholder`) when the document cannot be read.
* `ApiAnswer` stores the answer, or `"error"`. `Saved` is `SecItemAdd`, which
  refuses an item that exists: this is where a late answer and a repeated
  look-up meet.
* `LoadPostContract`, `LoadCommentContract` are the timers of `SmartContract`.
* `SwitchToSchool`, `SwitchToPublic` share `Reload`: two calls queued (one by
  `Server`, one by the new `SmartContract`), keys deleted, the post loader's
  contract replaced. The comment loader's is not: the flag it reads is spelled
  differently where it is set.
* `OpenLink`, `SignInSucceeds`, `SignInFails`, `SchoolFeedAnswer` are
  `handleDeepLink` and its two answers, in either order; `SignOut` wipes
  UserDefaults and leaves keychain, contract objects and calls alone; `Restart`
  ends calls and objects and keeps what is persistent.

The keychain outlives a removed application, so `FreshInstall` starts from any
keychain. Three items that are only written and deleted together are one
variable. Credentials and the Infura address carry no choice and are left out.
`SERVER_CHANGED` only matters to the home view, and is a variable of `PostFeed`.

`ServerSelection` and `Topics` are composed: one behaviour has both. `Votes` and
`Sending` see the server from outside, as an address that a switch takes away and
a look-up brings, or a contract that loads.

### ServerSettings

A ticked box is drawn as another toggle than an empty one, and the *appearance*
of that toggle calls `publicToggle` or `schoolToggle`, which change the servers
one second later. `pending` is the sequence of switches that are scheduled; as
all wait one second, they run in order. A fresh `MainView` makes fresh boxes.
`schoolLoc`'s default in this view is `"publicOnly"`, not `"error"`; both mean
that no school is offered.

### Topics

A `Notifications` object is made for each use; what lasts is the dictionary with
the last topic of each kind and the flag `NOTIFICATIONS_ON`. `SwitchTopics` is the
whole of a scheduled switch: `tempUnsubscribe`, then the servers' step, then
`resubscribe`. `SchoolFeedSubscribes` is `getSchoolFeed`'s answer,
`NotificationsToggle` the box, `SignOutForgets` the sign-out, which wipes the
dictionary and leaves the topics. `unSubscribeFrom` removes entries by the topic
and not by the kind they are filed under, so they stay: `AfterTempUnsubscribe`
gives up every topic the dictionary names and leaves the dictionary alone.

Two histories go with it: `leftBehind`, the topics that a sign-out, or the answer
that names another school, left subscribed and that are subscribed still; and
`waited`, which says of the view on screen that its user waited (`Waits`) and that no
answer of `getSchoolFeed` came under it; a new view starts anew.
`TopicsInit` has the dictionaries that any number of switches leave.

### PostFeed

A page of `PostLoader2.loadMore` is a *job*: `timer` (waiting for
`contract.loaded`), `count` (`getPostCount`), `read` (the background thread reads
one post after the other and posts a block for each, kept in `waiting`, without
waiting for it), `flush` (all is read; the last block is on the main queue).
Jobs overlap freely and share `gathered` (`PostLoader2.posts`). The list and the
saved `Item`s are emptied and refilled together; `items` stands for both, as a
number of copies of each post, since the list is sorted by number.

`GetPost` answers as `SmartContract.getPost`: a hidden post or a blocked title
come back as post -1, and a post banned by the server with its number. A call that
fails leaves the number and an *empty title*, which is looked up among the blocked
ones like any other: the row is shown without text (`unread` counts those rows),
and blocking it (`BlockAuthor`) stores the empty title, after which every post
whose read fails is answered as post -1. Hiding works on any row, by its number.
`PullToRefresh` schedules `RefreshFires` one second ahead, which may find the list
emptied, reloaded, or the view at another offset. `LastRowAppears` may happen again and again, as
SwiftUI's `onAppear` does.

Not in the model: the vote correction of lines 86-90, which changes the number a
row shows; the report of a post (an unconditional write to Firestore), the text of
posts, and a change of server under a running page.

### Nicknames

The registry is a function from fields, a document's animal with an adjective
and number, to absent, `false` (*reserved*) or `true` (*taken*). Each of
`generateUsername`, `usernameConfirm` and `usernameAbort` starts a *chain* in its
device: a block on the main queue (`queue`) picks the document of the animal shown
*then*, Firestore reads it (`stage = "read"`), and the answer's handler takes the
adjective and number shown when *it* runs and writes the field. The Username object
is shared, so a chain under way sees what later taps and other chains show. A
confirm ends with the block of `group.notify`, which keeps the name.

`Cancel` shows the old name in the same step that queues the abort's block, as
lines 221-223 do. A document that does not exist or cannot be read is the same to
the code; `Readable` says which of the two answers can come. Firestore applies a
device's writes in order and lets the device read them before that (`Seen`); they
survive a restart (`Exit`, `Launch`), as does `kept`.

Not in the model: the avatar, which is kept beside the name; the text
"Retrieving" before the first block; a second `Username` made by signing in again
without a restart, whose predecessor's chains would go on.

### Comments

A call of `CommentLoader.loadMore` is a *page*: `asked` (its timer waits) or
`reading` (the background thread reads from the newest down to `end`). Pages
overlap and share `temp`; the one that shows it reverses and clears what all of them
put there. `Top` is the place a page begins, two below the last row: as a page is
shown oldest first, the last row is the *newest* of its page, and each page reads
all but one or two of the last one's comments again. `LastRowAppears` asks for as
long a list as `MaxRows` allows, for duplicates make it grow.

A row whose comment could not be read, or that was added by this user's own send,
has id -1 in the code and `NoId` here; a page asked for from it begins at the
contract's number of comments. `PostUnread` is `getPost` failing, which leaves the
page where it is asked, and `CommentUnread` one comment failing. The refresh has
the fields of the `Refresh` record; whether the list is at its top is all that is
kept of its offsets.

`calm` is a history variable: it stays true while no read fails, no page is asked for
and no refresh pulled while a page is under way, no page is asked for under a
refresh, the list is not scrolled during its second, and the first page is not cut by
a `commentsNumber` older than the contract's. An own comment leaves it true. Without
it the end is not one: what it excludes can leave a comment out.

Banned comments are any. Two things follow from runs of them, for every user:
`NextPage - 1` in a row, read as all of a page but its oldest, make the next page
begin two below that oldest one, and the comment between is left out for good
(`LeftOut`); `NextPage` in a row can be a page that adds no row, and is asked for
again and again (`BannedWhole`). The properties of the end except these, and the
bound of the run has a case of the first.

### Votes

`Tap` is the whole handler: it changes the block's vote, the container's
dictionary, UserDefaults (`Keep`) and the profile's statistics at once, and starts
one timer, or two when a vote turns. `TimerFires` counts in Firestore, under the
address the keychain holds *then*. Each `HomeView2` made anew has a container of
its own with a copy of the dictionary, and writes the whole of it
(`NewHomeView`); the rows keep the container they were made with.

A timer without an interval fires on the next pass of the run loop, and the blocks
that are then on the main queue are run before it fires again. The counter of a
document that does not exist is left out (Firestore refuses the update and the code
only prints that), and so are the numbers shown, which hold other users' votes.

### Sending

Composing and commenting share no state of the code but the contract, so a
behaviour is of one of the two *views*, which keeps it small without losing an
interleaving. The difference that matters: a post's text is captured at the tap,
a comment's is read from the field when the timer fires, and again when the row is
added. `CreatePost` is the check, the capture and the timer; `PostTimerFires` the
contract's answer, the emptied fields and, when it was stored, the thread of
`sendNotification`, which looks up the selected server when it runs
(`NoticeSent`). `CommentTimerFires`, `CommentThread` and `CommentBlock` are the
three blocks of `addComment`. A double tap asks for two posts, and of a comment
sends two and shows the second as an empty row; both are in the model.

`TextLimiter.Limited` is the set of results of the hashtag's `didSet`, which
assigns the property it observes. A direct assignment in `didSet` does not call the
observer again, one through a property wrapper may: both results are allowed. A
hashtag that the sender's block emptied comes back as `"#"`, so that the check for
an empty hashtag passes from then on. The limit is the parameter `HashtagLimit`, 15
in the code.

The servers are two, as a switch goes from one to the other. History variables:
`asked` counts what was asked for, by server and text; `calm` stays true while no
server is switched as a post or its notice waits, `oneByOne` while nothing is
typed or tapped as a comment waits. What is said of numbers and texts, summed over
the servers (`Total`), needs neither.

## 3. What the runs check

| Configuration | Specification, bounds | Checks |
|---|---|---|
| `ServerSelection.cfg` | `FairSpec`; 3 slots, 1 user step | `TypeOK`, `KeychainNamesFeed`, `RefreshKeepsKeys`, `ContractSettles`, `ChangeFlagClears` |
| `PatientUser.cfg` | `PatientSpec`; 3 slots, 3 user steps | `SelectedServerShown`, `ImplementsSelectedServer` |
| `Topics.cfg` | `TopicsSpec`; 2 slots, 2 user steps, 2 scheduled switches | `TopicsTypeOK`, `TopicsMatch`, `SettingsTellState` |
| `PostFeed.cfg` | `FairSpec`; 2 pages, 4 posts, 2 user steps, reads may fail | `TypeOK`, `PagesAtPosts`, `GatheredIsShown`, `PagesEnd` |
| `CalmFeed.cfg` | `CalmSpec`; 2 pages, 5 posts, 6 user steps, reads may fail | `NoDuplicates`, `NoGaps`, `EndMeansEnd`, `OnlyVisibleEnters` |
| `NamingEnds.cfg` | `FairSpec`; 1 device, 2 chains, 6 names, 2 user steps, reads may fail | `TypeOK`, `ChainsEnd` |
| `PatientNaming.cfg` | `PatientSpec`; 2 devices, 6 names of which one is another user's, 3 user steps | `KeptIsTaken`, `CandidateIsReserved`, `NamesAreNotLost` |
| `Votes.cfg` | `PresentSpec`; 2 posts, 2 servers, 2 containers, 6 user steps | `TypeOK`, `KeptIsCounted`, `BlocksTellVotes`, `PostsUpvoted` |
| `Comments.cfg` | `Spec`; pages of 4 and 3, 6 comments of which 5 and 6 are banned, 2 pages, 11 rows, 1 send, failure or refresh | `TypeOK`, `TempIsShown`, `EndIsSeen`, `EndMeansEnd`, `EndIsReached`, `CalmRefreshEnds` |
| `Sending.cfg` | `Spec`; 2 servers, 2 texts, a hashtag of 2, 5 user steps | `TypeOK`, `HashtagIsTag`, `PostsAreAsked`, `NoticesTellPosts`, `CommentIsShownAsSent`, `PostsAreTried` |

What they show:

* **KeychainNamesFeed.** Hides, blocks and votes are filed under the keychain's
  address, so a loaded contract must be the one the keychain names. It is, in
  every interleaving, because keys are never overwritten (`SecItemAdd` fails) and
  are deleted only in the steps that also replace the contract object.
* **RefreshKeepsKeys.** The same refusal makes the home tab's repeated look-ups
  harmless: whatever they bring back, working keys stay.
* **ContractSettles**, **ChangeFlagClears.** No contract object polls for ever and
  `SERVER_CHANGING` does not stay on, with two exceptions the code has and the
  formulas name: a stored `"error"` is never repaired by a later answer, and at
  the login view `READY_TO_LOAD` is off.
* **SelectedServerShown** does not hold of everybody: change the selection while
  a call is waiting for Firestore and the old address wins. It holds of the
  *patient* user, whose selection changes only when no call has read the old one
  (and not, as by a late `getSchoolFeed` answer, under a main view that keeps its
  keys). For that user the whole exchange is `Select` and `Reveal`
  (**ImplementsSelectedServer**).
* **SettingsTellState.** For a user who lets a scheduled switch run before the next
  tap of a box, and whose school is known before the main view opens, exactly the
  box of the server that is on is ticked (`BoxesTellServer`) whenever no switch is
  scheduled, and the box of the notifications is their flag. The settings may appear
  meanwhile as often as they like, and each time the box that was tapped schedules its
  switch again: the duplicates agree with the first. The two conditions are needed. A late answer of
  `getSchoolFeed` leaves boxes that say Public over a selected school, and the next
  appearance of the settings undoes the selection; and after a duplicate, a tap of the
  other box can be undone by it and leave both boxes off. They are the history
  variable `waited`, so that one run covers this user and all others.
* **TopicsMatch.** With notifications on, the device is subscribed to the topic of the
  selected server, and on or off to no other, however the switches fall: the topics a
  switch gives up are those of a dictionary that is never cleaned, which happens to be
  enough. A sign-out wipes that dictionary and an answer that names another school
  gives nothing up; the topics they leave are `leftBehind` and excepted, and stay, as
  the code has it. It says nothing while the flags name a school that is not set, after a
  switch that was scheduled before a sign-out ran after it.
* **PagesAtPosts**, **PagesEnd**, **GatheredIsShown.** Whatever pages overlap and
  whatever reads fail, a page reads only posts that exist, ends, and what was
  gathered is shown by somebody's flush. That pages end assumes that the contract
  loads, that is, that no `"error"` is stored.
* **NoDuplicates**, **NoGaps**, **EndMeansEnd**, **OnlyVisibleEnters** are the
  correctness of paging for a user who lets a page or a refresh finish before the
  next step, also when reads fail. Others get duplicates and holes: a refresh during a
  page empties the list under it, and no comment promises otherwise. `NoGaps` and
  `EndMeansEnd` speak of a list that is `Whole`: the hides or blocks were not just reset,
  and the empty title of an unread row is not blocked, since then a read that fails
  does leave a hole. `OnlyVisibleEnters` is about the rows with a text.
* **ChainsEnd**, and with `TypeOK` that writes go only to documents that exist:
  though chains see each other's names, and two that retry change each other's
  candidate, each ends, with a name or with "Again_Try_404".
* **KeptIsTaken**, **CandidateIsReserved**, **NamesAreNotLost** are the purpose of
  the registry. They hold of users who take turns, whose first candidate is free
  (`FreeAtFirst`), who do not cancel and can read the registry. Each condition is
  needed: without turns two devices take the same name, since the look-up and the
  write are not one transaction; the others are among the disagreements below.
* **KeptIsCounted**, **BlocksTellVotes**, **PostsUpvoted.** For a user who votes on
  rows of the present `HomeView2`, while the keys of their server are there, and
  lets a vote be counted before switching: each kept vote is counted once or about
  to be, each row shows it, and the profile's number is that of the kept votes.
  Each condition is needed.
* **TempIsShown**, **EndIsSeen** hold of everybody: whatever pages overlap, a
  comment that was read stays in `tempComments` until it is in the list, none is left
  there once no page is under way, and the list claims its end only with the first
  comment in it, on the way, or banned. **EndMeansEnd** needs the calm user: the pages
  that begin two below leave nothing out but the comments of `LeftOut`.
  **EndIsReached** and **CalmRefreshEnds**: that user, scrolling on, comes to the end
  although each page repeats most of the last one, unless a page is banned whole, and
  sees every refresh end.
* **HashtagIsTag**, **PostsAreTried** hold of every user: whatever is typed and
  when, the hashtag keeps its form, and no post waits for ever, if contracts load: a
  stored `"error"` (see `ContractSettles`) would keep one waiting. **PostsAreAsked**,
  **NoticesTellPosts**: of every user, posts go out with the text they were asked for
  with, no more often than that, and each stored one is announced once; of the user
  who makes no switch while one waits, on the server and to the readers they were for.
  Otherwise post and notice follow the switch, each to the server that is on when its
  turn comes. **CommentIsShownAsSent** needs the user who waits for the row.

Two configurations expect a violation; each states what a comment or the
README says and shows a behaviour of the code that contradicts it.

| Configuration | Says | Shows |
|---|---|---|
| `CommentsOfThePost.cfg` | each post has "a section for comments" | after a switch, posts of one server over comments of the other |
| `NameAfterCancel.cfg` | "Username creation is aborted!" | the record of the name that is kept is deleted, the candidate's stays |

More texts disagree with the code in behaviours the models have, without a
configuration of their own:

* `HomeView2.swift:656` "1 - Block the author": line 673 stores the row's *title*;
  the author's other posts return, and posts of others with that title do not.
* `Username.swift:161` "name exists! trying again...": on the first run the name
  that exists was kept at line 80 before the registry answered, and stays kept.
* `CommentView.swift:105` (and `HomeView2.swift:122`) "checking if invalid becomes
  valid....": the condition needs `released` to be false, which the lines before
  have just set; a refresh found invalid at line 253 shows its spinner for ever.
* `ProfileView.swift:119` "Posts upvoted: ": `VotesContainer.swift:24` writes one
  container's whole dictionary; a vote on a row of an earlier `HomeView2` erases
  the votes kept since, which can then be given, and counted, again.
* `APIs.swift:161` "Saves specific key to specific location": `saveKey` drops an
  answer that comes second.
* `APIs.swift:123` "All keys are recieved succesfully.": printed also with the
  literal `"Public"` in place of an address, when the Locations document cannot be
  read.
* `Username.swift:258` "Username creation is confirmed!": printed, and the name
  kept, also when it could not be recorded.
* `ComposeView.swift` shows "Your post is sent!" and counts the post for the
  profile before the contract has answered, also when it then fails.

### Bounds

* *Slots.* Opening the main view and a switch queue two calls each and the home
  tab one more. Three slots let a switch meet one late call.
* *MaxActs* bounds what the user starts (switches, links, sign-outs, restarts,
  returns to the tab); Firestore's answers, timers and queued blocks are unbounded.
  One lets a switch, a link, a sign-out or a restart meet every stage of the calls
  of the main view's start, which is free; three let the patient user's selection
  go back and forth. What one step leaves of the safety of `Spec` is proved below
  for any number of steps and slots.
* *MaxPending* 2 lets a second switch be scheduled before the first runs. With it
  and two user steps, a switch, a sign-out and a late school answer meet in
  `Topics`, where two slots are enough: topics do not depend on look-ups.
* *Votes.* Six steps let a vote be given, turned and taken back on one post around a
  vote on the other, with a switch; two containers are the present one and an
  earlier one. The theorems hold for any.
* *Comments.* A first page of 4 and next pages of 3 over 6 comments give a page that
  meets the first, one that stops at 1 and one cut by it; comments 5 and 6 are banned:
  the newest of a page, and with a page of 3 the case that leaves comment 3 out
  (`EndMeansEnd` without `LeftOut` fails in this run). Two pages give every pairwise
  overlap; 11 rows are what the shown duplicates need to reach the end.
* *Sending.* A limit of 2 is the least that has a sign and a character to cut; texts
  up to 3 characters are typed or pasted, one beyond the limit; the lemma about the
  limiter is of any length. Five steps: two posts, an edit between them, and a
  switch, or two comments and an edit.
* *Posts and pages.* Pages of 2 and 4 or 5 posts make a first page, a next page
  that ends before post 1 and one that ends at it; two jobs give every pairwise
  overlap. The code's 12 and 8 are parameters; the theorems hold for any.
* *Names.* Two animals, so that a chain's document and the animal shown differ; three
  adjectives and numbers, so that one is free after the launch and a confirm. Two
  chains of one device already change each other's names; two devices meet only
  through the registry, where one chain each is enough for users who take turns.
* *Failing reads* are in both runs of the feed; in the calm one they are why an unread
  row can be blocked.
* *Symmetry* of slots and jobs is used only in runs without liveness.
* `CHECK_DEADLOCK FALSE` throughout: the number of user steps is bounded, and an
  application whose user does nothing rests.

### Fairness

Weak fairness of each look-up's steps (main-queue blocks run; Firestore answers or
fails), of the polling timers, of Firebase's answer to a sign-in and to
`getSchoolFeed`, and of the first appearance of the home tab after the main view
is made. In the feed: the contract loads and a page's own steps (that it loads is what
`ContractSettles` gives but for a stored `"error"`; `PagesEnd` and `PostsAreTried` are
of users who have none). In naming: queued
blocks run, Firestore answers and applies its writes, and the random candidate of
a retry is not for ever one whose adjective and number exist in some document
(`Luck`, which a random choice satisfies with probability one while the thousands of them
are far from used up). In the comments: a page's own steps, the second of a refresh,
and the user who scrolls on, who sees the last row again when it does not move
(weak) and goes back to the top time and again (strong; scrolling away undoes it).
In sending: a contract loads and the timers of posts fire. Nothing is assumed of users, switches, refreshes or other
users' posts.

## 4. What is proved

For every value of the constants that satisfies the named assumptions (at least
two slots; natural bounds; positive page sizes, of comments at least two and the
first page no smaller than the others).

`ServerSelectionProofs`

* `TypeCorrect`: `Spec => []TypeOK`.
* `KeychainFeed`: `Spec => []KeychainNamesFeed`. The invariant is inductive given
  the types: a step either leaves keys and contract alone, deletes both, loads the
  contract from the keys, or saves into an empty keychain, when the contract is
  not loaded.
* `KeysKept`: `Spec => RefreshKeepsKeys`, an action property, from the types.
* `SelectedShown`: `PatientSpec => []SelectedServerShown`. The strengthening is
  `PatientInv`: no call in flight carries, and under the main view no keychain
  holds, a server other than the selected one. With `KeychainNamesFeed` it gives
  the property; it is inductive because a change of selection needs that no call
  has read the old one.
* `FeedImplementsSelectedServer`: `PatientSpec => ImplementsSelectedServer`, the
  refinement, with `Selected` and `Shown` in place of the abstract variables.
  Every step maps to `Select`, `Reveal` or a stutter.

`PostFeedProofs`

* `TypeCorrect`, `PagesReadPosts`: from `FeedInv`. The types alone are not
  inductive: that a page's number stays above 0 needs that a reading page has a
  post left (`PageOK`), and that what waits for the main queue and what is in the
  list are posts that exist (`ListInv`).
* `CalmListHasNoDuplicates`: `CalmSpec => []NoDuplicates`, from `CalmInv`: one page
  at a time, and that page only has posts left below every row and below all that
  has gathered.
* `CalmListHasNoGaps`, `CalmEndMeansEnd`: `CalmSpec => []NoGaps`, `[]EndMeansEnd`, with
  failing reads. Both speak of a list that is `Whole` and of the end at rest; `WholeInv` says what a page under way owes it. A
  page that goes down begins at a row that is there (`FromRow`); above what it has
  not yet appended nothing that may be shown is missing (`PageWhole`); what waits
  for the main queue waits as a post if it may be shown (`WaitingTrue`); and the
  end is set only by a page with nothing left below (`EndSeen`).
* `CalmOnlyVisibleEnters`: the action property, from the same invariant. A post whose
  read failed is appended whatever it is, but without its text.

`NicknamesProofs`

* `NicknamesTypeCorrect`: `Spec => []TypeOK`, of everybody, with chains that
  overlap. `NamingInv` adds that a chain runs, and a user decides, only where the
  device shows a name: a write is of the name shown.
* `PatientKeptIsTaken`, `PatientCandidateIsReserved`, `PatientNamesAreNotLost`:
  `PatientSpec =>` the purpose of the registry, if documents can be read
  (`~ReadFails`, without which a confirm goes on unrecorded), for any number of
  devices and names. `PatientSpec` is of users who take turns, whose first candidate is
  free and who do not cancel; `NameAfterCancel.cfg` shows the last to be needed. The first two are about devices at rest. `PatientInv` says where the one device at work is: `First`, `Trying`,
  `Reserving`, `Confirming`, `Confirmed` or `Recording`, each with its chain, its
  block or write on the way, and the record of the name shown; the others are at
  rest (`Rest`), with the name kept taken and the candidate reserved and their own.

`TopicsProofs`

* `TopicsTypeCorrect`: `TopicsSpec => []TopicsTypeOK`.
* `TopicsAlwaysMatch`: `TopicsSpec => []TopicsMatch`. What has to be added
  (`TopicsInv`) is that every topic the device is subscribed to, but those left behind,
  can be recalled from the dictionary (`Recallable`), and that the topic of no server
  comes only from the box under flags that name no school, when no switch is scheduled
  (`Stray`). The types are those of `ServerSelection`: the
  settings do nothing to its variables but its own steps, which holds by the way they
  are defined and carries its theorems over (`SettingsDriveServers`, a lemma).
* `SettingsAlwaysTell`: `TopicsSpec => []SettingsTellState`. The boxes are wrong for
  a second: `BoxesInv` says that meanwhile both are ticked and one switch is
  scheduled, to the server that is not on, any number of times over, as the tab comes
  back (`BoxesShow`); the first of them to run clears the box, the others find nothing
  to change.

`VotesProofs`

* `VotesTypeCorrect`, `VotesAreCounted`, `RowsTellVotes`: `PresentSpec =>` the types,
  `KeptIsCounted`, `BlocksTellVotes`. `VotesInv` adds that nothing waits while there
  are no keys (`NoneWaitsForKeys`), and that the present container has the
  dictionary that is kept, and each row's container the vote its row shows
  (`ContainersAgree`).
* `ProfileCountsUpvotes`: `PresentSpec => []PostsUpvoted`. A tap compares the vote
  its row shows with the one asked for, so the number follows the dictionary only
  because the two agree (`VotesInv`). The posts voted for are a finite set whatever
  `Posts` is (`UpvotesCounted`): each tap adds one, takes one away or neither.

`CommentsProofs`

* `CommentsTypeCorrect`, `GatheredIsShown`, `EndIsTrue`: `Spec =>` the types,
  `TempIsShown`, `EndIsSeen`. `CommentsInv` has `Gathering` (what is in `temp` was
  put there by a page that is still under way); that no step loses what is in `temp`
  is `GatheredStays`; and the facts about sorted and
  concatenated sequences it needs are lemmas.
* `CommentsEndMeansEnd`: `Spec => []EndMeansEnd`, for any banned comments. The next
  page begins two below the last row, which is the newest of its page that is not
  banned, so each page has to reach one below that row: `WholeInv` carries, from the
  page's beginning (`AskedTrue`) through its reads (`ReadingTrue`) to the list at rest
  (`ListTrue`), down to where nothing is missing (`Covers`). A page that does not reach
  the first comment either has shown one above its last (`PageReachesBelow`), or all
  but its last were banned, and the comment below is `LeftOut` (`CoversLeftOut`).

`SendingProofs`

* `SendingTypeCorrect`, `HashtagStaysTag`, `PostsStayWhole`, `PostsWereAsked`,
  `PostsAreAnnounced`, `CommentsAreShown`: `Spec =>` each safety property of
  `Sending.cfg`, and that no post waits or is stored without title or message
  (`PostsAreWhole`, part of the induction), for any texts, limit and number of steps. The totals of
  `PostsAreAsked` and `NoticesTellPosts` (`TotalInv`) go along with every step, the
  numbers of one server only while `calm`. `SendingInv` adds that for the user who waits one comment at a time is on its way (`OneOnItsWay`).
  `LimitedIsTag` is the lemma about the limiter, for a text of any length.

So every invariant and every action property of the passing configurations is
proved. Only model-checked are the liveness properties, which are out of this prover's reach:
`ContractSettles`, `ChangeFlagClears`, `GatheredIsShown` and `PagesEnd` of the feed,
`ChainsEnd`, `EndIsReached`, `CalmRefreshEnds`, `PostsAreTried`.

### Not modelled

* A change of server under a running page: `PostLoader2.swift:67` reads the contract
  again on the background thread, where a switch may have put one that is not loaded,
  and `getPost` answers nothing under `SERVER_CHANGING`. `PostFeed` has one server.
* The pop-up of a row that acts on an index that is out of range by then
  (`HomeView2.swift:665`): a crash; the model lets the action hit any row.
* The report of a post or a comment (an unconditional write), the avatar, the limiter
  of the title (it only cuts), the shaking fields, toasts, and a second `Username`
  object in the same process.
* `AppDelegate.swift` and views without state; `src/dVox/Pods`, which is third-party
  code and most of the repository's files and lines: the application's own Swift is a
  small part of it, and what is modelled is that part.

## 5. Plan

What is left, in this order:

1. `FeedAcrossServers`: `PostFeed`'s pages against `ServerSelection`'s contract
   object: a page that reads an object replaced after its timer looked, `getPost`
   under `SERVER_CHANGING`, `SERVER_CHANGED` and the return to the home tab.
2. Refinements: an abstract registry, in which a name goes from free to reserved to
   taken in one step and belongs to one device, implemented by `PatientSpec` of
   `Nicknames` with `PatientInv`; an abstract list without gaps, implemented by
   `CalmSpec` of `PostFeed` with `WholeInv`.
3. The numbers a row shows, with the correction of `PostLoader2.swift:86-90` and
   other users' votes.
