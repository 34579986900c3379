------------------------------ MODULE Nicknames ------------------------------
(***************************************************************************)
(* Nicknames: each device shows one, keeps one in UserDefaults, and records *)
(* it in the Nicknames collection of Firestore, which all devices share.    *)
(* A document per animal holds a field per adjective and number: absent, or *)
(* false while the user still decides, or true.                             *)
(*                                                                         *)
(* generateUsername, usernameConfirm and usernameAbort are chains: a block  *)
(* on the main queue picks the document, the document is read, and the      *)
(* answer's handler writes one of its fields.  The handlers read the        *)
(* Username object when they run, and a chain is not stopped by the next.   *)
(***************************************************************************)
EXTENDS Integers, Sequences, FiniteSetsExt

CONSTANTS
  Devices,
  Animals, Tags,   \* a name is an animal with an adjective and number, its tag
  Others,          \* the names of users on other devices
  Chains,          \* names for the chains of a device: bounds how many there are
  MaxActs,         \* bound on the taps and restarts
  ReadFails        \* may reading a document fail?

Name(a, t) == [animal |-> a, tag |-> t]
Names      == [animal : Animals, tag : Tags]

\* What is shown when the document could not be read, and what is kept at first.
TryAgain == Name("Try", "Again_404")
NoName   == Name("", "")

Fields == [animal : Animals, tag : Tags \cup {TryAgain.tag}]

ASSUME NamesAssumption ==
  /\ Others \subseteq Names
  /\ "" \notin Animals /\ TryAgain.animal \notin Animals
  /\ MaxActs \in Nat /\ ReadFails \in BOOLEAN

VARIABLES
  registry,     \* the Nicknames collection
  running,      \* device -> has its main view been made?
  shown,        \* animal, adjective and number of its Username object
  old,          \* oldAnimal, oldAdjective and oldNumber
  kept,         \* UserDefaults "dvoxUsername"
  generating,   \* ProfileView.generating: are Save and Cancel on screen?
  chain,        \* its chains
  queue,        \* the chains with a block on its main queue, in order
  writes,       \* its writes to Firestore that are not applied yet
  acts

device == <<shown, old, kept, generating>>
vars   == <<registry, running, device, chain, queue, writes, acts>>

-----------------------------------------------------------------------------
Status == {"absent", "reserved", "taken"}
Kind   == {"none", "generate", "confirm", "abort"}
Stage  == {"block", "read", "notify"}
Chain  == [kind : Kind, stage : Stage, doc : Animals \cup {TryAgain.animal, ""},
           first : BOOLEAN]
None   == [kind |-> "none", stage |-> "block", doc |-> "", first |-> FALSE]
Write  == [field : Fields, status : Status]

TypeOK ==
  /\ registry \in [Fields -> Status]
  /\ running \in [Devices -> BOOLEAN]
  /\ shown \in [Devices -> Names \cup {TryAgain, NoName}]
  /\ old \in [Devices -> Names \cup {TryAgain, NoName}]
  /\ kept \in [Devices -> Names \cup {TryAgain, NoName}]
  /\ generating \in [Devices -> BOOLEAN]
  /\ chain \in [Devices -> [Chains -> Chain]]
  /\ queue \in [Devices -> Seq(Chains)]
  /\ writes \in [Devices -> Seq(Write)]
  /\ acts \in 0 .. MaxActs

UserActs == /\ acts < MaxActs
            /\ acts' = acts + 1

\* Deviation: a device knows of its own writes only.
SeenOwn(d, f) ==
  LET mine == {i \in DOMAIN writes[d] : writes[d][i].field = f}
  IN  IF mine = {} THEN "absent" ELSE writes[d][Max(mine)].status

\* What a device reads: Firestore answers with its own writes applied.
Seen(d, f) ==
  LET mine == {i \in DOMAIN writes[d] : writes[d][i].field = f}
  IN  IF mine = {} THEN registry[f] ELSE writes[d][Max(mine)].status

Put(d, f, status) ==
  writes' = [writes EXCEPT ![d] = Append(@, [field |-> f, status |-> status])]

\* A chain begins with a block on the main queue.
Begin(d, c, kind, first) ==
  /\ chain[d][c].kind = "none"
  /\ chain' = [chain EXCEPT ![d][c] =
                 [kind |-> kind, stage |-> "block", doc |-> "", first |-> first]]
  /\ queue' = [queue EXCEPT ![d] = Append(@, c)]

End(d, c) == chain' = [chain EXCEPT ![d][c] = None]

-----------------------------------------------------------------------------
\* MainView's init and retriveUsername(firstRun: true): without a kept name a
\* candidate is shown and kept before the registry was asked.
Launch(d) ==
  /\ ~running[d]
  /\ running' = [running EXCEPT ![d] = TRUE]
  /\ \/ /\ kept[d] = NoName
        /\ \E name \in Names :
             /\ shown' = [shown EXCEPT ![d] = name]
             /\ kept' = [kept EXCEPT ![d] = name]
        /\ \E c \in Chains : Begin(d, c, "generate", TRUE)
     \/ /\ kept[d] # NoName
        /\ shown' = [shown EXCEPT ![d] = kept[d]]
        /\ UNCHANGED <<kept, chain, queue>>
  /\ UNCHANGED <<registry, old, generating, writes, acts>>

\* The first block of the main queue: a chain picks its document by the animal
\* shown now, or, the last of a confirm, keeps the name shown now.
RunBlock(d) ==
  /\ queue[d] # <<>>
  /\ queue' = [queue EXCEPT ![d] = Tail(@)]
  /\ LET c == Head(queue[d]) IN
       \/ /\ chain[d][c].stage = "block"
          /\ chain' = [chain EXCEPT ![d][c].stage = "read",
                                    ![d][c].doc = shown[d].animal]
          /\ UNCHANGED kept
       \/ /\ chain[d][c].stage = "notify"
          /\ kept' = [kept EXCEPT ![d] = shown[d]]
          /\ End(d, c)
  /\ UNCHANGED <<registry, running, shown, old, generating, writes, acts>>

\* A document that exists can be read, or not; no other can.
Readable(doc) == IF doc \notin Animals THEN {FALSE}
                 ELSE {TRUE} \cup (IF ReadFails THEN {FALSE} ELSE {})

Answers(d, c, kind) == chain[d][c].kind = kind /\ chain[d][c].stage = "read"

\* generateUsername's answer: take or reserve a free name, try another one, or
\* give up.
AnswerOfGenerate(d, c, free) ==
  /\ Answers(d, c, "generate")
  /\ \E readable \in Readable(chain[d][c].doc) :
       LET field == Name(chain[d][c].doc, shown[d].tag) IN
       \/ /\ readable /\ Seen(d, field) \in free
          /\ Put(d, field, IF chain[d][c].first THEN "taken" ELSE "reserved")
          /\ End(d, c)
          /\ UNCHANGED <<shown, queue>>
       \/ /\ readable /\ Seen(d, field) \notin free
          /\ \E name \in Names : shown' = [shown EXCEPT ![d] = name]
          /\ chain' = [chain EXCEPT ![d][c].stage = "block", ![d][c].doc = ""]
          /\ queue' = [queue EXCEPT ![d] = Append(@, c)]
          /\ UNCHANGED writes
       \/ /\ ~readable
          /\ shown' = [shown EXCEPT ![d] = TryAgain]
          /\ End(d, c)
          /\ UNCHANGED <<queue, writes>>
  /\ UNCHANGED <<registry, running, old, kept, generating, acts>>

\* Deviation: a field that is false counts as free, as one that is absent.
GenerateAnswerFalse(d, c) == AnswerOfGenerate(d, c, {"absent", "reserved"})
GenerateAnswer(d, c)      == AnswerOfGenerate(d, c, {"absent"})

\* The chain of a confirm goes on with the block that keeps the name.
Notify(d, c) == /\ chain' = [chain EXCEPT ![d][c].stage = "notify"]
                /\ queue' = [queue EXCEPT ![d] = Append(@, c)]

\* Deviation: the field stays false.
ConfirmAnswerFalse(d, c) ==
  /\ Answers(d, c, "confirm")
  /\ \E readable \in Readable(chain[d][c].doc) :
       \/ readable /\ Put(d, Name(chain[d][c].doc, shown[d].tag), "reserved")
       \/ ~readable /\ UNCHANGED writes
  /\ Notify(d, c)
  /\ UNCHANGED <<registry, running, device, acts>>

\* Deviation: the group is not left when the document cannot be read.
ConfirmAnswerStays(d, c) ==
  /\ Answers(d, c, "confirm")
  /\ \E readable \in Readable(chain[d][c].doc) :
       \/ /\ readable /\ Put(d, Name(chain[d][c].doc, shown[d].tag), "taken")
          /\ Notify(d, c)
       \/ ~readable /\ UNCHANGED <<chain, queue, writes>>
  /\ UNCHANGED <<registry, running, device, acts>>

\* usernameConfirm's answer; the name is kept whether it was recorded or not.
ConfirmAnswer(d, c) ==
  /\ Answers(d, c, "confirm")
  /\ \E readable \in Readable(chain[d][c].doc) :
       \/ readable /\ Put(d, Name(chain[d][c].doc, shown[d].tag), "taken")
       \/ ~readable /\ UNCHANGED writes
  /\ Notify(d, c)
  /\ UNCHANGED <<registry, running, device, acts>>

\* Deviation: the document's existence is not checked.
AbortAnswerUnchecked(d, c) ==
  /\ Answers(d, c, "abort")
  /\ Put(d, Name(chain[d][c].doc, shown[d].tag), "absent")
  /\ End(d, c)
  /\ UNCHANGED <<registry, running, device, queue, acts>>

\* usernameAbort's answer.
AbortAnswer(d, c) ==
  /\ Answers(d, c, "abort")
  /\ \E readable \in Readable(chain[d][c].doc) :
       \/ readable /\ Put(d, Name(chain[d][c].doc, shown[d].tag), "absent")
       \/ ~readable /\ UNCHANGED writes
  /\ End(d, c)
  /\ UNCHANGED <<registry, running, device, queue, acts>>

\* Firestore applies a device's writes in order.
ApplyWrite(d) ==
  /\ writes[d] # <<>>
  /\ registry' = [registry EXCEPT ![Head(writes[d]).field] = Head(writes[d]).status]
  /\ writes' = [writes EXCEPT ![d] = Tail(@)]
  /\ UNCHANGED <<running, device, chain, queue, acts>>

-----------------------------------------------------------------------------
\* The user asks for another name and is shown a candidate.
Regenerate(d) ==
  /\ UserActs
  /\ running[d] /\ ~generating[d]
  /\ generating' = [generating EXCEPT ![d] = TRUE]
  /\ old' = [old EXCEPT ![d] = shown[d]]
  /\ \E name \in Names : shown' = [shown EXCEPT ![d] = name]
  /\ \E c \in Chains : Begin(d, c, "generate", FALSE)
  /\ UNCHANGED <<registry, running, kept, writes>>

Save(d) ==
  /\ UserActs
  /\ running[d] /\ generating[d]
  /\ generating' = [generating EXCEPT ![d] = FALSE]
  /\ \E c \in Chains : Begin(d, c, "confirm", FALSE)
  /\ UNCHANGED <<registry, running, shown, old, kept, writes>>

\* The old name is shown again before the chain's block reads what is shown.
Cancel(d) ==
  /\ UserActs
  /\ running[d] /\ generating[d]
  /\ generating' = [generating EXCEPT ![d] = FALSE]
  /\ shown' = [shown EXCEPT ![d] = old[d]]
  /\ \E c \in Chains : Begin(d, c, "abort", FALSE)
  /\ UNCHANGED <<registry, running, old, kept, writes>>

\* The app ends: UserDefaults and the writes Firestore has stored survive.
Exit(d) ==
  /\ UserActs
  /\ running[d]
  /\ running' = [running EXCEPT ![d] = FALSE]
  /\ generating' = [generating EXCEPT ![d] = FALSE]
  /\ shown' = [shown EXCEPT ![d] = NoName]
  /\ old' = [old EXCEPT ![d] = NoName]
  /\ chain' = [chain EXCEPT ![d] = [c \in Chains |-> None]]
  /\ queue' = [queue EXCEPT ![d] = <<>>]
  /\ UNCHANGED <<registry, kept, writes>>

Init ==
  /\ registry = [f \in Fields |-> IF f \in Others THEN "taken" ELSE "absent"]
  /\ running = [d \in Devices |-> FALSE]
  /\ shown = [d \in Devices |-> NoName]
  /\ old = [d \in Devices |-> NoName]
  /\ kept = [d \in Devices |-> NoName]
  /\ generating = [d \in Devices |-> FALSE]
  /\ chain = [d \in Devices |-> [c \in Chains |-> None]]
  /\ queue = [d \in Devices |-> <<>>]
  /\ writes = [d \in Devices |-> <<>>]
  /\ acts = 0

Answer(d, c) == GenerateAnswer(d, c) \/ ConfirmAnswer(d, c) \/ AbortAnswer(d, c)

Next == \E d \in Devices :
  \/ Launch(d) \/ Regenerate(d) \/ Save(d) \/ Cancel(d) \/ Exit(d)
  \/ RunBlock(d) \/ ApplyWrite(d)
  \/ \E c \in Chains : Answer(d, c)

Spec == Init /\ [][Next]_vars

\* Another candidate is random: it is not for ever one whose adjective and
\* number exist in a document, the one of its animal or of another chain's.
Unlucky == \E d \in Devices, c \in Chains :
  /\ chain[d][c].stage = "read" /\ chain'[d][c].stage = "block"
  /\ chain'[d][c].kind = "generate"
  /\ \E a \in Animals : Seen(d, Name(a, shown'[d].tag)) # "absent"

Luck == <>[][~Unlucky]_vars

Fairness == \A d \in Devices :
  /\ WF_vars(RunBlock(d)) /\ WF_vars(ApplyWrite(d))
  /\ \A c \in Chains : WF_vars(Answer(d, c))

FairSpec == Spec /\ Fairness /\ Luck

-----------------------------------------------------------------------------
\* Nothing is under way on any device.
Quiet == /\ \A d \in Devices, c \in Chains : chain[d][c] = None
         /\ \A d \in Devices : writes[d] = <<>>

\* Users who wait for the last tap's work to end, theirs and the others'.
PatientTap(d) == Quiet /\ (Launch(d) \/ Regenerate(d) \/ Save(d) \/ Exit(d))

Work(d) == RunBlock(d) \/ ApplyWrite(d) \/ \E c \in Chains : Answer(d, c)

WaitingNext == \E d \in Devices : PatientTap(d) \/ Work(d)

\* Their first candidate is free: the one kept is the one recorded.
FreeAtFirst == \A d \in Devices : kept[d] = NoName /\ kept'[d] # NoName
                                   => registry[kept'[d]] = "absent"

PatientNext == WaitingNext /\ FreeAtFirst
PatientSpec == Init /\ [][PatientNext]_vars

\* They cancel too.
CancelNext == PatientNext \/ (Quiet /\ \E d \in Devices : Cancel(d))
CancelSpec == Init /\ [][CancelNext]_vars

\* Every chain ends, whatever the user taps while it is under way
\* (Username.generateUsername's retries and its group).
ChainsEnd == \A d \in Devices, c \in Chains :
  chain[d][c].kind # "none" ~> chain[d][c].kind = "none"

\* Between taps, the name a device keeps is recorded as taken, so that no
\* other user is given it (Username.generateUsername, usernameConfirm).  Nor is
\* it lost when a candidate is aborted: "Username creation is aborted!", says
\* usernameAbort, and shows the old name again (Username.swift:219).
KeptIsTaken == Quiet =>
  \A d \in Devices :
    kept[d] # NoName => kept[d] \in Names /\ registry[kept[d]] = "taken"

\* While the user decides, the candidate shown is reserved, and no other device
\* shows it (generateUsername with firstRun false).
CandidateIsReserved == Quiet =>
  \A d \in Devices : generating[d] =>
    /\ registry[shown[d]] = "reserved"
    /\ \A e \in Devices \ {d} : shown[e] # shown[d]

\* A name that is taken stays so: what one user was promised is not recorded
\* anew for another, who is still to decide about it (generateUsername).
NamesAreNotLost ==
  [][(\A f \in Fields : registry[f] = "taken" => registry'[f] = "taken")]_vars
=============================================================================
