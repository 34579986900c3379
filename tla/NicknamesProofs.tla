--------------------------- MODULE NicknamesProofs ---------------------------
(***************************************************************************)
(* Proofs about Nicknames, for any devices, animals, tags and chains.       *)
(***************************************************************************)
EXTENDS Nicknames, TLAPS

\* A chain writes under the name shown: it is there as long as a chain can be.
RunningShows   == \A d \in Devices : running[d] => shown[d] # NoName
DecidingHasOld == \A d \in Devices : generating[d] => running[d] /\ old[d] # NoName
ChainsRun      == \A d \in Devices, c \in Chains : chain[d][c].kind # "none" => running[d]

\* The types alone are not inductive: a write is of the name shown, which is none
\* before the first launch.
NamingInv == TypeOK /\ RunningShows /\ DecidingHasOld /\ ChainsRun

Shown == Names \cup {TryAgain, NoName}

\* A name of the two lists is never the empty one.
LEMMA NamesAreNames ==
  /\ NoName \notin Names /\ TryAgain # NoName /\ Names \subseteq Shown
  /\ \A n \in Names \cup {TryAgain} : n.tag \in Tags \cup {TryAgain.tag}
BY NamesAssumption DEF NoName, TryAgain, Name, Names, Shown

\* The steps of the type invariant.

\* A write that is sent is well formed, and waits behind the others.
LEMMA PutType ==
  ASSUME TypeOK, NEW d \in Devices, NEW f \in Fields, NEW status \in Status,
         Put(d, f, status)
  PROVE  writes' \in [Devices -> Seq(Write)]
<1>1. [field |-> f, status |-> status] \in Write
  BY DEF Write
<1>2. PICK w : w = [field |-> f, status |-> status]
  OBVIOUS
<1>3. Append(writes[d], w) \in Seq(Write)
  BY <1>1, <1>2 DEF TypeOK
<1> QED
  BY <1>2, <1>3 DEF TypeOK, Put

\* The field a chain writes: the document it read, and what is shown.
LEMMA FieldType ==
  ASSUME NamingInv, NEW d \in Devices, NEW c \in Chains, chain[d][c].kind # "none",
         NEW doc \in Animals
  PROVE  Name(doc, shown[d].tag) \in Fields
<1>1. shown[d] \in Names \cup {TryAgain}
  BY DEF NamingInv, ChainsRun, RunningShows, TypeOK
<1> QED
  BY <1>1, NamesAreNames DEF Fields, Name

\* Changing one chain leaves well-formed chains.
LEMMA OneChainType ==
  ASSUME TypeOK, NEW d \in Devices, NEW c \in Chains, NEW new \in Chain,
         chain' = [chain EXCEPT ![d][c] = new]
  PROVE  /\ chain' \in [Devices -> [Chains -> Chain]]
         /\ \A e \in Devices, k \in Chains :
              chain'[e][k] = IF e = d /\ k = c THEN new ELSE chain[e][k]
BY DEF TypeOK

\* The chain that is not there is a chain.
LEMMA NoneType == None \in Chain /\ None.kind = "none"
BY DEF None, Chain, Kind, Stage

\* Posting a block, or running the first, leaves a queue of chains.
LEMMA QueueType ==
  ASSUME TypeOK, NEW d \in Devices, NEW c \in Chains,
         queue' = [queue EXCEPT ![d] = Append(@, c)]
  PROVE  queue' \in [Devices -> Seq(Chains)]
<1>1. Append(queue[d], c) \in Seq(Chains)
  BY DEF TypeOK
<1> QED
  BY <1>1 DEF TypeOK

\* A chain that begins keeps the types, and is the chain of a process.
LEMMA BeginType ==
  ASSUME NamingInv, NEW d \in Devices, NEW c \in Chains, running'[d],
         \A e \in Devices : running[e] => running'[e],
         NEW kind \in Kind, NEW first \in BOOLEAN, Begin(d, c, kind, first)
  PROVE  /\ chain' \in [Devices -> [Chains -> Chain]]
         /\ queue' \in [Devices -> Seq(Chains)]
         /\ ChainsRun'
<1>1. PICK new : new = [kind |-> kind, stage |-> "block", doc |-> "", first |-> first]
  OBVIOUS
<1>2. new \in Chain
  BY <1>1 DEF Chain, Stage
<1>3. /\ chain' \in [Devices -> [Chains -> Chain]]
      /\ \A e \in Devices, k \in Chains :
           chain'[e][k] = IF e = d /\ k = c THEN new ELSE chain[e][k]
  <2>1. TypeOK /\ chain' = [chain EXCEPT ![d][c] = new]
    BY <1>1 DEF NamingInv, Begin
  <2> QED
    BY <1>2, <2>1 DEF TypeOK
<1>4. ChainsRun'
  BY <1>3 DEF NamingInv, ChainsRun
<1> QED
  BY <1>3, <1>4, QueueType DEF NamingInv, Begin

\* A step of a chain that goes on, and its end.
LEMMA StepType ==
  ASSUME NamingInv, NEW d \in Devices, NEW c \in Chains, running' = running,
         NEW new \in Chain, new.kind \in {"none", chain[d][c].kind},
         chain' = [chain EXCEPT ![d][c] = new]
  PROVE  chain' \in [Devices -> [Chains -> Chain]] /\ ChainsRun'
<1>1. /\ chain' \in [Devices -> [Chains -> Chain]]
      /\ \A e \in Devices, k \in Chains :
           chain'[e][k] = IF e = d /\ k = c THEN new ELSE chain[e][k]
  BY OneChainType DEF NamingInv
<1> QED
  BY <1>1 DEF NamingInv, ChainsRun

\* So does one that ends.
LEMMA EndType ==
  ASSUME NamingInv, NEW d \in Devices, NEW c \in Chains, running' = running, End(d, c)
  PROVE  chain' \in [Devices -> [Chains -> Chain]] /\ ChainsRun'
BY StepType, NoneType DEF End

\* A chain that goes on at another stage, with another document.
LEMMA GoesOnType ==
  ASSUME NamingInv, NEW d \in Devices, NEW c \in Chains, running' = running,
         NEW stage \in Stage, NEW doc \in Animals \cup {TryAgain.animal, ""},
         chain' = [chain EXCEPT ![d][c].stage = stage, ![d][c].doc = doc]
  PROVE  chain' \in [Devices -> [Chains -> Chain]] /\ ChainsRun'
<1>1. chain[d][c] \in Chain
  BY DEF NamingInv, TypeOK
<1>2. PICK new : new = [chain[d][c] EXCEPT !.stage = stage, !.doc = doc]
  OBVIOUS
<1>3. new \in Chain /\ new.kind = chain[d][c].kind
  BY <1>1, <1>2 DEF Chain
<1>4. chain' = [chain EXCEPT ![d][c] = new]
  BY <1>2 DEF NamingInv, TypeOK
<1> QED
  BY <1>3, <1>4, StepType

\* Counting a tap stays within the bound.
LEMMA ActsType ==
  ASSUME acts \in 0 .. MaxActs, UserActs
  PROVE  acts' \in 0 .. MaxActs
<1>1. MaxActs \in Nat
  BY NamesAssumption
<1> QED
  BY ONLY <1>1, acts \in 0 .. MaxActs, UserActs DEF UserActs

\* The launch.
LEMMA LaunchType ==
  ASSUME NamingInv, NEW d \in Devices, Launch(d)
  PROVE  NamingInv'
<1>1. running' \in [Devices -> BOOLEAN] /\ running'[d]
      /\ \A e \in Devices \ {d} : running'[e] = running[e]
  BY DEF Launch, NamingInv, TypeOK
<1>2. PICK name \in Names \cup {TryAgain} :
        /\ shown' = [shown EXCEPT ![d] = name]
        /\ kept' = kept \/ kept' = [kept EXCEPT ![d] = name]
  BY DEF Launch, NamingInv, TypeOK
<1>3. shown' \in [Devices -> Shown] /\ kept' \in [Devices -> Shown] /\ RunningShows'
  BY <1>1, <1>2, NamesAreNames DEF NamingInv, TypeOK, RunningShows, Shown
<1>4. /\ chain' \in [Devices -> [Chains -> Chain]] /\ queue' \in [Devices -> Seq(Chains)]
      /\ ChainsRun'
  <2>1. CASE \E c \in Chains : Begin(d, c, "generate", TRUE)
    BY <1>1, <2>1, BeginType DEF Kind
  <2>2. CASE UNCHANGED <<chain, queue>>
    BY <1>1, <2>2 DEF NamingInv, TypeOK, ChainsRun
  <2> QED
    BY <2>1, <2>2 DEF Launch
<1>5. DecidingHasOld'
  BY <1>1 DEF Launch, NamingInv, DecidingHasOld
<1> QED
  BY <1>1, <1>3, <1>4, <1>5 DEF Launch, NamingInv, TypeOK, Shown

\* A new candidate, and saving one.
LEMMA TapType ==
  ASSUME NamingInv, NEW d \in Devices, Regenerate(d) \/ Save(d) \/ Cancel(d)
  PROVE  NamingInv'
<1>1. acts' \in 0 .. MaxActs
  BY ActsType DEF Regenerate, Save, Cancel, NamingInv, TypeOK
<1>2. running' = running /\ running[d] /\ shown[d] # NoName
  BY DEF Regenerate, Save, Cancel, NamingInv, RunningShows
<1>3. generating' \in [Devices -> BOOLEAN]
  BY DEF Regenerate, Save, Cancel, NamingInv, TypeOK
<1>4. PICK c \in Chains, kind \in Kind : Begin(d, c, kind, FALSE)
  BY DEF Regenerate, Save, Cancel, Kind
<1>5. /\ chain' \in [Devices -> [Chains -> Chain]] /\ queue' \in [Devices -> Seq(Chains)]
      /\ ChainsRun'
  BY <1>2, <1>4, BeginType
<1>6. shown' \in [Devices -> Shown] /\ RunningShows'
  <2>1. CASE Regenerate(d)
    <3>1. PICK name \in Names : shown' = [shown EXCEPT ![d] = name]
      BY <2>1 DEF Regenerate
    <3> QED
      BY <1>2, <3>1, NamesAreNames DEF NamingInv, TypeOK, RunningShows, Shown
  <2>2. CASE Save(d)
    BY <2>2 DEF Save, NamingInv, TypeOK, RunningShows, Shown
  <2>3. CASE Cancel(d)
    <3>1. shown' = [shown EXCEPT ![d] = old[d]] /\ old[d] # NoName
      BY <2>3 DEF Cancel, NamingInv, DecidingHasOld
    <3> QED
      BY <1>2, <3>1 DEF NamingInv, TypeOK, RunningShows, Shown
  <2> QED
    BY <2>1, <2>2, <2>3
<1>7. old' \in [Devices -> Shown] /\ DecidingHasOld'
  <2>1. \/ old' = old /\ (\A e \in Devices : generating'[e] => generating[e])
        \/ /\ old' = [old EXCEPT ![d] = shown[d]]
           /\ \A e \in Devices : generating'[e] => e = d \/ generating[e]
    BY DEF Regenerate, Save, Cancel, NamingInv, TypeOK
  <2> QED
    BY <1>2, <2>1 DEF NamingInv, TypeOK, DecidingHasOld, Shown
<1>8. UNCHANGED <<registry, kept, writes>>
  BY DEF Regenerate, Save, Cancel
<1> QED
  BY <1>1, <1>2, <1>3, <1>5, <1>6, <1>7, <1>8 DEF NamingInv, TypeOK, Shown

\* The end of the process, which loses its chains and blocks.
LEMMA ExitType ==
  ASSUME NamingInv, NEW d \in Devices, Exit(d)
  PROVE  NamingInv'
<1>1. acts' \in 0 .. MaxActs
  BY ActsType DEF Exit, NamingInv, TypeOK
<1>2. /\ chain' \in [Devices -> [Chains -> Chain]] /\ queue' \in [Devices -> Seq(Chains)]
      /\ ChainsRun'
  BY NoneType DEF Exit, NamingInv, TypeOK, ChainsRun
<1>3. RunningShows' /\ DecidingHasOld'
  BY DEF Exit, NamingInv, TypeOK, RunningShows, DecidingHasOld
<1> QED
  BY <1>1, <1>2, <1>3 DEF Exit, NamingInv, TypeOK

\* A block of the main queue picks its document, or gives up.
LEMMA RunBlockType ==
  ASSUME NamingInv, NEW d \in Devices, RunBlock(d)
  PROVE  NamingInv'
<1>1. queue' \in [Devices -> Seq(Chains)] /\ Head(queue[d]) \in Chains
  BY DEF RunBlock, NamingInv, TypeOK
<1>2. PICK c \in Chains : c = Head(queue[d])
  BY <1>1
<1>3. CASE /\ chain' = [chain EXCEPT ![d][c].stage = "read", ![d][c].doc = shown[d].animal]
           /\ kept' = kept
  <2>1. shown[d].animal \in Animals \cup {TryAgain.animal, ""}
    <3>1. shown[d] \in Names \/ shown[d] = TryAgain \/ shown[d] = NoName
      BY DEF NamingInv, TypeOK
    <3>2. CASE shown[d] \in Names
      BY <3>2 DEF Names
    <3>3. CASE shown[d] = TryAgain
      BY <3>3
    <3>4. CASE shown[d] = NoName
      <4>1. NoName.animal = ""
        BY DEF NoName, Name
      <4> QED
        BY <3>4, <4>1
    <3> QED
      BY <3>1, <3>2, <3>3, <3>4
  <2>2. PICK animal \in Animals \cup {TryAgain.animal, ""} : animal = shown[d].animal
    BY <2>1
  <2>3. chain' = [chain EXCEPT ![d][c].stage = "read", ![d][c].doc = animal]
    BY <1>3, <2>2
  <2>4. chain' \in [Devices -> [Chains -> Chain]] /\ ChainsRun'
    BY <2>3, GoesOnType DEF RunBlock, Stage
  <2> QED
    BY <1>1, <1>3, <2>4 DEF RunBlock, NamingInv, TypeOK, RunningShows, DecidingHasOld
<1>4. CASE kept' = [kept EXCEPT ![d] = shown[d]] /\ End(d, c)
  <2>1. chain' \in [Devices -> [Chains -> Chain]] /\ ChainsRun'
    BY <1>4, EndType DEF RunBlock
  <2> QED
    BY <1>1, <1>4, <2>1 DEF RunBlock, NamingInv, TypeOK, RunningShows, DecidingHasOld
<1> QED
  BY <1>2, <1>3, <1>4 DEF RunBlock

\* The answer to generateUsername: reserve, record, retry or give up.
LEMMA GenerateAnswerType ==
  ASSUME NamingInv, NEW d \in Devices, NEW c \in Chains, GenerateAnswer(d, c)
  PROVE  NamingInv'
<1>1. chain[d][c].kind # "none" /\ running[d] /\ UNCHANGED <<registry, running, old, kept, generating, acts>>
  BY DEF GenerateAnswer, AnswerOfGenerate, Answers, NamingInv, ChainsRun
<1>2. PICK field : field = Name(chain[d][c].doc, shown[d].tag)
  OBVIOUS
<1>3. PICK readable \in Readable(chain[d][c].doc) :
       \/ /\ readable /\ Seen(d, field) \in {"absent"}
          /\ Put(d, field, IF chain[d][c].first THEN "taken" ELSE "reserved")
          /\ End(d, c)
          /\ UNCHANGED <<shown, queue>>
       \/ /\ \E name \in Names : shown' = [shown EXCEPT ![d] = name]
          /\ chain' = [chain EXCEPT ![d][c].stage = "block", ![d][c].doc = ""]
          /\ queue' = [queue EXCEPT ![d] = Append(@, c)]
          /\ UNCHANGED writes
       \/ /\ shown' = [shown EXCEPT ![d] = TryAgain]
          /\ End(d, c)
          /\ UNCHANGED <<queue, writes>>
  BY <1>2 DEF GenerateAnswer, AnswerOfGenerate
<1>4. CASE readable /\ Put(d, field, IF chain[d][c].first THEN "taken" ELSE "reserved")
           /\ End(d, c) /\ UNCHANGED <<shown, queue>>
  <2>1. field \in Fields
    BY <1>1, <1>2, <1>3, <1>4, FieldType DEF Readable
  <2>2. writes' \in [Devices -> Seq(Write)]
    BY <1>4, <2>1, PutType DEF NamingInv, Status
  <2>3. chain' \in [Devices -> [Chains -> Chain]] /\ ChainsRun'
    BY <1>1, <1>4, EndType
  <2> QED
    BY <1>1, <1>4, <2>2, <2>3 DEF NamingInv, TypeOK, RunningShows, DecidingHasOld
<1>5. CASE /\ \E name \in Names : shown' = [shown EXCEPT ![d] = name]
           /\ chain' = [chain EXCEPT ![d][c].stage = "block", ![d][c].doc = ""]
           /\ queue' = [queue EXCEPT ![d] = Append(@, c)]
           /\ UNCHANGED writes
  <2>4. chain' \in [Devices -> [Chains -> Chain]] /\ ChainsRun'
    BY <1>1, <1>5, GoesOnType DEF Stage
  <2>5. queue' \in [Devices -> Seq(Chains)]
    BY <1>5, QueueType DEF NamingInv
  <2>6. shown' \in [Devices -> Shown] /\ RunningShows'
    BY <1>1, <1>5, NamesAreNames DEF NamingInv, TypeOK, RunningShows, Shown
  <2> QED
    BY <1>1, <1>5, <2>4, <2>5, <2>6 DEF NamingInv, TypeOK, DecidingHasOld, Shown
<1>6. CASE shown' = [shown EXCEPT ![d] = TryAgain] /\ End(d, c) /\ UNCHANGED <<queue, writes>>
  <2>1. chain' \in [Devices -> [Chains -> Chain]] /\ ChainsRun'
    BY <1>1, <1>6, EndType
  <2>2. shown' \in [Devices -> Shown] /\ RunningShows'
    BY <1>1, <1>6, NamesAreNames DEF NamingInv, TypeOK, RunningShows, Shown
  <2> QED
    BY <1>1, <1>6, <2>1, <2>2 DEF NamingInv, TypeOK, DecidingHasOld, Shown
<1> QED
  BY <1>3, <1>4, <1>5, <1>6

\* The answers to usernameConfirm and usernameAbort.
LEMMA OtherAnswersType ==
  ASSUME NamingInv, NEW d \in Devices, NEW c \in Chains,
         ConfirmAnswer(d, c) \/ AbortAnswer(d, c)
  PROVE  NamingInv'
<1>1. chain[d][c].kind # "none" /\ UNCHANGED <<registry, running, shown, old, kept, generating, acts>>
  BY DEF ConfirmAnswer, AbortAnswer, Answers, device
<1>2. writes' \in [Devices -> Seq(Write)]
  <2>1. CASE UNCHANGED writes
    BY <2>1 DEF NamingInv, TypeOK
  <2>2. CASE writes' # writes
    <3>1. chain[d][c].doc \in Animals
      BY <2>2 DEF ConfirmAnswer, AbortAnswer, Readable
    <3>2. Name(chain[d][c].doc, shown[d].tag) \in Fields
      BY <1>1, <3>1, FieldType
    <3>3. \E status \in Status : Put(d, Name(chain[d][c].doc, shown[d].tag), status)
      BY <2>2 DEF ConfirmAnswer, AbortAnswer, Status
    <3> QED
      BY <3>2, <3>3, PutType DEF NamingInv
  <2> QED
    BY <2>1, <2>2
<1>3. /\ chain' \in [Devices -> [Chains -> Chain]] /\ queue' \in [Devices -> Seq(Chains)]
      /\ ChainsRun'
  <2>1. CASE ConfirmAnswer(d, c)
    <3>1. chain[d][c] \in Chain
      BY DEF NamingInv, TypeOK
    <3>2. PICK new : new = [chain[d][c] EXCEPT !.stage = "notify"]
      OBVIOUS
    <3>3. new \in Chain /\ new.kind = chain[d][c].kind
      BY <3>1, <3>2 DEF Chain, Stage
    <3>4. chain' = [chain EXCEPT ![d][c] = new]
      BY <2>1, <3>2 DEF ConfirmAnswer, Notify, NamingInv, TypeOK
    <3>5. chain' \in [Devices -> [Chains -> Chain]] /\ ChainsRun'
      BY <1>1, <3>3, <3>4, StepType
    <3> QED
      BY <2>1, <3>5, QueueType DEF ConfirmAnswer, Notify, NamingInv
  <2>2. CASE AbortAnswer(d, c)
    <3>1. chain' \in [Devices -> [Chains -> Chain]] /\ ChainsRun'
      BY <1>1, <2>2, EndType DEF AbortAnswer
    <3> QED
      BY <2>2, <3>1 DEF AbortAnswer, NamingInv, TypeOK
  <2> QED
    BY <2>1, <2>2
<1> QED
  BY <1>1, <1>2, <1>3 DEF NamingInv, TypeOK, RunningShows, DecidingHasOld

\* Firestore applies the first write.
LEMMA ApplyWriteType ==
  ASSUME NamingInv, NEW d \in Devices, ApplyWrite(d)
  PROVE  NamingInv'
<1>1. Head(writes[d]) \in Write /\ Tail(writes[d]) \in Seq(Write)
  BY DEF ApplyWrite, NamingInv, TypeOK
<1>2. registry' \in [Fields -> Status] /\ writes' \in [Devices -> Seq(Write)]
  BY <1>1 DEF ApplyWrite, NamingInv, TypeOK, Write
<1> QED
  BY <1>2 DEF ApplyWrite, device, NamingInv, TypeOK, RunningShows, DecidingHasOld, ChainsRun

\* A registry of others, and devices that do not run.
LEMMA NamingInit == Init => NamingInv
<1> SUFFICES ASSUME Init PROVE NamingInv
  OBVIOUS
<1>1. acts \in 0 .. MaxActs
  <2>1. MaxActs \in Nat
    BY NamesAssumption
  <2>2. acts = 0
    BY DEF Init
  <2> QED
    BY ONLY <2>1, <2>2
<1>2. /\ chain \in [Devices -> [Chains -> Chain]]
      /\ \A d \in Devices, c \in Chains : chain[d][c].kind = "none"
  BY NoneType DEF Init
<1>3. /\ registry \in [Fields -> Status]
      /\ running \in [Devices -> BOOLEAN] /\ generating \in [Devices -> BOOLEAN]
      /\ \A d \in Devices : ~running[d] /\ ~generating[d]
      /\ shown \in [Devices -> Shown] /\ old \in [Devices -> Shown]
      /\ kept \in [Devices -> Shown]
      /\ queue \in [Devices -> Seq(Chains)] /\ writes \in [Devices -> Seq(Write)]
  BY DEF Init, Status, Shown
<1> QED
  BY <1>1, <1>2, <1>3 DEF NamingInv, TypeOK, RunningShows, DecidingHasOld, ChainsRun, Shown

\* Every step keeps the types and what chains rely on.
LEMMA NamingNext ==
  ASSUME NamingInv, [Next]_vars
  PROVE  NamingInv'
<1>1. CASE UNCHANGED vars
  BY <1>1 DEF vars, device, NamingInv, TypeOK, RunningShows, DecidingHasOld, ChainsRun
<1>2. CASE Next
  BY <1>2, LaunchType, TapType, ExitType, RunBlockType, ApplyWriteType, GenerateAnswerType,
     OtherAnswersType DEF Next, Answer
<1> QED
  BY <1>1, <1>2

\* Type correctness, for any taps, restarts, and chains that overlap: what a chain
\* records is the name shown in a document of the list, and never the empty name.
THEOREM NicknamesTypeCorrect == Spec => []TypeOK
<1>1. NamingInv => TypeOK
  BY DEF NamingInv
<1> QED
  BY <1>1, NamingInit, NamingNext, PTL DEF Spec

-----------------------------------------------------------------------------
(* The users who wait for the last tap's work to end.  At any time at most  *)
(* one device is at work, on one chain or on the last write of one; what    *)
(* the other devices show and keep agrees with the registry.                *)

\* Nothing is under way on the device.
Still(e) == /\ \A c \in Chains : chain[e][c] = None
            /\ queue[e] = <<>> /\ writes[e] = <<>>

\* The name it keeps is recorded.
KeptTaken(e) == kept[e] \in Names /\ registry[kept[e]] = "taken"

\* What the device shows is the name it keeps, or a candidate it has reserved.
Steady(e) ==
  /\ kept[e] # NoName => KeptTaken(e)
  /\ running[e] => kept[e] # NoName
  /\ ~running[e] => ~generating[e] /\ shown[e] = NoName
  /\ running[e] /\ ~generating[e] => shown[e] = kept[e]
  /\ generating[e] => running[e] /\ shown[e] \in Names /\ registry[shown[e]] = "reserved"

\* No other device's candidate is the name it shows.
Apart(d) == \A e \in Devices \ {d} : generating[e] => shown[e] # shown[d]

Rest(d) == \A e \in Devices \ {d} :
  /\ Still(e) /\ Steady(e)
  /\ \A f \in Devices \ {d, e} : generating[e] /\ generating[f] => shown[e] # shown[f]

AllSteady == \A e \in Devices : Still(e) /\ Steady(e) /\ (generating[e] => Apart(e))

\* Its one chain is at that stage, of the document of the name shown.
DocOf(d, stage) == IF stage = "block" THEN "" ELSE shown[d].animal

ChainOf(d, kind, first, stage) ==
  [kind |-> kind, stage |-> stage, doc |-> DocOf(d, stage), first |-> first]

Working(d, c, kind, first, stage) ==
  /\ chain[d] = [k \in Chains |-> IF k = c THEN ChainOf(d, kind, first, stage) ELSE None]
  /\ queue[d] = IF stage = "read" THEN <<>> ELSE <<c>>

Begun == {"block", "read"}

WriteOf(d, status) == <<[field |-> shown[d], status |-> status]>>

\* The first name, kept before it is recorded.
First(d) == \E c \in Chains, stage \in Begun :
  /\ Working(d, c, "generate", TRUE, stage)
  /\ ~generating[d] /\ kept[d] = shown[d] /\ registry[shown[d]] = "absent"
  /\ writes[d] = <<>>

\* A candidate, not yet seen to be free.
Trying(d) == \E c \in Chains, stage \in Begun :
  /\ Working(d, c, "generate", FALSE, stage)
  /\ generating[d] /\ KeptTaken(d)
  /\ writes[d] = <<>>

\* It was free, and is being reserved.
Reserving(d) ==
  /\ \A c \in Chains : chain[d][c] = None
  /\ queue[d] = <<>>
  /\ generating[d] /\ KeptTaken(d) /\ registry[shown[d]] = "absent"
  /\ writes[d] = WriteOf(d, "reserved")

\* A candidate saved, not yet recorded.
Confirming(d) == \E c \in Chains, stage \in Begun :
  /\ Working(d, c, "confirm", FALSE, stage)
  /\ ~generating[d] /\ KeptTaken(d) /\ registry[shown[d]] = "reserved" /\ Apart(d)
  /\ writes[d] = <<>>

\* Recorded, perhaps only on the device, and not yet kept.
Confirmed(d) == \E c \in Chains :
  /\ Working(d, c, "confirm", FALSE, "notify")
  /\ ~generating[d] /\ KeptTaken(d) /\ Apart(d)
  /\ \/ writes[d] = WriteOf(d, "taken")
     \/ writes[d] = <<>> /\ registry[shown[d]] = "taken"

\* Kept, and recorded on the device only.
Recording(d) ==
  /\ \A c \in Chains : chain[d][c] = None
  /\ queue[d] = <<>>
  /\ ~generating[d] /\ kept[d] = shown[d] /\ Apart(d)
  /\ writes[d] = WriteOf(d, "taken")

AtWork(d) ==
  /\ running[d] /\ shown[d] \in Names
  /\ Rest(d)
  /\ \/ First(d) \/ Trying(d) \/ Reserving(d)
     \/ Confirming(d) \/ Confirmed(d) \/ Recording(d)

\* KeptIsTaken and CandidateIsReserved speak of devices at rest.  In between the
\* device whose turn it is has left one name and not yet another: its phase says
\* which records are written, which wait and which name is free to take.
PatientInv == NamingInv /\ (AllSteady \/ \E d \in Devices : AtWork(d))

-----------------------------------------------------------------------------
\* The step leaves the other devices alone.
Elsewhere(d) == \A e \in Devices \ {d} :
  /\ chain'[e] = chain[e] /\ queue'[e] = queue[e] /\ writes'[e] = writes[e]
  /\ running'[e] = running[e] /\ shown'[e] = shown[e]
  /\ kept'[e] = kept[e] /\ generating'[e] = generating[e]

\* A tap is one device's.
LEMMA TapElsewhere ==
  ASSUME TypeOK, NEW d \in Devices, Launch(d) \/ Regenerate(d) \/ Save(d) \/ Exit(d)
  PROVE  Elsewhere(d)
<1>1. CASE Launch(d)
  BY <1>1 DEF Launch, Begin, TypeOK, Elsewhere
<1>2. CASE Regenerate(d) \/ Save(d)
  BY <1>2 DEF Regenerate, Save, Begin, TypeOK, Elsewhere
<1>3. CASE Exit(d)
  BY <1>3 DEF Exit, TypeOK, Elsewhere
<1> QED
  BY <1>1, <1>2, <1>3

\* So is what comes of it, but for the registry.
LEMMA WorkElsewhere ==
  ASSUME TypeOK, NEW d \in Devices, Work(d)
  PROVE  Elsewhere(d)
<1>1. CASE RunBlock(d)
  BY <1>1 DEF RunBlock, End, TypeOK, Elsewhere
<1>2. CASE ApplyWrite(d)
  BY <1>2 DEF ApplyWrite, device, TypeOK, Elsewhere
<1>3. ASSUME NEW c \in Chains, GenerateAnswer(d, c) PROVE Elsewhere(d)
  BY <1>3 DEF GenerateAnswer, AnswerOfGenerate, Put, End, TypeOK, Elsewhere
<1>4. ASSUME NEW c \in Chains, ConfirmAnswer(d, c) \/ AbortAnswer(d, c) PROVE Elsewhere(d)
  BY <1>4 DEF ConfirmAnswer, AbortAnswer, Notify, Put, End, device, TypeOK, Elsewhere
<1> QED
  BY <1>1, <1>2, <1>3, <1>4 DEF Work, Answer

\* The others stay at rest when the registry keeps what they rely on.
LEMMA StillAtRest ==
  ASSUME NEW d \in Devices, Rest(d), Elsewhere(d),
         \A e \in Devices \ {d} :
           /\ KeptTaken(e) => registry'[kept[e]] = "taken"
           /\ generating[e] => registry'[shown[e]] = "reserved"
  PROVE  Rest(d)'
<1>1. ASSUME NEW e \in Devices \ {d} PROVE Still(e)'
  BY DEF Rest, Elsewhere, Still
<1>2. ASSUME NEW e \in Devices \ {d} PROVE Steady(e)'
  BY DEF Rest, Elsewhere, Steady, KeptTaken
<1>3. ASSUME NEW e \in Devices \ {d}, NEW f \in Devices \ {d, e}
      PROVE  generating'[e] /\ generating'[f] => shown'[e] # shown'[f]
  BY DEF Rest, Elsewhere
<1> QED
  BY <1>1, <1>2, <1>3 DEF Rest

\* The other devices stay at rest while the registry stays.
LEMMA RestUntouched ==
  ASSUME NEW d \in Devices, Rest(d), Elsewhere(d), registry' = registry
  PROVE  Rest(d)'
BY StillAtRest DEF Rest, Steady, KeptTaken

\* A device at rest has nothing to do, and one at work keeps the users waiting.
LEMMA NoWorkAtRest ==
  ASSUME NEW e \in Devices, Still(e)
  PROVE  ~Work(e)
BY NoneType DEF Still, Work, RunBlock, ApplyWrite, Answer, GenerateAnswer, AnswerOfGenerate,
                ConfirmAnswer, AbortAnswer, Answers

\* The fields of the one chain under way.
LEMMA WorkingChain ==
  ASSUME NEW d \in Devices, NEW c \in Chains, NEW kind, NEW first, NEW stage,
         Working(d, c, kind, first, stage)
  PROVE  /\ chain[d][c] = ChainOf(d, kind, first, stage)
         /\ chain[d][c].kind = kind /\ chain[d][c].stage = stage
         /\ chain[d][c].first = first
         /\ chain[d][c].doc = DocOf(d, stage)
         /\ \A k \in Chains \ {c} : chain[d][k] = None
<1>1. chain[d][c] = ChainOf(d, kind, first, stage)
  BY DEF Working
<1>2. \A k \in Chains \ {c} : chain[d][k] = None
  BY DEF Working
<1> QED
  BY <1>1, <1>2 DEF ChainOf

\* A device at work has a chain, a block or a write under way.
LEMMA BusyNotQuiet ==
  ASSUME NEW d \in Devices, AtWork(d)
  PROVE  ~Quiet
<1>1. CASE First(d) \/ Trying(d) \/ Confirming(d) \/ Confirmed(d)
  <2>1. PICK c \in Chains, kind \in {"generate", "confirm"}, first \in BOOLEAN,
             stage \in Stage : Working(d, c, kind, first, stage)
    BY <1>1 DEF First, Trying, Confirming, Confirmed, Begun, Stage
  <2>2. chain[d][c].kind # "none"
    BY <2>1, WorkingChain
  <2> QED
    BY <2>2, NoneType DEF Quiet
<1>2. CASE Reserving(d) \/ Recording(d)
  BY <1>2 DEF Reserving, Recording, WriteOf, Quiet
<1> QED
  BY <1>1, <1>2 DEF AtWork

\* What a device with one chain can do next.
LEMMA OneChainWorks ==
  ASSUME NEW d \in Devices, NEW c \in Chains, NEW kind, NEW first, NEW stage \in Stage,
         Working(d, c, kind, first, stage), Work(d)
  PROVE  \/ ApplyWrite(d)
         \/ stage # "read" /\ RunBlock(d)
         \/ stage = "read" /\ Answer(d, c)
<1>1. CASE RunBlock(d)
  BY <1>1 DEF RunBlock, Working
<1>2. ASSUME NEW k \in Chains, Answer(d, k)
      PROVE  stage = "read" /\ k = c
  <2>1. chain[d][k].stage = "read" /\ chain[d][k].kind # "none"
    BY <1>2 DEF Answer, GenerateAnswer, AnswerOfGenerate, ConfirmAnswer, AbortAnswer, Answers
  <2> QED
    BY <2>1, WorkingChain, NoneType
<1> QED
  BY <1>1, <1>2 DEF Work

\* The chain with the only block picks its document.
Becomes(d, c, new) == chain' = [chain EXCEPT ![d][c] = new]

\* The one chain under way becomes another, and the rest stay away.
LEMMA NextStage ==
  ASSUME TypeOK, NEW d \in Devices, NEW c \in Chains,
         \A k \in Chains \ {c} : chain[d][k] = None,
         NEW new, Becomes(d, c, new)
  PROVE  chain'[d] = [k \in Chains |-> IF k = c THEN new ELSE None]
<1>1. chain'[d] = [chain[d] EXCEPT ![c] = new]
  BY DEF TypeOK, Becomes
<1>2. chain[d] \in [Chains -> Chain]
  BY DEF TypeOK
<1> QED
  BY <1>1, <1>2

\* The block of the one chain runs, and its document is asked for.
LEMMA BlockRuns ==
  ASSUME TypeOK, NEW d \in Devices, NEW c \in Chains, NEW kind, NEW first,
         Working(d, c, kind, first, "block"), RunBlock(d)
  PROVE  /\ Working(d, c, kind, first, "read")'
         /\ UNCHANGED <<registry, running, shown, kept, generating, writes>>
<1>1. queue[d] = <<c>> /\ Head(<<c>>) = c /\ Tail(<<c>>) = <<>>
  BY DEF Working
<1>2. /\ chain[d][c] = ChainOf(d, kind, first, "block") /\ chain[d][c].stage = "block"
      /\ \A k \in Chains \ {c} : chain[d][k] = None
  BY WorkingChain
<1>3. /\ chain' = [chain EXCEPT ![d][c].stage = "read", ![d][c].doc = shown[d].animal]
      /\ UNCHANGED <<registry, running, shown, kept, generating, writes>>
      /\ queue' = [queue EXCEPT ![d] = <<>>]
  BY <1>1, <1>2 DEF RunBlock
<1>4. PICK animal, new : animal = shown[d].animal
                         /\ new = [chain[d][c] EXCEPT !.stage = "read", !.doc = animal]
  OBVIOUS
<1>5. new = [kind |-> kind, stage |-> "read", doc |-> animal, first |-> first]
  <2>1. PICK old_ : old_ = DocOf(d, "block")
    OBVIOUS
  <2>2. chain[d][c] = [kind |-> kind, stage |-> "block", doc |-> old_, first |-> first]
    BY <1>2, <2>1 DEF ChainOf
  <2>3. new = [[kind |-> kind, stage |-> "block", doc |-> old_, first |-> first]
                 EXCEPT !.stage = "read", !.doc = animal]
    BY <1>4, <2>2
  <2> QED
    BY ONLY <2>3
<1>6. Becomes(d, c, new)
  BY <1>3, <1>4 DEF TypeOK, Becomes
<1>7. chain'[d] = [k \in Chains |-> IF k = c THEN new ELSE None]
  BY <1>2, <1>6, NextStage
<1>8. DocOf(d, "read")' = animal
  BY <1>3, <1>4 DEF DocOf
<1>9. ChainOf(d, kind, first, "read")' = new
  BY <1>5, <1>8 DEF ChainOf
<1>10. queue'[d] = <<>>
  BY <1>3 DEF TypeOK
<1> QED
  BY <1>3, <1>7, <1>9, <1>10 DEF Working

\* When it ends there is none.
LEMMA EndsChain ==
  ASSUME TypeOK, NEW d \in Devices, NEW c \in Chains, NEW kind, NEW first, NEW stage,
         Working(d, c, kind, first, stage), End(d, c)
  PROVE  \A k \in Chains : chain'[d][k] = None
<1>1. Becomes(d, c, None)
  BY DEF End, Becomes
<1>2. chain'[d] = [k \in Chains |-> IF k = c THEN None ELSE None]
  BY <1>1, WorkingChain, NextStage
<1> QED
  BY <1>2

\* The document is that of the name shown, and it can be read.
LEMMA ReadsWhatIsShown ==
  ASSUME ~ReadFails, NEW d \in Devices, NEW c \in Chains, NEW kind, NEW first,
         Working(d, c, kind, first, "read"), shown[d] \in Names, writes[d] = <<>>
  PROVE  /\ Readable(chain[d][c].doc) = {TRUE}
         /\ Name(chain[d][c].doc, shown[d].tag) = shown[d]
         /\ Seen(d, shown[d]) = registry[shown[d]]
<1>1. chain[d][c].doc = shown[d].animal /\ shown[d].animal \in Animals
  <2>1. chain[d][c].doc = DocOf(d, "read")
    BY WorkingChain
  <2> QED
    BY <2>1 DEF DocOf, Names
<1>2. Name(shown[d].animal, shown[d].tag) = shown[d]
  BY DEF Name, Names
<1>3. {i \in DOMAIN writes[d] : writes[d][i].field = shown[d]} = {}
  OBVIOUS
<1>4. Seen(d, shown[d]) = registry[shown[d]]
  BY <1>3 DEF Seen
<1> QED
  BY <1>1, <1>2, <1>4 DEF Readable

\* A write that is sent when none waits is the only one.
LEMMA PutsFirst ==
  ASSUME TypeOK, NEW d \in Devices, NEW f, NEW status, writes[d] = <<>>, Put(d, f, status)
  PROVE  writes'[d] = <<[field |-> f, status |-> status]>>
<1>1. PICK w : w = [field |-> f, status |-> status]
  OBVIOUS
<1>2. writes'[d] = Append(<<>>, w) /\ Append(<<>>, w) = <<w>>
  BY <1>1 DEF Put, TypeOK
<1> QED
  BY <1>1, <1>2

\* Firestore applies the only write.
LEMMA AppliesIt ==
  ASSUME TypeOK, NEW d \in Devices, NEW status, shown[d] \in Names,
         writes[d] = WriteOf(d, status), ApplyWrite(d)
  PROVE  /\ registry'[shown[d]] = status
         /\ \A f \in Fields \ {shown[d]} : registry'[f] = registry[f]
         /\ writes'[d] = <<>>
         /\ UNCHANGED <<running, shown, kept, generating, chain, queue>>
<1>1. PICK w : w = [field |-> shown[d], status |-> status]
  OBVIOUS
<1>2. writes[d] = <<w>> /\ Head(<<w>>) = w /\ Tail(<<w>>) = <<>>
  BY <1>1 DEF WriteOf
<1>3. w.field = shown[d] /\ w.status = status
  BY <1>1
<1>4. registry' = [registry EXCEPT ![shown[d]] = status] /\ writes' = [writes EXCEPT ![d] = <<>>]
  BY <1>2, <1>3 DEF ApplyWrite
<1>5. shown[d] \in Fields
  BY DEF Names, Fields
<1> QED
  BY <1>4, <1>5 DEF TypeOK, ApplyWrite, device

\* From work to rest and back.
LEMMA ComesToRest ==
  ASSUME NEW d \in Devices, Rest(d)', Still(d)', Steady(d)', generating'[d] => Apart(d)'
  PROVE  AllSteady'
<1>1. ASSUME NEW e \in Devices, generating'[e] PROVE Apart(e)'
  BY <1>1 DEF Rest, Apart
<1> QED
  BY <1>1 DEF AllSteady, Rest

\* When all devices are steady, those other than one are at rest.
LEMMA RestOfSteady ==
  ASSUME AllSteady, NEW d \in Devices
  PROVE  Rest(d)
BY DEF AllSteady, Rest, Apart

\* A candidate that is absent from the registry is nobody's.
LEMMA AbsentIsNobodys ==
  ASSUME NEW d \in Devices, Rest(d), registry[shown[d]] = "absent"
  PROVE  /\ Apart(d)
         /\ \A e \in Devices \ {d} : KeptTaken(e) => kept[e] # shown[d]
BY DEF Rest, Steady, Apart, KeptTaken

\* A name is a field that the registry can have.
LEMMA NamesAreFields ==
  ASSUME NEW n \in Names
  PROVE  n \in Fields
BY DEF Names, Fields

\* The first name is looked up and recorded.
LEMMA FirstWorks ==
  ASSUME ~ReadFails, NamingInv, NEW d \in Devices, AtWork(d), First(d), Work(d)
  PROVE  AtWork(d)'
<1>1. PICK c \in Chains, stage \in Begun :
        /\ Working(d, c, "generate", TRUE, stage)
        /\ ~generating[d] /\ kept[d] = shown[d] /\ registry[shown[d]] = "absent"
        /\ writes[d] = <<>>
  BY DEF First
<1>2. TypeOK /\ Elsewhere(d) /\ running[d] /\ shown[d] \in Names /\ Rest(d)
  BY WorkElsewhere DEF NamingInv, AtWork
<1>3. ~ApplyWrite(d)
  BY <1>1 DEF ApplyWrite
<1>4. CASE stage = "block"
  <2>1. RunBlock(d)
    BY <1>1, <1>3, <1>4, OneChainWorks DEF Begun, Stage
  <2>2. /\ Working(d, c, "generate", TRUE, "read")'
        /\ UNCHANGED <<registry, running, shown, kept, generating, writes>>
    BY <1>1, <1>2, <1>4, <2>1, BlockRuns
  <2>3. First(d)'
    BY <1>1, <2>2 DEF First, Begun
  <2> QED
    BY <1>2, <2>2, <2>3, RestUntouched DEF AtWork
<1>5. CASE stage = "read"
  <2>0. Working(d, c, "generate", TRUE, "read")
    BY <1>1, <1>5
  <2>1. Answer(d, c) /\ chain[d][c].kind = "generate" /\ chain[d][c].first = TRUE
    <3>1. chain[d][c].kind = "generate" /\ chain[d][c].first = TRUE
      BY <2>0, WorkingChain
    <3>2. Answer(d, c)
      BY <1>3, <2>0, OneChainWorks DEF Stage
    <3> QED
      BY <3>1, <3>2
  <2>2. GenerateAnswer(d, c)
    BY <2>1 DEF Answer, ConfirmAnswer, AbortAnswer, Answers
  <2>3. /\ Readable(chain[d][c].doc) = {TRUE}
        /\ Name(chain[d][c].doc, shown[d].tag) = shown[d]
        /\ Seen(d, shown[d]) = "absent"
    BY <1>1, <1>2, <1>5, ReadsWhatIsShown
  <2>4. /\ Put(d, shown[d], "taken") /\ End(d, c)
        /\ UNCHANGED <<shown, queue, registry, running, kept, generating>>
    BY <2>1, <2>2, <2>3 DEF GenerateAnswer, AnswerOfGenerate
  <2>5. writes'[d] = WriteOf(d, "taken")'
    BY <1>1, <1>2, <2>4, PutsFirst DEF WriteOf
  <2>6. \A k \in Chains : chain'[d][k] = None
    BY <1>1, <1>2, <2>4, EndsChain
  <2>7. Apart(d)'
    BY <1>1, <1>2, <2>4, AbsentIsNobodys DEF Apart
  <2>8. queue'[d] = <<>>
    BY <1>1, <1>5, <2>4 DEF Working
  <2>9. Recording(d)'
    BY <1>1, <2>4, <2>5, <2>6, <2>7, <2>8 DEF Recording
  <2> QED
    BY <1>2, <2>4, <2>9, RestUntouched DEF AtWork
<1> QED
  BY <1>1, <1>4, <1>5 DEF Begun

\* A candidate that is known already makes way for another, one that is not is reserved.
LEMMA TryingWorks ==
  ASSUME ~ReadFails, NamingInv, NEW d \in Devices, AtWork(d), Trying(d), Work(d)
  PROVE  AtWork(d)'
<1>1. PICK c \in Chains, stage \in Begun :
        /\ Working(d, c, "generate", FALSE, stage)
        /\ generating[d] /\ KeptTaken(d)
        /\ writes[d] = <<>>
  BY DEF Trying
<1>2. TypeOK /\ Elsewhere(d) /\ running[d] /\ shown[d] \in Names /\ Rest(d)
  BY WorkElsewhere DEF NamingInv, AtWork
<1>3. ~ApplyWrite(d)
  BY <1>1 DEF ApplyWrite
<1>4. CASE stage = "block"
  <2>1. RunBlock(d)
    BY <1>1, <1>3, <1>4, OneChainWorks DEF Begun, Stage
  <2>2. /\ Working(d, c, "generate", FALSE, "read")'
        /\ UNCHANGED <<registry, running, shown, kept, generating, writes>>
    BY <1>1, <1>2, <1>4, <2>1, BlockRuns
  <2>3. Trying(d)'
    BY <1>1, <2>2 DEF Trying, Begun, KeptTaken
  <2> QED
    BY <1>2, <2>2, <2>3, RestUntouched DEF AtWork
<1>5. CASE stage = "read"
  <2>0. Working(d, c, "generate", FALSE, "read")
    BY <1>1, <1>5
  <2>1. Answer(d, c) /\ chain[d][c].kind = "generate" /\ chain[d][c].first = FALSE
    <3>1. chain[d][c].kind = "generate" /\ chain[d][c].first = FALSE
      BY <2>0, WorkingChain
    <3>2. Answer(d, c)
      BY <1>3, <2>0, OneChainWorks DEF Stage
    <3> QED
      BY <3>1, <3>2
  <2>2. GenerateAnswer(d, c)
    BY <2>1 DEF Answer, ConfirmAnswer, AbortAnswer, Answers
  <2>3. /\ Readable(chain[d][c].doc) = {TRUE}
        /\ Name(chain[d][c].doc, shown[d].tag) = shown[d]
        /\ Seen(d, shown[d]) = registry[shown[d]]
    BY <1>1, <1>2, <1>5, ReadsWhatIsShown
  <2>4. UNCHANGED <<registry, running, kept, generating>>
    BY <2>2 DEF GenerateAnswer, AnswerOfGenerate
  <2>5. CASE registry[shown[d]] = "absent"
    <3>1. Put(d, shown[d], "reserved") /\ End(d, c) /\ UNCHANGED <<shown, queue>>
      BY <2>1, <2>2, <2>3, <2>5 DEF GenerateAnswer, AnswerOfGenerate
    <3>2. writes'[d] = WriteOf(d, "reserved")'
      BY <1>1, <1>2, <3>1, PutsFirst DEF WriteOf
    <3>3. \A k \in Chains : chain'[d][k] = None
      BY <1>1, <1>2, <3>1, EndsChain
    <3>4. queue'[d] = <<>>
      BY <1>1, <1>5, <3>1 DEF Working
    <3>5. Reserving(d)'
      BY <1>1, <2>4, <2>5, <3>1, <3>2, <3>3, <3>4 DEF Reserving, KeptTaken
    <3> QED
      BY <1>2, <2>4, <3>1, <3>5, RestUntouched DEF AtWork
  <2>6. CASE registry[shown[d]] # "absent"
    <3>1. /\ \E name \in Names : shown' = [shown EXCEPT ![d] = name]
          /\ chain' = [chain EXCEPT ![d][c].stage = "block", ![d][c].doc = ""]
          /\ queue' = [queue EXCEPT ![d] = Append(@, c)]
          /\ UNCHANGED writes
      BY <2>1, <2>2, <2>3, <2>6 DEF GenerateAnswer, AnswerOfGenerate
    <3>2. shown'[d] \in Names
      BY <1>2, <3>1 DEF TypeOK
    <3>3. Working(d, c, "generate", FALSE, "block")'
      <4>1. queue'[d] = <<c>>
        <5>1. queue[d] = <<>> /\ Append(<<>>, c) = <<c>>
          BY <1>1, <1>5 DEF Working
        <5> QED
          BY <1>2, <3>1, <5>1 DEF TypeOK
      <4>2. PICK doc, new : /\ doc = DocOf(d, "read")
                            /\ new = [chain[d][c] EXCEPT !.stage = "block", !.doc = ""]
        OBVIOUS
      <4>3. chain[d][c] = [kind |-> "generate", stage |-> "read", doc |-> doc, first |-> FALSE]
        <5>1. chain[d][c] = ChainOf(d, "generate", FALSE, "read")
          BY <2>0, WorkingChain
        <5> QED
          BY <4>2, <5>1 DEF ChainOf
      <4>4. new = [[kind |-> "generate", stage |-> "read", doc |-> doc, first |-> FALSE]
                     EXCEPT !.stage = "block", !.doc = ""]
        BY <4>2, <4>3
      <4>5. new = [kind |-> "generate", stage |-> "block", doc |-> "", first |-> FALSE]
        BY ONLY <4>4
      <4>6. Becomes(d, c, new)
        BY <1>2, <3>1, <4>2 DEF TypeOK, Becomes
      <4>7. chain'[d] = [k \in Chains |-> IF k = c THEN new ELSE None]
        <5>1. \A k \in Chains \ {c} : chain[d][k] = None
          BY <2>0, WorkingChain
        <5> QED
          BY <1>2, <4>6, <5>1, NextStage
      <4>8. DocOf(d, "block")' = ""
        BY DEF DocOf
      <4>9. ChainOf(d, "generate", FALSE, "block")' = new
        BY <4>5, <4>8 DEF ChainOf
      <4> QED
        BY <4>1, <4>7, <4>9 DEF Working
    <3>4. Trying(d)'
      BY <1>1, <2>4, <3>1, <3>3 DEF Trying, KeptTaken, Begun
    <3> QED
      BY <1>2, <2>4, <3>2, <3>4, RestUntouched DEF AtWork
  <2> QED
    BY <2>5, <2>6
<1> QED
  BY <1>1, <1>4, <1>5 DEF Begun

\* The reservation is applied.
LEMMA ReservingWorks ==
  ASSUME NamingInv, NEW d \in Devices, AtWork(d), Reserving(d), Work(d)
  PROVE  AllSteady'
<1>1. /\ TypeOK /\ Elsewhere(d) /\ running[d] /\ shown[d] \in Names /\ Rest(d)
      /\ \A c \in Chains : chain[d][c] = None
      /\ queue[d] = <<>> /\ generating[d] /\ KeptTaken(d) /\ registry[shown[d]] = "absent"
      /\ writes[d] = WriteOf(d, "reserved")
  BY WorkElsewhere DEF NamingInv, AtWork, Reserving
<1>2. ApplyWrite(d)
  BY <1>1, NoneType DEF Work, RunBlock, Answer, GenerateAnswer, AnswerOfGenerate,
                        ConfirmAnswer, AbortAnswer, Answers
<1>3. /\ registry'[shown[d]] = "reserved"
      /\ \A f \in Fields \ {shown[d]} : registry'[f] = registry[f]
      /\ writes'[d] = <<>>
      /\ UNCHANGED <<running, shown, kept, generating, chain, queue>>
  BY <1>1, <1>2, AppliesIt
<1>4. Apart(d) /\ \A e \in Devices \ {d} : KeptTaken(e) => kept[e] # shown[d]
  BY <1>1, AbsentIsNobodys
<1>5. Rest(d)'
  <2>1. ASSUME NEW e \in Devices \ {d}, KeptTaken(e) PROVE registry'[kept[e]] = "taken"
    BY <1>3, <1>4, <2>1, NamesAreFields DEF KeptTaken
  <2>2. ASSUME NEW e \in Devices \ {d}, generating[e] PROVE registry'[shown[e]] = "reserved"
    BY <1>1, <1>3, <1>4, <2>2, NamesAreFields DEF Rest, Steady, Apart
  <2> QED
    BY <1>1, <2>1, <2>2, StillAtRest
<1>6. Still(d)'
  BY <1>1, <1>3 DEF Still
<1>7. Steady(d)'
  <2>1. kept[d] \in Names /\ kept[d] # shown[d] /\ registry'[kept[d]] = "taken"
    BY <1>1, <1>3, NamesAreFields DEF KeptTaken
  <2> QED
    BY <1>1, <1>3, <2>1, NamesAreNames DEF Steady, KeptTaken
<1>8. Apart(d)'
  BY <1>3, <1>4 DEF Apart
<1>9. AllSteady'
  BY <1>5, <1>6, <1>7, <1>8, ComesToRest
<1> QED
  BY <1>9

\* The field of a candidate that was saved is recorded as taken.
LEMMA ConfirmingWorks ==
  ASSUME ~ReadFails, NamingInv, NEW d \in Devices, AtWork(d), Confirming(d), Work(d)
  PROVE  AtWork(d)'
<1>1. PICK c \in Chains, stage \in Begun :
        /\ Working(d, c, "confirm", FALSE, stage)
        /\ ~generating[d] /\ KeptTaken(d) /\ registry[shown[d]] = "reserved" /\ Apart(d)
        /\ writes[d] = <<>>
  BY DEF Confirming
<1>2. TypeOK /\ Elsewhere(d) /\ running[d] /\ shown[d] \in Names /\ Rest(d)
  BY WorkElsewhere DEF NamingInv, AtWork
<1>3. ~ApplyWrite(d)
  BY <1>1 DEF ApplyWrite
<1>4. CASE stage = "block"
  <2>1. RunBlock(d)
    BY <1>1, <1>3, <1>4, OneChainWorks DEF Begun, Stage
  <2>2. /\ Working(d, c, "confirm", FALSE, "read")'
        /\ UNCHANGED <<registry, running, shown, kept, generating, writes>>
    BY <1>1, <1>2, <1>4, <2>1, BlockRuns
  <2>3. Confirming(d)'
    BY <1>1, <2>2 DEF Confirming, Begun, KeptTaken, Apart
  <2> QED
    BY <1>2, <2>2, <2>3, RestUntouched DEF AtWork
<1>5. CASE stage = "read"
  <2>0. Working(d, c, "confirm", FALSE, "read")
    BY <1>1, <1>5
  <2>1. ConfirmAnswer(d, c)
    <3>1. chain[d][c].kind = "confirm"
      BY <2>0, WorkingChain
    <3>2. Answer(d, c)
      BY <1>3, <2>0, OneChainWorks DEF Stage
    <3> QED
      BY <3>1, <3>2 DEF Answer, GenerateAnswer, AnswerOfGenerate, AbortAnswer, Answers
  <2>2. /\ Readable(chain[d][c].doc) = {TRUE}
        /\ Name(chain[d][c].doc, shown[d].tag) = shown[d]
    BY <1>1, <1>2, <2>0, ReadsWhatIsShown
  <2>3. /\ Put(d, shown[d], "taken") /\ Notify(d, c)
        /\ UNCHANGED <<shown, registry, running, kept, generating>>
    BY <2>1, <2>2 DEF ConfirmAnswer, device
  <2>4. writes'[d] = WriteOf(d, "taken")'
    BY <1>1, <1>2, <2>3, PutsFirst DEF WriteOf
  <2>5. Working(d, c, "confirm", FALSE, "notify")'
    <3>1. queue'[d] = <<c>>
      <4>1. queue[d] = <<>> /\ Append(<<>>, c) = <<c>>
        BY <2>0 DEF Working
      <4> QED
        BY <1>2, <2>3, <4>1 DEF TypeOK, Notify
    <3>2. PICK doc, new : /\ doc = DocOf(d, "read")
                          /\ new = [chain[d][c] EXCEPT !.stage = "notify"]
      OBVIOUS
    <3>3. chain[d][c] = [kind |-> "confirm", stage |-> "read", doc |-> doc, first |-> FALSE]
      <4>1. chain[d][c] = ChainOf(d, "confirm", FALSE, "read")
        BY <2>0, WorkingChain
      <4> QED
        BY <3>2, <4>1 DEF ChainOf
    <3>4. new = [[kind |-> "confirm", stage |-> "read", doc |-> doc, first |-> FALSE]
                   EXCEPT !.stage = "notify"]
      BY <3>2, <3>3
    <3>5. new = [kind |-> "confirm", stage |-> "notify", doc |-> doc, first |-> FALSE]
      BY ONLY <3>4
    <3>6. Becomes(d, c, new)
      BY <1>2, <2>3, <3>2 DEF TypeOK, Becomes, Notify
    <3>7. chain'[d] = [k \in Chains |-> IF k = c THEN new ELSE None]
      <4>1. \A k \in Chains \ {c} : chain[d][k] = None
        BY <2>0, WorkingChain
      <4> QED
        BY <1>2, <3>6, <4>1, NextStage
    <3>8. DocOf(d, "notify")' = doc
      BY <2>3, <3>2 DEF DocOf
    <3>9. ChainOf(d, "confirm", FALSE, "notify")' = new
      BY <3>5, <3>8 DEF ChainOf
    <3> QED
      BY <3>1, <3>7, <3>9 DEF Working
  <2>6. Confirmed(d)'
    BY <1>1, <2>3, <2>4, <2>5 DEF Confirmed, KeptTaken, Apart
  <2> QED
    BY <1>2, <2>3, <2>6, RestUntouched DEF AtWork
<1> QED
  BY <1>1, <1>4, <1>5 DEF Begun

\* The record is applied before or after the name is kept.
LEMMA TakenAtRest ==
  ASSUME NEW d \in Devices, Rest(d), Elsewhere(d), shown[d] \in Names, Apart(d),
         registry'[shown[d]] = "taken",
         \A f \in Fields \ {shown[d]} : registry'[f] = registry[f]
  PROVE  Rest(d)'
<1>1. ASSUME NEW e \in Devices \ {d}, KeptTaken(e) PROVE registry'[kept[e]] = "taken"
  BY <1>1, NamesAreFields DEF KeptTaken
<1>2. ASSUME NEW e \in Devices \ {d}, generating[e] PROVE registry'[shown[e]] = "reserved"
  BY <1>2, NamesAreFields DEF Rest, Steady, Apart
<1> QED
  BY <1>1, <1>2, StillAtRest

\* The record is applied, and the name is kept, in either order.
LEMMA ConfirmedWorks ==
  ASSUME NamingInv, NEW d \in Devices, AtWork(d), Confirmed(d), Work(d)
  PROVE  AtWork(d)' \/ AllSteady'
<1>1. PICK c \in Chains :
        /\ Working(d, c, "confirm", FALSE, "notify")
        /\ ~generating[d] /\ KeptTaken(d) /\ Apart(d)
        /\ \/ writes[d] = WriteOf(d, "taken")
           \/ writes[d] = <<>> /\ registry[shown[d]] = "taken"
  BY DEF Confirmed
<1>2. TypeOK /\ Elsewhere(d) /\ running[d] /\ shown[d] \in Names /\ Rest(d)
  BY WorkElsewhere DEF NamingInv, AtWork
<1>3. CASE ApplyWrite(d)
  <2>1. writes[d] = WriteOf(d, "taken")
    BY <1>1, <1>3 DEF ApplyWrite
  <2>2. /\ registry'[shown[d]] = "taken"
        /\ \A f \in Fields \ {shown[d]} : registry'[f] = registry[f]
        /\ writes'[d] = <<>>
        /\ UNCHANGED <<running, shown, kept, generating, chain, queue>>
    BY <1>2, <1>3, <2>1, AppliesIt
  <2>3. Rest(d)'
    BY <1>1, <1>2, <2>2, TakenAtRest
  <2>4. KeptTaken(d)'
    BY <1>1, <2>2, NamesAreFields DEF KeptTaken
  <2>5. Working(d, c, "confirm", FALSE, "notify")'
    BY <1>1, <2>2 DEF Working, ChainOf, DocOf
  <2>6. Confirmed(d)'
    BY <1>1, <2>2, <2>4, <2>5 DEF Confirmed, Apart
  <2> QED
    BY <1>2, <2>2, <2>3, <2>6 DEF AtWork
<1>4. CASE RunBlock(d)
  <2>1. queue[d] = <<c>> /\ Head(<<c>>) = c /\ Tail(<<c>>) = <<>>
    BY <1>1 DEF Working
  <2>2. chain[d][c].stage = "notify"
    BY <1>1, WorkingChain
  <2>3. /\ kept' = [kept EXCEPT ![d] = shown[d]] /\ End(d, c)
        /\ queue' = [queue EXCEPT ![d] = <<>>]
        /\ UNCHANGED <<registry, running, shown, generating, writes>>
    BY <1>4, <2>1, <2>2 DEF RunBlock
  <2>4. \A k \in Chains : chain'[d][k] = None
    BY <1>1, <1>2, <2>3, EndsChain
  <2>5. kept'[d] = shown[d] /\ queue'[d] = <<>>
    BY <1>2, <2>3 DEF TypeOK
  <2>6. Rest(d)' /\ Apart(d)'
    BY <1>1, <1>2, <2>3, RestUntouched DEF Apart
  <2>7. CASE writes[d] = WriteOf(d, "taken")
    <3>1. Recording(d)'
      BY <1>1, <2>3, <2>4, <2>5, <2>6, <2>7 DEF Recording, WriteOf
    <3> QED
      BY <1>2, <2>3, <2>6, <3>1 DEF AtWork
  <2>8. CASE writes[d] = <<>> /\ registry[shown[d]] = "taken"
    <3>1. Still(d)'
      BY <2>3, <2>4, <2>5, <2>8 DEF Still
    <3>2. Steady(d)'
      BY <1>1, <1>2, <2>3, <2>5, <2>8, NamesAreNames DEF Steady, KeptTaken
    <3>3. AllSteady'
      BY <2>6, <3>1, <3>2, ComesToRest
    <3> QED
      BY <3>3
  <2> QED
    BY <1>1, <2>7, <2>8
<1> QED
  BY <1>1, <1>3, <1>4, OneChainWorks DEF Stage

\* The record of a name that is kept already is applied.
LEMMA RecordingWorks ==
  ASSUME NamingInv, NEW d \in Devices, AtWork(d), Recording(d), Work(d)
  PROVE  AllSteady'
<1>1. /\ TypeOK /\ Elsewhere(d) /\ running[d] /\ shown[d] \in Names /\ Rest(d)
      /\ \A c \in Chains : chain[d][c] = None
      /\ queue[d] = <<>> /\ ~generating[d] /\ kept[d] = shown[d] /\ Apart(d)
      /\ writes[d] = WriteOf(d, "taken")
  BY WorkElsewhere DEF NamingInv, AtWork, Recording
<1>2. ApplyWrite(d)
  BY <1>1, NoneType DEF Work, RunBlock, Answer, GenerateAnswer, AnswerOfGenerate,
                        ConfirmAnswer, AbortAnswer, Answers
<1>3. /\ registry'[shown[d]] = "taken"
      /\ \A f \in Fields \ {shown[d]} : registry'[f] = registry[f]
      /\ writes'[d] = <<>>
      /\ UNCHANGED <<running, shown, kept, generating, chain, queue>>
  BY <1>1, <1>2, AppliesIt
<1>4. Rest(d)'
  BY <1>1, <1>3, TakenAtRest
<1>5. Still(d)' /\ Steady(d)'
  BY <1>1, <1>3, NamesAreNames DEF Still, Steady, KeptTaken
<1>6. AllSteady'
  BY <1>1, <1>3, <1>4, <1>5, ComesToRest
<1> QED
  BY <1>6

-----------------------------------------------------------------------------
\* The taps, which find every device at rest.

\* A tap on a device at rest starts its one chain.
LEMMA BeginWorks ==
  ASSUME TypeOK, NEW d \in Devices, NEW c \in Chains, NEW kind, NEW first,
         Still(d), Begin(d, c, kind, first)
  PROVE  Working(d, c, kind, first, "block")'
<1>1. PICK new : new = [kind |-> kind, stage |-> "block", doc |-> "", first |-> first]
  OBVIOUS
<1>2. Becomes(d, c, new)
  BY <1>1 DEF Begin, Becomes
<1>3. chain'[d] = [k \in Chains |-> IF k = c THEN new ELSE None]
  BY <1>2, NextStage DEF Still
<1>4. queue'[d] = <<c>>
  <2>1. queue[d] = <<>> /\ Append(<<>>, c) = <<c>>
    BY DEF Still
  <2> QED
    BY <2>1 DEF Begin, TypeOK
<1>5. DocOf(d, "block")' = ""
  BY DEF DocOf
<1>6. ChainOf(d, kind, first, "block")' = new
  BY <1>1, <1>5 DEF ChainOf
<1> QED
  BY <1>3, <1>4, <1>6 DEF Working

\* A first name, kept at once, is looked up by a device that has none; others only start.
LEMMA LaunchPatient ==
  ASSUME NamingInv, AllSteady, NEW d \in Devices, Launch(d), FreeAtFirst
  PROVE  AtWork(d)' \/ AllSteady'
<1>1. /\ TypeOK /\ Still(d) /\ Steady(d) /\ ~running[d] /\ ~generating[d]
      /\ UNCHANGED <<registry, generating, writes>>
  BY DEF NamingInv, AllSteady, Launch, Steady
<1>2. Rest(d)' /\ running'[d] /\ ~generating'[d]
  BY <1>1, RestOfSteady, TapElsewhere, RestUntouched DEF Launch, TypeOK
<1>3. CASE kept[d] = NoName
  <2>1. PICK name \in Names, c \in Chains :
          /\ shown' = [shown EXCEPT ![d] = name]
          /\ kept' = [kept EXCEPT ![d] = name]
          /\ Begin(d, c, "generate", TRUE)
    BY <1>3 DEF Launch
  <2>2. shown'[d] = name /\ kept'[d] = name
    BY <1>1, <2>1 DEF TypeOK
  <2>3. registry[name] = "absent"
    BY <1>3, <2>2, NamesAreNames DEF FreeAtFirst
  <2>4. Working(d, c, "generate", TRUE, "block")'
    BY <1>1, <2>1, BeginWorks
  <2>5. First(d)'
    BY <1>1, <1>2, <2>2, <2>3, <2>4 DEF First, Begun, Still
  <2> QED
    BY <1>2, <2>2, <2>5 DEF AtWork
<1>4. CASE kept[d] # NoName
  <2>1. shown' = [shown EXCEPT ![d] = kept[d]] /\ UNCHANGED <<kept, chain, queue>>
    BY <1>4 DEF Launch
  <2>2. Still(d)'
    BY <1>1, <2>1 DEF Still
  <2>3. Steady(d)'
    BY <1>1, <1>2, <1>4, <2>1 DEF Steady, KeptTaken, TypeOK
  <2>4. AllSteady'
    BY <1>2, <2>2, <2>3, ComesToRest
  <2> QED
    BY <2>4
<1> QED
  BY <1>3, <1>4

\* A new candidate is looked up.
LEMMA RegeneratePatient ==
  ASSUME NamingInv, AllSteady, NEW d \in Devices, Regenerate(d)
  PROVE  AtWork(d)'
<1>1. /\ TypeOK /\ Still(d) /\ running[d] /\ KeptTaken(d)
      /\ UNCHANGED <<registry, running, kept, writes>>
  BY DEF NamingInv, AllSteady, Regenerate, Steady
<1>2. PICK name \in Names, c \in Chains :
        /\ generating' = [generating EXCEPT ![d] = TRUE]
        /\ shown' = [shown EXCEPT ![d] = name]
        /\ Begin(d, c, "generate", FALSE)
  BY DEF Regenerate
<1>3. Rest(d)'
  BY <1>1, RestOfSteady, TapElsewhere, RestUntouched
<1>4. shown'[d] = name /\ generating'[d]
  BY <1>1, <1>2 DEF TypeOK
<1>5. Working(d, c, "generate", FALSE, "block")'
  BY <1>1, <1>2, BeginWorks
<1>6. Trying(d)'
  BY <1>1, <1>4, <1>5 DEF Trying, Begun, KeptTaken, Still
<1> QED
  BY <1>1, <1>3, <1>4, <1>6 DEF AtWork

\* The reserved candidate is to be recorded.
LEMMA SavePatient ==
  ASSUME NamingInv, AllSteady, NEW d \in Devices, Save(d)
  PROVE  AtWork(d)'
<1>1. /\ TypeOK /\ Still(d) /\ running[d] /\ KeptTaken(d) /\ Apart(d)
      /\ shown[d] \in Names /\ registry[shown[d]] = "reserved"
      /\ UNCHANGED <<registry, running, shown, kept, writes>>
  BY DEF NamingInv, AllSteady, Save, Steady
<1>2. PICK c \in Chains : /\ generating' = [generating EXCEPT ![d] = FALSE]
                          /\ Begin(d, c, "confirm", FALSE)
  BY DEF Save
<1>3. Rest(d)'
  BY <1>1, RestOfSteady, TapElsewhere, RestUntouched
<1>4. ~generating'[d] /\ \A e \in Devices \ {d} : generating'[e] = generating[e]
  BY <1>1, <1>2 DEF TypeOK
<1>5. Working(d, c, "confirm", FALSE, "block")'
  BY <1>1, <1>2, BeginWorks
<1>6. Confirming(d)'
  BY <1>1, <1>4, <1>5 DEF Confirming, Begun, KeptTaken, Still, Apart
<1> QED
  BY <1>1, <1>3, <1>6 DEF AtWork

\* A process that ends with nothing under way leaves a steady device.
LEMMA ExitPatient ==
  ASSUME NamingInv, AllSteady, NEW d \in Devices, Exit(d)
  PROVE  AllSteady'
<1>1. TypeOK /\ Still(d) /\ Steady(d) /\ UNCHANGED <<registry, kept, writes>>
  BY DEF NamingInv, AllSteady, Exit
<1>2. Rest(d)'
  BY <1>1, RestOfSteady, TapElsewhere, RestUntouched
<1>3. ~running'[d] /\ ~generating'[d] /\ shown'[d] = NoName /\ Still(d)'
  BY <1>1 DEF Exit, TypeOK, Still
<1>4. Steady(d)'
  BY <1>1, <1>3 DEF Steady, KeptTaken
<1>5. AllSteady'
  BY <1>2, <1>3, <1>4, ComesToRest
<1> QED
  BY <1>5

-----------------------------------------------------------------------------
\* At the start every device is steady.
LEMMA PatientInit == Init => PatientInv
<1>1. Init => AllSteady
  BY DEF Init, AllSteady, Still, Steady
<1> QED
  BY <1>1, NamingInit DEF PatientInv

\* What patient users do is what users do.
LEMMA PatientIsNext == PatientNext => Next
BY DEF PatientNext, WaitingNext, PatientTap, Work, Next

\* A chain under way is untouched by a step that changes nothing.
LEMMA WorkingStutters ==
  ASSUME UNCHANGED <<shown, chain, queue>>,
         NEW d, NEW c, NEW kind, NEW first, NEW stage, Working(d, c, kind, first, stage)
  PROVE  Working(d, c, kind, first, stage)'
<1>1. DocOf(d, stage)' = DocOf(d, stage)
  BY DEF DocOf
<1>2. ChainOf(d, kind, first, stage)' = ChainOf(d, kind, first, stage)
  BY <1>1 DEF ChainOf
<1> QED
  BY <1>2 DEF Working

\* So are devices, at rest or at work.
LEMMA RestStutters ==
  ASSUME UNCHANGED vars
  PROVE  /\ AllSteady => AllSteady'
         /\ \A d \in Devices : AtWork(d) => AtWork(d)'
<1>1. UNCHANGED <<registry, running, shown, kept, generating, chain, queue, writes>>
  BY DEF vars, device
<1>2. AllSteady => AllSteady'
  BY <1>1 DEF AllSteady, Still, Steady, KeptTaken, Apart
<1>3. ASSUME NEW d \in Devices, AtWork(d) PROVE AtWork(d)'
  <2>1. Rest(d)'
    BY <1>1, <1>3, RestUntouched DEF Elsewhere, AtWork
  <2>2. First(d) => First(d)'
    BY <1>1, WorkingStutters DEF First
  <2>3. Trying(d) => Trying(d)'
    BY <1>1, WorkingStutters DEF Trying, KeptTaken
  <2>4. Confirming(d) => Confirming(d)'
    BY <1>1, WorkingStutters DEF Confirming, KeptTaken, Apart
  <2>5. Confirmed(d) => Confirmed(d)'
    BY <1>1, WorkingStutters DEF Confirmed, KeptTaken, Apart, WriteOf
  <2>6. (Reserving(d) => Reserving(d)') /\ (Recording(d) => Recording(d)')
    BY <1>1 DEF Reserving, Recording, KeptTaken, Apart, WriteOf
  <2> QED
    BY <1>1, <1>3, <2>1, <2>2, <2>3, <2>4, <2>5, <2>6 DEF AtWork
<1> QED
  BY <1>2, <1>3

\* Every step of patient users leaves all devices steady, or one at work.
LEMMA PatientInvNext ==
  ASSUME ~ReadFails, PatientInv, [PatientNext]_vars
  PROVE  PatientInv'
<1>1. NamingInv'
  BY NamingNext, PatientIsNext DEF PatientInv
<1>2. CASE UNCHANGED vars
  BY <1>1, <1>2, RestStutters DEF PatientInv
<1>3. CASE AllSteady /\ PatientNext
  <2>1. PICK d \in Devices : PatientTap(d) \/ Work(d)
    BY <1>3 DEF PatientNext, WaitingNext
  <2>2. PatientTap(d) /\ FreeAtFirst /\ NamingInv
    BY <1>3, <2>1, NoWorkAtRest DEF AllSteady, PatientNext, PatientInv
  <2>3. AtWork(d)' \/ AllSteady'
    BY <1>3, <2>2, LaunchPatient, RegeneratePatient, SavePatient, ExitPatient DEF PatientTap
  <2> QED
    BY <1>1, <2>3 DEF PatientInv
<1>4. ASSUME NEW d \in Devices, AtWork(d), PatientNext
      PROVE  PatientInv'
  <2>1. PICK e \in Devices : PatientTap(e) \/ Work(e)
    BY <1>4 DEF PatientNext, WaitingNext
  <2>2. ~PatientTap(e)
    BY <1>4, BusyNotQuiet DEF PatientTap
  <2>3. e = d
    BY <1>4, <2>1, <2>2, NoWorkAtRest DEF AtWork, Rest
  <2>4. Work(d) /\ NamingInv
    BY <2>1, <2>2, <2>3 DEF PatientInv
  <2>5. AtWork(d)' \/ AllSteady'
    BY <1>4, <2>4, FirstWorks, TryingWorks, ReservingWorks, ConfirmingWorks, ConfirmedWorks,
       RecordingWorks DEF AtWork
  <2> QED
    BY <1>1, <2>5 DEF PatientInv
<1> QED
  BY <1>2, <1>3, <1>4 DEF PatientInv

\* The invariant of users who wait for their taps to end.
LEMMA PatientInvariant ==
  ASSUME ~ReadFails
  PROVE  PatientSpec => []PatientInv
BY PatientInit, PatientInvNext, PTL DEF PatientSpec

\* Nothing under way means that every device is at rest.
LEMMA QuietIsSteady ==
  ASSUME PatientInv, Quiet
  PROVE  AllSteady
BY BusyNotQuiet DEF PatientInv

\* Of users who take turns, each waiting until a tap has come to its end, whose first
\* candidate is free, who do not cancel one, and whose documents can be read: the
\* name that a device keeps is recorded as taken, for any number of devices and names.
THEOREM PatientKeptIsTaken ==
  ASSUME ~ReadFails
  PROVE  PatientSpec => []KeptIsTaken
<1>1. PatientInv => KeptIsTaken
  BY QuietIsSteady DEF KeptIsTaken, AllSteady, Steady, KeptTaken
<1> QED
  BY <1>1, PatientInvariant, PTL

\* Of the same users: the candidate that one still decides about is reserved, and
\* shown by no other device.
THEOREM PatientCandidateIsReserved ==
  ASSUME ~ReadFails
  PROVE  PatientSpec => []CandidateIsReserved
<1>1. PatientInv => CandidateIsReserved
  <2> SUFFICES ASSUME AllSteady, NEW d \in Devices, generating[d]
               PROVE  /\ registry[shown[d]] = "reserved"
                      /\ \A e \in Devices \ {d} : shown[e] # shown[d]
    BY QuietIsSteady DEF CandidateIsReserved
  <2>1. shown[d] \in Names /\ registry[shown[d]] = "reserved" /\ Apart(d)
    BY DEF AllSteady, Steady
  <2>2. ASSUME NEW e \in Devices \ {d} PROVE shown[e] # shown[d]
    BY <2>1, NamesAreNames DEF AllSteady, Steady, KeptTaken, Apart
  <2> QED
    BY <2>1, <2>2
<1> QED
  BY <1>1, PatientInvariant, PTL

\* Of the same users: no step records a name that is taken anew, as reserved or as
\* free.  (A cancel would: it deletes the record of the name that is kept.)
THEOREM PatientNamesAreNotLost ==
  ASSUME ~ReadFails
  PROVE  PatientSpec => NamesAreNotLost
<1>1. PatientInv /\ [PatientNext]_vars =>
        [\A f \in Fields : registry[f] = "taken" => registry'[f] = "taken"]_vars
  <2> SUFFICES ASSUME PatientInv, PatientNext, NEW f \in Fields, registry[f] = "taken"
               PROVE  registry'[f] = "taken"
    OBVIOUS
  <2>1. PICK d \in Devices : PatientTap(d) \/ Work(d)
    BY DEF PatientNext, WaitingNext
  <2>2. CASE registry' = registry
    BY <2>2
  <2>3. CASE registry' # registry
    <3>1. ApplyWrite(d)
      BY <2>1, <2>3 DEF PatientTap, Launch, Regenerate, Save, Exit, Work, RunBlock, Answer,
         GenerateAnswer, AnswerOfGenerate, ConfirmAnswer, AbortAnswer
    <3>2. AtWork(d) /\ TypeOK /\ shown[d] \in Names
      BY <3>1, NoWorkAtRest DEF PatientInv, NamingInv, AllSteady, AtWork, Rest, Work
    <3>3. writes[d] # <<>>
      BY <3>1 DEF ApplyWrite
    <3>4. \/ writes[d] = WriteOf(d, "taken")
          \/ writes[d] = WriteOf(d, "reserved") /\ registry[shown[d]] = "absent"
      BY <3>2, <3>3 DEF AtWork, First, Trying, Reserving, Confirming, Confirmed, Recording
    <3>5. CASE writes[d] = WriteOf(d, "taken")
      BY <3>1, <3>2, <3>5, AppliesIt
    <3>6. CASE writes[d] = WriteOf(d, "reserved") /\ registry[shown[d]] = "absent"
      BY <3>1, <3>2, <3>6, AppliesIt
    <3> QED
      BY <3>4, <3>5, <3>6
  <2> QED
    BY <2>2, <2>3
<1> QED
  BY <1>1, PatientInvariant, PTL DEF PatientSpec, NamesAreNotLost
=============================================================================
