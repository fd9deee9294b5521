--------------------------- MODULE JobProofProofs ---------------------------
(***************************************************************************)
(* Theorems about JobProof, for any number of runners, jobs, events and    *)
(* restarts and any capacity of the queue: what the marker vouches for is  *)
(* whole, belongs to its instance and never changes; the helper hands out  *)
(* nothing else; a delivery that reports success has committed its proof.  *)
(***************************************************************************)
EXTENDS JobProof, TLAPS

-----------------------------------------------------------------------------
(* Types *)

\* TypeOK, by the group of variables.
MachineType == /\ uuid \in [Runner -> 1..MaxUUID]
               /\ bound \in [Runner -> 1..MaxUUID]
               /\ running \in [Runner -> BOOLEAN]
FileType == /\ proof \in [Runner -> Content]
            /\ ready \in [Runner -> BOOLEAN]
GuestType == /\ helper \in [Runner -> {"waiting", "seen", "done", "failed"}]
             /\ copied \in [Runner -> Content]
QueueType == queue \in Seq(Event) /\ Len(queue) <= QueueCapacity
WorkType == /\ pc \in PC
            /\ event \in Event
            /\ envelope \in Content
            /\ answer \in [ok : BOOLEAN, runner : Runner, envelope : Content]
            /\ issued \in 0..MaxEvents
CountType == announced \in 0..MaxEvents /\ restarts \in 0..MaxRestarts
ContextType == canceled \in BOOLEAN

\* The groups together are TypeOK.
Groups == /\ MachineType /\ FileType /\ GuestType /\ QueueType
          /\ WorkType /\ CountType /\ ContextType

\* TypeOK in the groups that steps change together.
LEMMA TypeGroups == (TypeOK <=> Groups) /\ (TypeOK' <=> Groups')
  BY DEF TypeOK, Groups, MachineType, FileType, GuestType, QueueType, WorkType,
         CountType, ContextType

(***************************************************************************)
(* That issued stays below its bound needs more than its type: each        *)
(* envelope belongs to an announced event, and what is queued or in        *)
(* process before Sign is announced and not signed.                        *)
(***************************************************************************)
Unsigned == IF pc \in {"snapshot", "sign"} THEN 1 ELSE 0
CountInv == issued + Len(queue) + Unsigned <= announced

TInv == TypeOK /\ CountInv

\* The two contents that are no envelopes are contents.
LEMMA ContentTypes == Missing \in Content /\ Partial \in Content
  BY ProofAssumption DEF Missing, Partial, Content

\* The record of an absent file.
LEMMA MissingFields == Missing.state = "none" /\ Missing.uuid = 0
  BY DEF Missing

\* So is an envelope.
LEMMA WholeType ==
    ASSUME NEW j \in Job, NEW u \in 0..MaxUUID
    PROVE  [state |-> "whole", job |-> j, uuid |-> u, issue |-> 0] \in Content
<1>1. 0 \in 0..MaxEvents
  BY ProofAssumption
<1> QED
  BY <1>1 DEF Content

\* Init has the types.
LEMMA InitType == Init => TInv
<1> SUFFICES ASSUME Init PROVE TInv
  OBVIOUS
<1>1. event \in Event
  <2>1. PICK j \in Job, r \in Runner : TRUE
    BY EventAssumption
  <2>2. [job |-> j, runner |-> r] \in Event
    BY DEF Event
  <2>3. (CHOOSE e \in Event : TRUE) \in Event
    BY <2>2
  <2> QED
    BY <2>3 DEF Init
<1>2. event.runner \in Runner
  BY <1>1 DEF Event
<1>3. MachineType /\ GuestType /\ FileType
  BY ContentTypes, ProofAssumption DEF Init, MachineType, GuestType, FileType
<1>4. QueueType /\ CountType /\ ContextType
  <2>1. QueueType /\ CountType
    BY ProofAssumption DEF Init, QueueType, CountType
  <2>2. ContextType
    BY DEF Init, ContextType
  <2> QED
    BY <2>1, <2>2
<1>5. WorkType
  <2>1. answer \in [ok : BOOLEAN, runner : Runner, envelope : Content]
    BY <1>2, ContentTypes DEF Init
  <2> QED
    BY <1>1, <2>1, ContentTypes, ProofAssumption DEF Init, WorkType, PC
<1>6. CountInv
  BY DEF Init, CountInv, Unsigned
<1> QED
  BY <1>3, <1>4, <1>5, <1>6, TypeGroups DEF Groups, TInv

\* The end of process keeps the types of its variables.
LEMMA FinishType ==
    ASSUME WorkType, NEW ok \in BOOLEAN, Finish(ok)
    PROVE  WorkType'
<1>1. event.runner \in Runner
  BY DEF WorkType, Event
<1>2. answer' \in [ok : BOOLEAN, runner : Runner, envelope : Content]
  BY <1>1 DEF WorkType, Finish
<1> QED
  BY <1>2, ContentTypes DEF WorkType, Finish, PC

\* So does going on.
LEMMA GotoType ==
    ASSUME WorkType, NEW label \in PC, Goto(label)
    PROVE  WorkType'
  BY DEF WorkType, Goto

\* A step of the coordinator that leaves files, queue and count alone.
LEMMA ReadType ==
    ASSUME TInv, RunFrame, UNCHANGED <<fileVars, queue>>, WorkType', issued' = issued,
           Unsigned' <= Unsigned
    PROVE  TInv'
<1>1. /\ MachineType' /\ FileType' /\ GuestType' /\ QueueType' /\ CountType'
      /\ ContextType'
  BY TypeGroups DEF Groups, TInv, RunFrame, machineVars, fileVars, guestVars, MachineType,
                    FileType, GuestType, QueueType, CountType, ContextType
<1>2. CountInv'
  BY TypeGroups DEF Groups, TInv, RunFrame, CountInv, WorkType, QueueType, CountType, Unsigned
<1> QED
  BY <1>1, <1>2, TypeGroups DEF Groups, TInv

\* A step that only reads.
LEMMA ChecksType ==
    ASSUME TInv, NEW label \in PC, NEW condition, NEW next \in PC \ {"snapshot", "sign"},
           Checks(label, condition, next)
    PROVE  TInv'
<1>1. WorkType
  BY TypeGroups DEF Groups, TInv
<1>2. WorkType' /\ issued' = issued
  BY <1>1, FinishType, GotoType DEF Checks, Finish, Goto
<1>3. Unsigned' = 0 /\ Unsigned \in {0, 1}
  BY DEF Checks, Finish, Goto, Unsigned
<1> QED
  BY <1>2, <1>3, ReadType DEF Checks

\* Every step of the coordinator keeps the types.
LEMMA CoordinatorType == TInv /\ CoordinatorStep => TInv'
<1> SUFFICES ASSUME TInv, CoordinatorStep PROVE TInv'
  OBVIOUS
<1> DEFINE Others == MachineType /\ GuestType /\ CountType /\ ContextType
<1>1. MachineType /\ FileType /\ GuestType /\ QueueType /\ WorkType /\ CountType
      /\ ContextType
  BY TypeGroups DEF Groups, TInv
<1>2. Unsigned \in {0, 1} /\ Len(queue) \in Nat
  BY <1>1 DEF Unsigned, QueueType
<1>3. RunFrame => Others'
  BY <1>1 DEF RunFrame, machineVars, guestVars, MachineType, GuestType, CountType, ContextType
<1>4. CASE ReceiveEvent
  <2>1. queue \in Seq(Event) /\ queue # <<>> /\ pc = "select"
    BY <1>1, <1>4 DEF ReceiveEvent, QueueType
  <2>2. Head(queue) \in Event /\ Tail(queue) \in Seq(Event)
        /\ Len(Tail(queue)) = Len(queue) - 1
    BY <2>1
  <2>3. QueueType' /\ WorkType' /\ FileType'
    BY <1>1, <1>2, <1>4, <2>2, ProofAssumption
       DEF ReceiveEvent, QueueType, WorkType, FileType, fileVars, PC
  <2>4. CountInv'
    BY <1>1, <1>2, <1>4, <2>1, <2>2
       DEF ReceiveEvent, TInv, CountInv, Unsigned, WorkType, CountType, RunFrame
  <2> QED
    BY <1>3, <1>4, <2>3, <2>4, TypeGroups DEF Groups, ReceiveEvent, TInv
<1>5. CASE ContextDone
  <2>1. WorkType' /\ issued' = issued /\ Unsigned' = 0
    BY <1>1, <1>5 DEF ContextDone, WorkType, PC, Unsigned
  <2> QED
    BY <1>2, <1>5, <2>1, ReadType DEF ContextDone
<1>6. CASE Snapshot
  <2>1. WorkType'
    <3>1. CASE Finish(FALSE)
      BY <1>1, <3>1, FinishType
    <3>2. CASE envelope' = [state |-> "whole", job |-> event.job,
                            uuid |-> uuid[event.runner], issue |-> 0]
               /\ pc' = "sign" /\ UNCHANGED <<event, answer, issued>>
      <4>1. event.job \in Job /\ event.runner \in Runner
        BY <1>1 DEF WorkType, Event
      <4>2. uuid[event.runner] \in 0..MaxUUID
        BY <1>1, <4>1 DEF MachineType
      <4>3. envelope' \in Content
        BY <3>2, <4>1, <4>2, WholeType
      <4> QED
        BY <1>1, <3>2, <4>3 DEF WorkType, PC
    <3> QED
      BY <1>6, <3>1, <3>2 DEF Snapshot
  <2>2. issued' = issued /\ Unsigned' <= Unsigned
    BY <1>6 DEF Snapshot, Finish, Unsigned
  <2> QED
    BY <1>6, <2>1, <2>2, ReadType DEF Snapshot
<1>7. CASE Sign
  <2>1. CASE Finish(FALSE)
    <3>1. WorkType'
      BY <1>1, <2>1, FinishType
    <3>2. issued' = issued /\ Unsigned' = 0
      BY <2>1 DEF Finish, Unsigned
    <3> QED
      BY <1>2, <1>7, <3>1, <3>2, ReadType DEF Sign
  <2>2. CASE /\ envelope' = [envelope EXCEPT !.issue = issued + 1]
             /\ issued' = issued + 1
             /\ pc' = "target"
             /\ UNCHANGED <<event, answer>>
    <3>1. Unsigned = 1 /\ Unsigned' = 0
      BY <1>7, <2>2 DEF Sign, Unsigned
    <3>2. issued + 1 <= announced /\ announced <= MaxEvents
      BY <1>1, <1>2, <3>1, ProofAssumption DEF TInv, CountInv, WorkType, CountType
    <3>3. issued + 1 \in 0..MaxEvents
      BY <1>1, <3>2, ProofAssumption DEF WorkType, CountType
    <3>4. envelope' \in Content
      BY <1>1, <2>2, <3>3 DEF WorkType, Content
    <3>5. WorkType'
      BY <1>1, <2>2, <3>3, <3>4 DEF WorkType, PC
    <3>6. CountInv'
      BY <1>1, <1>2, <1>7, <2>2, <3>1 DEF Sign, RunFrame, TInv, CountInv, WorkType, CountType
    <3>7. FileType' /\ QueueType'
      BY <1>1, <1>7 DEF Sign, fileVars, FileType, QueueType
    <3> QED
      BY <1>3, <1>7, <3>5, <3>6, <3>7, TypeGroups DEF Groups, Sign, TInv
  <2> QED
    BY <1>7, <2>1, <2>2 DEF Sign
<1>8. CASE BeforeWrite \/ MarkerCheck \/ BeforeMarker
  BY <1>8, ChecksType DEF BeforeWrite, MarkerCheck, BeforeMarker, PC
<1>9. CASE acceptCommittedDuplicate
  <2>1. WorkType'
    BY <1>1, <1>9, FinishType DEF acceptCommittedDuplicate
  <2>2. issued' = issued /\ Unsigned' = 0
    BY <1>9 DEF acceptCommittedDuplicate, Finish, Unsigned
  <2> QED
    BY <1>2, <1>9, <2>1, <2>2, ReadType DEF acceptCommittedDuplicate
<1>10. CASE WriteProof \/ WriteMarker
  <2>1. WorkType'
    BY <1>1, <1>10, FinishType, GotoType DEF WriteProof, WriteMarker, PC
  <2>2. FileType'
    <3>1. envelope \in Content /\ event.runner \in Runner
      BY <1>1 DEF WorkType, Event
    <3>2. CASE WriteProof
      <4>1. /\ ready' = ready
            /\ \/ proof' = proof
               \/ \E c \in Content : proof' = [proof EXCEPT ![event.runner] = c]
        BY <3>1, <3>2, ContentTypes DEF WriteProof
      <4>2. CASE proof' = proof
        BY <1>1, <4>1, <4>2 DEF FileType
      <4>3. ASSUME NEW c \in Content, proof' = [proof EXCEPT ![event.runner] = c]
            PROVE  FileType'
        BY <1>1, <3>1, <4>1, <4>3 DEF FileType
      <4> QED
        BY <4>1, <4>2, <4>3
    <3>3. CASE WriteMarker
      BY <1>1, <3>1, <3>3 DEF WriteMarker, FileType
    <3> QED
      BY <1>10, <3>2, <3>3
  <2>3. issued' = issued /\ Unsigned' = 0 /\ queue' = queue /\ RunFrame
    BY <1>10 DEF WriteProof, WriteMarker, Finish, Goto, Unsigned
  <2>4. QueueType' /\ CountInv'
    BY <1>1, <1>2, <2>3 DEF QueueType, TInv, CountInv, WorkType, CountType, RunFrame
  <2> QED
    BY <1>3, <2>1, <2>2, <2>3, <2>4, TypeGroups DEF Groups, TInv
<1> QED
  BY <1>4, <1>5, <1>6, <1>7, <1>8, <1>9, <1>10 DEF CoordinatorStep

\* So do the queue, the guests, the instances and the service manager.
LEMMA OutsideType ==
    TInv /\ Next /\ ~CoordinatorStep => TInv'
<1> SUFFICES ASSUME TInv, Next, ~CoordinatorStep PROVE TInv'
  OBVIOUS
<1>1. MachineType /\ FileType /\ GuestType /\ QueueType /\ WorkType /\ CountType
      /\ ContextType
  BY TypeGroups DEF Groups, TInv
<1>2. Unsigned \in {0, 1} /\ Len(queue) \in Nat
  BY <1>1 DEF Unsigned, QueueType
<1>3. CASE \E e \in Event : TryEnqueue(e)
  <2>1. PICK e \in Event : TryEnqueue(e)
    BY <1>3
  <2>2. Append(queue, e) \in Seq(Event) /\ Len(Append(queue, e)) = Len(queue) + 1
    BY <1>1 DEF QueueType
  <2>3. QueueType' /\ Len(queue') \in 0..Len(queue) + 1
    BY <1>1, <1>2, <2>1, <2>2, ProofAssumption DEF TryEnqueue, QueueType
  <2>4. MachineType' /\ FileType' /\ GuestType' /\ WorkType' /\ ContextType'
    BY <1>1, <2>1 DEF TryEnqueue, machineVars, fileVars, guestVars, workVars, MachineType,
                      FileType, GuestType, WorkType, ContextType
  <2>5. CountType'
    BY <1>1, <2>1, ProofAssumption DEF TryEnqueue, CountType
  <2>6. CountInv'
    <3>1. issued' = issued /\ Unsigned' = Unsigned /\ announced' = announced + 1
      BY <2>1 DEF TryEnqueue, workVars, Unsigned
    <3> QED
      BY <1>1, <1>2, <2>3, <3>1 DEF TInv, CountInv, WorkType, CountType
  <2> QED
    BY <2>3, <2>4, <2>5, <2>6, TypeGroups DEF Groups, TInv
<1>4. CASE \E r \in Runner : HelperWaits(r) \/ HelperCopies(r)
  <2>1. PICK r \in Runner : HelperWaits(r) \/ HelperCopies(r)
    BY <1>4
  <2>2. GuestType'
    BY <1>1, <2>1 DEF HelperWaits, HelperCopies, GuestType, FileType
  <2>3. GuestFrame
    BY <2>1 DEF HelperWaits, HelperCopies
  <2>4. /\ MachineType' /\ FileType' /\ QueueType' /\ WorkType' /\ CountType'
        /\ ContextType'
    BY <1>1, <2>3 DEF GuestFrame, machineVars, fileVars, workVars, MachineType,
                      FileType, QueueType, WorkType, CountType, ContextType
  <2>5. CountInv'
    BY <2>3 DEF GuestFrame, workVars, TInv, CountInv, Unsigned
  <2> QED
    BY <2>2, <2>4, <2>5, TypeGroups DEF Groups, TInv
<1>5. CASE \E r \in Runner : InstanceStops(r) \/ InstanceReplaced(r)
  <2>1. PICK r \in Runner : InstanceStops(r) \/ InstanceReplaced(r)
    BY <1>5
  <2>2. MachineType'
    <3>1. CASE InstanceStops(r)
      BY <1>1, <3>1 DEF InstanceStops, MachineType
    <3>2. CASE InstanceReplaced(r)
      <4>1. uuid[r] + 1 \in 1..MaxUUID
        BY <1>1, <3>2, ProofAssumption DEF InstanceReplaced, MachineType
      <4> QED
        BY <1>1, <3>2, <4>1 DEF InstanceReplaced, MachineType
    <3> QED
      BY <2>1, <3>1, <3>2
  <2>3. Emptied(r)
    BY <2>1 DEF InstanceStops, InstanceReplaced
  <2>4. FileType' /\ GuestType'
    BY <1>1, <2>3, ContentTypes DEF Emptied, FileType, GuestType
  <2>5. UNCHANGED <<queue, workVars, announced, canceled, restarts>>
    BY <2>1 DEF InstanceStops, InstanceReplaced
  <2>6. QueueType' /\ WorkType' /\ CountType' /\ ContextType' /\ CountInv'
    BY <1>1, <2>5 DEF workVars, QueueType, WorkType, CountType, ContextType, TInv,
                      CountInv, Unsigned
  <2> QED
    BY <2>2, <2>4, <2>6, TypeGroups DEF Groups, TInv
<1>6. CASE Cancel
  <2>1. MachineType' /\ FileType' /\ GuestType' /\ QueueType' /\ WorkType' /\ CountInv'
    BY <1>1, <1>6 DEF Cancel, machineVars, fileVars, guestVars, workVars, MachineType,
                      FileType, GuestType, QueueType, WorkType, TInv, CountInv, Unsigned
  <2>2. CountType'
    BY <1>1, <1>6 DEF Cancel, CountType
  <2>3. ContextType'
    BY <1>6 DEF Cancel, ContextType
  <2> QED
    BY <2>1, <2>2, <2>3, TypeGroups DEF Groups, TInv
<1>7. CASE Restart
  <2>1. MachineType' /\ FileType' /\ GuestType' /\ ContextType'
    BY <1>1, <1>7 DEF Restart, machineVars, fileVars, guestVars, MachineType,
                      FileType, GuestType, ContextType
  <2>2. QueueType' /\ CountType'
    <3>1. QueueType'
      BY <1>7, ProofAssumption DEF Restart, QueueType
    <3>2. CountType'
      BY <1>1, <1>7, ProofAssumption DEF Restart, CountType
    <3> QED
      BY <3>1, <3>2
  <2>3. WorkType'
    BY <1>1, <1>7, ContentTypes DEF Restart, WorkType, PC
  <2>4. CountInv'
    BY <1>1, <1>2, <1>7 DEF Restart, TInv, CountInv, Unsigned, WorkType, CountType
  <2> QED
    BY <2>1, <2>2, <2>3, <2>4, TypeGroups DEF Groups, TInv
<1> QED
  BY <1>3, <1>4, <1>5, <1>6, <1>7 DEF Next

\* Stuttering keeps the types.
LEMMA StutterType == TInv /\ UNCHANGED vars => TInv'
  BY DEF TInv, TypeOK, CountInv, Unsigned, vars, machineVars, fileVars, guestVars, workVars

\* The types, and what the files and the machine's answers are made of.
LEMMA TypeInvariant == Spec => []TInv
<1>1. TInv /\ [Next]_vars => TInv'
  BY CoordinatorType, OutsideType, StutterType
<1> QED
  BY <1>1, InitType, PTL DEF Spec

(***************************************************************************)
(* TypeOK holds for any bounds: in particular the queue never exceeds its  *)
(* capacity and no more envelopes are signed than jobs were announced.     *)
(***************************************************************************)
THEOREM TypeCorrect == Spec => []TypeOK
  BY TypeInvariant, PTL DEF TInv

-----------------------------------------------------------------------------
(* Deliveries *)

\* The instance that the envelope in process is for is not there any more.
Gone == ~running[event.runner] \/ uuid[event.runner] # envelope.uuid

(***************************************************************************)
(* The properties are not inductive.  What is missing is what Deliver      *)
(* knows at each of its steps: the envelope names an instance of the past  *)
(* or the present, never one to come; from the marker check on, the marker *)
(* is as it was found, unless the instance is gone and the files with it;  *)
(* once pushed, the envelope lies there, unless the instance is gone.      *)
(***************************************************************************)
EnvelopeInv ==
    /\ pc \in {"select", "snapshot", "returned"} => envelope = Missing
    /\ pc \in PC \ {"select", "snapshot", "returned"} => envelope.state = "whole"
    /\ envelope.uuid <= uuid[event.runner]

MarkerInv ==
    /\ pc = "duplicate" => ready[event.runner] \/ proof[event.runner] = Missing
    /\ pc \in {"write", "again", "commit"} => ~ready[event.runner]

PushInv ==
    /\ pc = "again" => \/ proof[event.runner] = envelope
                       \/ proof[event.runner] = Missing /\ Gone
    /\ pc = "commit" => \/ /\ proof[event.runner] = envelope
                           /\ uuid[event.runner] = envelope.uuid
                        \/ proof[event.runner] = Missing /\ Gone

\* The helper has seen a marker that is still there.
HelperInv == \A r \in Runner : helper[r] = "seen" => ready[r]

\* The last answer is about an instance of the past or the present.
AnswerInv == answer.envelope.uuid <= uuid[answer.runner]

SInv == /\ EnvelopeInv /\ MarkerInv /\ PushInv /\ HelperInv /\ AnswerInv
        /\ CommittedIsOwn /\ HelperHandsOwn /\ SuccessIsCommitted

-----------------------------------------------------------------------------
\* What the types say of the event and the envelope in process.
LEMMA InProcess ==
    ASSUME TypeOK
    PROVE  /\ event.runner \in Runner /\ envelope.uuid \in Nat
           /\ uuid[event.runner] \in Nat \ {0}
           /\ answer.runner \in Runner /\ answer.envelope.uuid \in Nat
           /\ uuid[answer.runner] \in Nat \ {0}
<1>1. event.runner \in Runner /\ answer.runner \in Runner
  BY DEF TypeOK, Event
<1>2. envelope.uuid \in Nat /\ answer.envelope.uuid \in Nat
  <2>1. \A c \in Content : c.uuid \in 0..MaxUUID
    BY DEF Content
  <2>2. envelope \in Content /\ answer.envelope \in Content
    BY DEF TypeOK
  <2>3. envelope.uuid \in 0..MaxUUID /\ answer.envelope.uuid \in 0..MaxUUID
    BY <2>1, <2>2
  <2> QED
    BY <2>3, ProofAssumption
<1> QED
  BY <1>1, <1>2, ProofAssumption DEF TypeOK

\* Init satisfies the invariant.
LEMMA InitSafe == Init => SInv
<1> SUFFICES ASSUME Init PROVE SInv
  OBVIOUS
<1>1. TypeOK
  BY InitType DEF TInv
<1>2. EnvelopeInv /\ AnswerInv
  BY <1>1, InProcess, MissingFields DEF Init, EnvelopeInv, AnswerInv, PC
<1>3. MarkerInv /\ PushInv
  BY DEF Init, MarkerInv, PushInv
<1>4. HelperInv /\ CommittedIsOwn /\ HelperHandsOwn
  BY DEF Init, HelperInv, CommittedIsOwn, HelperHandsOwn, Committed
<1>5. SuccessIsCommitted
  BY DEF Init, SuccessIsCommitted
<1> QED
  BY <1>2, <1>3, <1>4, <1>5 DEF SInv

\* A step of the coordinator that leaves the files alone.
LEMMA ReadSafe ==
    ASSUME SInv, RunFrame, UNCHANGED fileVars,
           EnvelopeInv', MarkerInv', PushInv', AnswerInv', SuccessIsCommitted'
    PROVE  SInv'
  BY DEF SInv, RunFrame, machineVars, guestVars, fileVars, HelperInv, CommittedIsOwn,
         HelperHandsOwn, Committed

\* The end of process, whatever it did to the files.
LEMMA FinishSafe ==
    ASSUME TypeOK, SInv, NEW ok, Finish(ok), RunFrame
    PROVE  EnvelopeInv' /\ MarkerInv' /\ PushInv' /\ AnswerInv'
<1>1. AnswerInv'
  BY DEF Finish, RunFrame, machineVars, SInv, EnvelopeInv, AnswerInv
<1>2. EnvelopeInv'
  BY InProcess, MissingFields DEF Finish, RunFrame, machineVars, EnvelopeInv
<1> QED
  BY <1>1, <1>2 DEF Finish, MarkerInv, PushInv

\* A failed event that left the files alone.
LEMMA FailSafe ==
    ASSUME TypeOK, SInv, Finish(FALSE), RunFrame, UNCHANGED fileVars
    PROVE  SInv'
<1>1. SuccessIsCommitted'
  BY DEF Finish, SuccessIsCommitted
<1> QED
  BY <1>1, FinishSafe, ReadSafe

\* A step that goes on to the next check leaves the last answer alone.
LEMMA AnswerStays ==
    ASSUME SInv, answer' = answer, RunFrame, UNCHANGED fileVars
    PROVE  AnswerInv' /\ SuccessIsCommitted'
  BY DEF SInv, RunFrame, machineVars, fileVars, AnswerInv, SuccessIsCommitted, Committed

\* The steps before the delivery.
LEMMA BeforeDeliver ==
    ASSUME TypeOK, SInv, ReceiveEvent \/ ContextDone \/ Snapshot \/ Sign
    PROVE  SInv'
<1>1. RunFrame /\ UNCHANGED fileVars
  BY DEF ReceiveEvent, ContextDone, Snapshot, Sign
<1>2. CASE ReceiveEvent
  <2>1. event'.runner \in Runner
    <3>1. queue \in Seq(Event) /\ queue # <<>>
      BY <1>2 DEF ReceiveEvent, TypeOK
    <3>2. Head(queue) \in Event
      BY <3>1
    <3> QED
      BY <1>2, <3>2 DEF ReceiveEvent, Event
  <2>2. uuid[event'.runner] \in Nat
    BY <2>1, ProofAssumption DEF TypeOK
  <2>3. EnvelopeInv'
    BY <1>1, <1>2, <2>2, MissingFields DEF ReceiveEvent, RunFrame, machineVars, SInv,
                                           EnvelopeInv, PC
  <2>4. MarkerInv' /\ PushInv' /\ answer' = answer
    BY <1>2 DEF ReceiveEvent, MarkerInv, PushInv
  <2> QED
    BY <1>1, <2>3, <2>4, AnswerStays, ReadSafe
<1>3. CASE ContextDone
  <2>1. EnvelopeInv' /\ MarkerInv' /\ PushInv' /\ answer' = answer
    BY <1>1, <1>3 DEF ContextDone, RunFrame, machineVars, SInv, EnvelopeInv, MarkerInv,
                      PushInv, PC
  <2> QED
    BY <1>1, <2>1, AnswerStays, ReadSafe
<1>4. CASE Finish(FALSE)
  BY <1>1, <1>4, FailSafe
<1>5. CASE Snapshot /\ ~Finish(FALSE)
  <2>1. /\ envelope' = [state |-> "whole", job |-> event.job,
                        uuid |-> uuid[event.runner], issue |-> 0]
        /\ pc' = "sign" /\ UNCHANGED <<event, answer>>
    BY <1>5 DEF Snapshot
  <2>2. EnvelopeInv'
    BY <1>1, <2>1, InProcess DEF RunFrame, machineVars, EnvelopeInv
  <2>3. MarkerInv' /\ PushInv'
    BY <2>1 DEF MarkerInv, PushInv
  <2> QED
    BY <1>1, <2>1, <2>2, <2>3, AnswerStays, ReadSafe
<1>6. CASE Sign /\ ~Finish(FALSE)
  <2>1. /\ envelope' = [envelope EXCEPT !.issue = issued + 1]
        /\ pc = "sign" /\ pc' = "target" /\ UNCHANGED <<event, answer>>
    BY <1>6 DEF Sign
  <2>2. envelope'.state = envelope.state /\ envelope'.uuid = envelope.uuid
    BY <2>1 DEF TypeOK, Content
  <2>3. EnvelopeInv'
    BY <1>1, <2>1, <2>2 DEF RunFrame, machineVars, SInv, EnvelopeInv, PC
  <2>4. MarkerInv' /\ PushInv'
    BY <2>1 DEF MarkerInv, PushInv
  <2> QED
    BY <1>1, <2>1, <2>3, <2>4, AnswerStays, ReadSafe
<1> QED
  BY <1>2, <1>3, <1>4, <1>5, <1>6

\* The checks of Deliver.
LEMMA ChecksSafe ==
    ASSUME TypeOK, SInv, NEW label \in PC \ {"select", "snapshot", "returned"},
           NEW next \in PC \ {"select", "snapshot", "returned"}, NEW condition,
           Checks(label, condition, next),
           next = "duplicate" => ready[event.runner],
           next \in {"write", "again", "commit"} => ~ready[event.runner],
           next # "again",
           next = "commit" => label = "again" /\ (condition => verifyTarget)
    PROVE  SInv'
<1>1. RunFrame /\ UNCHANGED fileVars
  BY DEF Checks
<1>2. CASE Finish(FALSE)
  BY <1>1, <1>2, FailSafe
<1>3. CASE condition /\ Goto(next)
  <2>1. pc = label /\ pc' = next /\ UNCHANGED <<event, envelope, answer>>
    BY <1>3 DEF Checks, Goto
  <2>2. EnvelopeInv'
    BY <1>1, <2>1 DEF RunFrame, machineVars, SInv, EnvelopeInv
  <2>3. MarkerInv'
    BY <1>1, <2>1 DEF fileVars, MarkerInv
  <2>4. PushInv'
    <3>1. CASE next = "commit"
      <4>1. pc = "again" /\ verifyTarget
        BY <1>3, <2>1, <3>1
      <4>2. proof[event.runner] = envelope /\ uuid[event.runner] = envelope.uuid
        BY <4>1 DEF SInv, PushInv, Gone, verifyTarget
      <4> QED
        BY <1>1, <2>1, <3>1, <4>2 DEF fileVars, RunFrame, machineVars, PushInv
    <3>2. CASE next # "commit"
      BY <2>1, <3>2 DEF PushInv
    <3> QED
      BY <3>1, <3>2
  <2> QED
    BY <1>1, <2>1, <2>2, <2>3, <2>4, AnswerStays, ReadSafe
<1> QED
  BY <1>2, <1>3 DEF Checks

\* A committed proof is taken for the delivery of another one of its kind.
LEMMA DuplicateSafe ==
    ASSUME TypeOK, SInv, acceptCommittedDuplicate
    PROVE  SInv'
<1>1. RunFrame /\ UNCHANGED fileVars
  BY DEF acceptCommittedDuplicate
<1>2. CASE Finish(FALSE)
  BY <1>1, <1>2, FailSafe
<1>3. CASE /\ proof[event.runner].state = "whole"
           /\ proofTuple(proof[event.runner]) = proofTuple(envelope)
           /\ Finish(TRUE)
  <2>1. ready[event.runner]
    BY <1>3, MissingFields DEF acceptCommittedDuplicate, SInv, MarkerInv
  <2>2. answer'.runner = event.runner /\ answer'.envelope = envelope
    BY <1>3 DEF Finish
  <2>3. SuccessIsCommitted'
    BY <1>1, <1>3, <2>1, <2>2 DEF SuccessIsCommitted, Committed, fileVars, proofTuple
  <2> QED
    BY <1>1, <1>3, <2>3, FinishSafe, ReadSafe
<1> QED
  BY <1>2, <1>3 DEF acceptCommittedDuplicate

\* The push of the envelope, where no marker is.
LEMMA WriteProofSafe ==
    ASSUME TypeOK, SInv, WriteProof
    PROVE  SInv'
<1>1. RunFrame /\ ready' = ready /\ pc = "write" /\ event.runner \in Runner
  BY InProcess DEF WriteProof
<1>2. ~ready[event.runner]
  BY <1>1 DEF SInv, MarkerInv
<1>3. \A r \in Runner \ {event.runner} : proof'[r] = proof[r]
  BY <1>1 DEF WriteProof, TypeOK
<1>4. HelperInv' /\ HelperHandsOwn'
  BY <1>1 DEF SInv, RunFrame, machineVars, guestVars, HelperInv, HelperHandsOwn
<1>5. CommittedIsOwn'
  BY <1>1, <1>2, <1>3 DEF SInv, RunFrame, machineVars, CommittedIsOwn, Committed
<1>6. CASE Finish(FALSE)
  <2>1. SuccessIsCommitted'
    BY <1>6 DEF Finish, SuccessIsCommitted
  <2> QED
    BY <1>1, <1>4, <1>5, <1>6, <2>1, FinishSafe DEF SInv
<1>7. CASE proof' = [proof EXCEPT ![event.runner] = envelope] /\ Goto("again")
  <2>1. pc' = "again" /\ UNCHANGED <<event, envelope, answer>>
    BY <1>7 DEF Goto
  <2>2. proof'[event.runner] = envelope
    BY <1>1, <1>7 DEF TypeOK
  <2>3. EnvelopeInv' /\ MarkerInv' /\ PushInv' /\ AnswerInv'
    BY <1>1, <1>2, <2>1, <2>2 DEF RunFrame, machineVars, SInv, EnvelopeInv, MarkerInv,
                                  PushInv, AnswerInv, PC
  <2>4. SuccessIsCommitted'
    <3>1. CASE answer.runner = event.runner
      BY <1>1, <1>2, <2>1, <3>1 DEF SInv, SuccessIsCommitted, Committed, RunFrame, machineVars
    <3>2. CASE answer.runner # event.runner
      <4>1. proof'[answer.runner] = proof[answer.runner]
        BY <1>3, <3>2, InProcess
      <4> QED
        BY <1>1, <2>1, <4>1 DEF SInv, SuccessIsCommitted, Committed, RunFrame, machineVars,
                                proofTuple
    <3> QED
      BY <3>1, <3>2
  <2> QED
    BY <1>4, <1>5, <2>3, <2>4 DEF SInv
<1> QED
  BY <1>6, <1>7 DEF WriteProof

\* The push of the marker, beside the envelope of the instance or nothing.
LEMMA WriteMarkerSafe ==
    ASSUME TypeOK, SInv, WriteMarker
    PROVE  SInv'
<1>1. RunFrame /\ proof' = proof /\ pc = "commit" /\ event.runner \in Runner
  BY InProcess DEF WriteMarker
<1>2. \/ ready' = ready
      \/ ready' = [ready EXCEPT ![event.runner] = TRUE]
  BY DEF WriteMarker
<1>3. \A r \in Runner : ready'[r] => ready[r] \/ r = event.runner
  BY <1>1, <1>2 DEF TypeOK
<1>4. \A r \in Runner : ready[r] => ready'[r]
  BY <1>1, <1>2 DEF TypeOK
<1>5. \/ /\ proof[event.runner] = envelope
         /\ uuid[event.runner] = envelope.uuid
      \/ proof[event.runner] = Missing /\ Gone
  BY <1>1 DEF SInv, PushInv
<1>6. envelope.state = "whole"
  BY <1>1 DEF SInv, EnvelopeInv, PC
<1>7. CommittedIsOwn'
  <2> SUFFICES ASSUME NEW r \in Runner, ready'[r], proof[r].state # "none"
               PROVE  proof[r].state = "whole" /\ proof[r].uuid = uuid[r]
    BY <1>1 DEF CommittedIsOwn, Committed, RunFrame, machineVars
  <2>1. CASE ready[r]
    BY <2>1 DEF SInv, CommittedIsOwn, Committed
  <2>2. CASE r = event.runner
    BY <1>5, <1>6, <2>2, MissingFields
  <2> QED
    BY <1>3, <2>1, <2>2
<1>8. HelperInv' /\ HelperHandsOwn'
  BY <1>1, <1>4 DEF SInv, RunFrame, machineVars, guestVars, HelperInv, HelperHandsOwn
<1>9. PICK ok \in BOOLEAN : Finish(ok) /\ (ok => ready'[event.runner])
  BY <1>1 DEF WriteMarker, TypeOK
<1>10. SuccessIsCommitted'
  <2>1. answer'.ok = ok /\ answer'.runner = event.runner /\ answer'.envelope = envelope
    BY <1>9 DEF Finish
  <2> SUFFICES ASSUME ok, running[event.runner], uuid[event.runner] = envelope.uuid
               PROVE  /\ ready'[event.runner] /\ proof[event.runner].state # "none"
                      /\ proofTuple(proof[event.runner]) = proofTuple(envelope)
    BY <1>1, <2>1 DEF SuccessIsCommitted, Committed, RunFrame, machineVars, proofTuple
  <2>2. proof[event.runner] = envelope
    BY <1>5 DEF Gone
  <2> QED
    BY <1>6, <1>9, <2>2
<1> QED
  BY <1>1, <1>7, <1>8, <1>9, <1>10, FinishSafe DEF SInv

\* Every step of the coordinator keeps the invariant.
LEMMA CoordinatorSafe ==
    ASSUME TypeOK, SInv, CoordinatorStep
    PROVE  SInv'
<1>1. CASE BeforeWrite \/ MarkerCheck \/ BeforeMarker
  <2>1. BeforeMarker => ~ready[event.runner]
    BY DEF BeforeMarker, Checks, SInv, MarkerInv
  <2> QED
    BY <1>1, <2>1, ChecksSafe DEF BeforeWrite, MarkerCheck, BeforeMarker, PC
<1> QED
  BY <1>1, BeforeDeliver, DuplicateSafe, WriteProofSafe, WriteMarkerSafe
     DEF CoordinatorStep

-----------------------------------------------------------------------------
\* The guest's helper.
LEMMA HelperSafe ==
    ASSUME TypeOK, SInv, NEW r \in Runner, HelperWaits(r) \/ HelperCopies(r)
    PROVE  SInv'
<1>1. GuestFrame
  BY DEF HelperWaits, HelperCopies
<1>2. /\ EnvelopeInv' /\ MarkerInv' /\ PushInv' /\ AnswerInv'
      /\ CommittedIsOwn' /\ SuccessIsCommitted'
  BY <1>1 DEF GuestFrame, machineVars, fileVars, workVars, SInv, EnvelopeInv, MarkerInv,
              PushInv, Gone, AnswerInv, CommittedIsOwn, SuccessIsCommitted, Committed
<1>3. HelperInv'
  BY <1>1 DEF HelperWaits, HelperCopies, GuestFrame, fileVars, SInv, HelperInv, TypeOK
<1>4. HelperHandsOwn'
  <2>1. CASE HelperWaits(r)
    BY <1>1, <2>1 DEF HelperWaits, GuestFrame, machineVars, SInv, HelperHandsOwn, TypeOK
  <2>2. CASE HelperCopies(r)
    <3>1. helper[r] = "seen" /\ ready[r]
      BY <2>2 DEF HelperCopies, SInv, HelperInv
    <3>2. proof[r].state = "whole" => proof[r].uuid = uuid[r]
      BY <3>1 DEF SInv, CommittedIsOwn, Committed
    <3> QED
      BY <1>1, <2>2, <3>2 DEF HelperCopies, GuestFrame, machineVars, SInv, HelperHandsOwn,
                              TypeOK
  <2> QED
    BY <2>1, <2>2
<1> QED
  BY <1>2, <1>3, <1>4 DEF SInv

\* An instance stops or is replaced, and its files are gone.
LEMMA InstanceSafe ==
    ASSUME TypeOK, SInv, NEW r \in Runner, InstanceStops(r) \/ InstanceReplaced(r)
    PROVE  SInv'
<1>1. Emptied(r) /\ UNCHANGED workVars
  BY DEF InstanceStops, InstanceReplaced
<1>2. /\ ~ready'[r] /\ proof'[r] = Missing /\ helper'[r] = "waiting"
      /\ \A q \in Runner \ {r} : /\ ready'[q] = ready[q] /\ proof'[q] = proof[q]
                                 /\ helper'[q] = helper[q] /\ copied'[q] = copied[q]
  BY <1>1 DEF Emptied, TypeOK
<1>3. \A q \in Runner \ {r} : uuid'[q] = uuid[q] /\ running'[q] = running[q]
  BY DEF InstanceStops, InstanceReplaced, TypeOK
<1>4. \/ ~running'[r] /\ uuid'[r] = uuid[r]
      \/ uuid'[r] = uuid[r] + 1
  BY DEF InstanceStops, InstanceReplaced, TypeOK
<1>5. uuid[r] \in Nat
  BY ProofAssumption DEF TypeOK
<1>6. HelperInv' /\ CommittedIsOwn' /\ HelperHandsOwn'
  BY <1>2, <1>3 DEF SInv, HelperInv, CommittedIsOwn, HelperHandsOwn, Committed
<1>7. EnvelopeInv'
  BY <1>1, <1>3, <1>4, <1>5, InProcess DEF workVars, SInv, EnvelopeInv
<1>8. AnswerInv'
  BY <1>1, <1>3, <1>4, <1>5, InProcess DEF workVars, SInv, AnswerInv
<1>9. MarkerInv'
  BY <1>1, <1>2, InProcess DEF workVars, SInv, MarkerInv
<1>10. PushInv'
  <2>1. CASE event.runner = r
    <3>1. envelope.uuid <= uuid[r]
      BY <2>1 DEF SInv, EnvelopeInv
    <3>2. proof'[event.runner] = Missing /\ Gone'
      BY <1>1, <1>2, <1>4, <1>5, <2>1, <3>1, InProcess DEF workVars, Gone
    <3> QED
      BY <1>1, <3>2 DEF workVars, PushInv
  <2>2. CASE event.runner # r
    BY <1>1, <1>2, <1>3, <2>2, InProcess DEF workVars, SInv, PushInv, Gone
  <2> QED
    BY <2>1, <2>2
<1>11. SuccessIsCommitted'
  <2>1. CASE answer.runner = r
    <3>1. answer.envelope.uuid <= uuid[r]
      BY <2>1 DEF SInv, AnswerInv
    <3>2. ~(running'[r] /\ uuid'[r] = answer.envelope.uuid)
      BY <1>4, <1>5, <2>1, <3>1, InProcess
    <3> QED
      BY <1>1, <2>1, <3>2 DEF workVars, SuccessIsCommitted
  <2>2. CASE answer.runner # r
    BY <1>1, <1>2, <1>3, <2>2, InProcess DEF workVars, SInv, SuccessIsCommitted, Committed,
                                             proofTuple
  <2> QED
    BY <2>1, <2>2
<1> QED
  BY <1>6, <1>7, <1>8, <1>9, <1>10, <1>11 DEF SInv

\* The queue, the context and stuttering touch nothing the invariant is about;
\* a restart only forgets.
LEMMA OthersSafe ==
    ASSUME TypeOK, SInv,
           (\E e \in Event : TryEnqueue(e)) \/ Cancel \/ Restart \/ UNCHANGED vars
    PROVE  SInv'
<1>1. UNCHANGED <<machineVars, fileVars, guestVars, event, answer>>
  BY DEF TryEnqueue, Cancel, Restart, vars, workVars
<1>2. \/ UNCHANGED <<pc, envelope>>
      \/ pc' = "select" /\ envelope' = Missing
  BY DEF TryEnqueue, Cancel, Restart, vars, workVars
<1>3. HelperInv' /\ AnswerInv' /\ CommittedIsOwn' /\ HelperHandsOwn' /\ SuccessIsCommitted'
  BY <1>1 DEF machineVars, fileVars, guestVars, SInv, HelperInv, AnswerInv, CommittedIsOwn,
              HelperHandsOwn, SuccessIsCommitted, Committed
<1>4. EnvelopeInv'
  BY <1>1, <1>2, InProcess, MissingFields DEF machineVars, SInv, EnvelopeInv
<1>5. MarkerInv' /\ PushInv'
  BY <1>1, <1>2 DEF machineVars, fileVars, SInv, MarkerInv, PushInv, Gone
<1> QED
  BY <1>3, <1>4, <1>5 DEF SInv

\* What the safety theorems rest on.
LEMMA SafeInvariant == Spec => []SInv
<1>1. TypeOK /\ SInv /\ [Next]_vars => SInv'
  BY CoordinatorSafe, HelperSafe, InstanceSafe, OthersSafe DEF Next
<1> QED
  BY <1>1, InitSafe, TypeCorrect, PTL DEF Spec

(***************************************************************************)
(* A committed proof is whole and names the instance it lies on, whatever  *)
(* is replaced, fails or crashes between the checks and the two pushes of  *)
(* Deliver.                                                                *)
(***************************************************************************)
THEOREM CommittedOwn == Spec => []CommittedIsOwn
  BY SafeInvariant, PTL DEF SInv

(***************************************************************************)
(* The helper hands a workflow nothing but a whole envelope of the         *)
(* instance the workflow runs on.                                          *)
(***************************************************************************)
THEOREM HelperOwn == Spec => []HelperHandsOwn
  BY SafeInvariant, PTL DEF SInv

(***************************************************************************)
(* A delivery that reports success has committed a proof of that job on    *)
(* the instance, or found one there, unless the instance is gone.          *)
(***************************************************************************)
THEOREM SuccessCommitted == Spec => []SuccessIsCommitted
  BY SafeInvariant, PTL DEF SInv

\* The step of CommittedIsImmutable.
KeepsCommitted ==
    \A r \in Runner : Committed(r) /\ uuid'[r] = uuid[r] /\ running'[r]
                        => ready'[r] /\ proof'[r] = proof[r]

(***************************************************************************)
(* A committed proof is not written again while its instance runs: the     *)
(* pushes happen only where the marker was not found, and only Deliver     *)
(* writes it.                                                              *)
(***************************************************************************)
THEOREM CommittedImmutable == Spec => CommittedIsImmutable
<1>1. TypeOK /\ SInv /\ [Next]_vars => [KeepsCommitted]_vars
  <2> SUFFICES ASSUME TypeOK, SInv, Next, NEW r \in Runner, Committed(r),
                      uuid'[r] = uuid[r], running'[r]
               PROVE  ready'[r] /\ proof'[r] = proof[r]
    BY DEF KeepsCommitted
  <2>1. CASE UNCHANGED fileVars
    BY <2>1 DEF fileVars, Committed
  <2>2. CASE WriteProof
    <3>1. event.runner # r
      BY <2>2 DEF WriteProof, SInv, MarkerInv, Committed
    <3> QED
      BY <2>2, <3>1, InProcess DEF WriteProof, Committed, TypeOK
  <2>3. CASE WriteMarker
    BY <2>3, InProcess DEF WriteMarker, Committed, TypeOK
  <2>4. CASE \E q \in Runner : InstanceStops(q) \/ InstanceReplaced(q)
    <3>1. PICK q \in Runner : InstanceStops(q) \/ InstanceReplaced(q)
      BY <2>4
    <3>2. uuid[q] \in Nat
      BY ProofAssumption DEF TypeOK
    <3>3. q # r
      BY <3>1, <3>2 DEF InstanceStops, InstanceReplaced, TypeOK
    <3>4. Emptied(q)
      BY <3>1 DEF InstanceStops, InstanceReplaced
    <3> QED
      BY <3>3, <3>4 DEF Emptied, Committed, TypeOK
  <2> QED
    BY <2>1, <2>2, <2>3, <2>4
       DEF Next, CoordinatorStep, TryEnqueue, ReceiveEvent, ContextDone, Snapshot, Sign,
           BeforeWrite, MarkerCheck, BeforeMarker, Checks, acceptCommittedDuplicate,
           HelperWaits, HelperCopies, GuestFrame, Cancel, Restart
<1> QED
  BY <1>1, SafeInvariant, TypeCorrect, PTL DEF Spec, CommittedIsImmutable, KeepsCommitted
=============================================================================
