------------------------------ MODULE JobProof ------------------------------
(***************************************************************************)
(* Job machine proofs: the bounded event queue and the coordinator of      *)
(* src/internal/provenance/coordinator.go, Backend.Snapshot, the delivery  *)
(* of a signed envelope by src/internal/adapters/incus/proof_sink.go, and  *)
(* the helper src/guest/incus-gh-runner-proof that a workflow runs inside  *)
(* the VM to fetch it.                                                     *)
(*                                                                         *)
(* An envelope is what its signature covers and the properties tell apart: *)
(* the job, the instance UUID and the time of issue.  Both files live in   *)
(* the guest's /run, which only root writes and which ends with the VM.    *)
(***************************************************************************)
EXTENDS Integers, Sequences

CONSTANTS Runner,         \* instance names
          Job,            \* job IDs GitHub may announce for a runner
          QueueCapacity,  \* capacity of the event queue
          MaxEvents,      \* bound: JobStarted callbacks
          MaxUUID,        \* bound: instances created under one name
          MaxRestarts     \* bound: times the process is started again

ASSUME ProofAssumption == /\ QueueCapacity \in Nat \ {0}
                          /\ MaxEvents \in Nat
                          /\ MaxUUID \in Nat \ {0}
                          /\ MaxRestarts \in Nat
\* GitHub's job IDs are not empty (JobStarted.Validate).
ASSUME JobAssumption == "" \notin Job

\* There are jobs and runners to tell of.
ASSUME EventAssumption == Runner # {} /\ Job # {}

VARIABLES
  uuid,       \* uuid[r]: volatile.uuid of the instance
  bound,      \* bound[r]: the UUID the registration was bound to
  running,    \* running[r]: whether Incus reports it as running
  proof,      \* proof[r]: job-proof.dsse.json
  ready,      \* ready[r]: whether job-proof.ready exists
  helper,     \* helper[r]: where the guest's helper is
  copied,     \* copied[r]: what the helper gave to the workflow
  queue,      \* JobStartedQueue.events
  pc,         \* where Coordinator.Run is, see PC
  event,      \* the event in process
  envelope,   \* the signed envelope in process
  answer,     \* history: what process returned last, and for which envelope
  issued,     \* envelopes signed
  announced,  \* JobStarted callbacks
  canceled,   \* the context of Run has ended
  restarts

machineVars == <<uuid, bound, running>>
fileVars == <<proof, ready>>
guestVars == <<helper, copied>>
workVars == <<pc, event, envelope, answer, issued>>
vars == <<machineVars, fileVars, guestVars, queue, workVars, announced, canceled,
          restarts>>

Event == [job : Job, runner : Runner]

\* A proof file is missing, cut short by a failed push, or a whole envelope.
Content == [state : {"none", "partial", "whole"}, job : Job \cup {""},
            uuid : 0..MaxUUID, issue : 0..MaxEvents]
Missing == [state |-> "none", job |-> "", uuid |-> 0, issue |-> 0]
Partial == [state |-> "partial", job |-> "", uuid |-> 0, issue |-> 0]

(***************************************************************************)
(* select     in the select of Run                                         *)
(* snapshot, sign                                                          *)
(*            before Machines.Snapshot and Signer.Sign                     *)
(* target, marker, duplicate, write, again, commit                         *)
(*            in Deliver: the first verifyTarget, the marker check,        *)
(*            acceptCommittedDuplicate, the push of the envelope, the      *)
(*            second verifyTarget, the push of the marker                  *)
(***************************************************************************)
PC == {"select", "snapshot", "sign", "target", "marker", "duplicate", "write",
       "again", "commit", "returned"}

TypeOK ==
    /\ uuid \in [Runner -> 1..MaxUUID]
    /\ bound \in [Runner -> 1..MaxUUID]
    /\ running \in [Runner -> BOOLEAN]
    /\ proof \in [Runner -> Content]
    /\ ready \in [Runner -> BOOLEAN]
    /\ helper \in [Runner -> {"waiting", "seen", "done", "failed"}]
    /\ copied \in [Runner -> Content]
    /\ queue \in Seq(Event) /\ Len(queue) <= QueueCapacity
    /\ pc \in PC
    /\ event \in Event
    /\ envelope \in Content
    /\ answer \in [ok : BOOLEAN, runner : Runner, envelope : Content]
    /\ issued \in 0..MaxEvents
    /\ announced \in 0..MaxEvents
    /\ canceled \in BOOLEAN
    /\ restarts \in 0..MaxRestarts

Init ==
    /\ uuid = [r \in Runner |-> 1]
    /\ bound = [r \in Runner |-> 1]
    /\ running = [r \in Runner |-> TRUE]
    /\ proof = [r \in Runner |-> Missing]
    /\ ready = [r \in Runner |-> FALSE]
    /\ helper = [r \in Runner |-> "waiting"]
    /\ copied = [r \in Runner |-> Missing]
    /\ queue = <<>>
    /\ pc = "select"
    /\ event = CHOOSE e \in Event : TRUE
    /\ envelope = Missing
    /\ answer = [ok |-> FALSE, runner |-> event.runner, envelope |-> Missing]
    /\ issued = 0
    /\ announced = 0
    /\ canceled = FALSE
    /\ restarts = 0

-----------------------------------------------------------------------------
(* The event queue *)

\* TryEnqueue: an event without a place is dropped, and the callback goes on.
TryEnqueue(e) ==
    /\ announced < MaxEvents
    /\ announced' = announced + 1
    /\ queue' = IF Len(queue) < QueueCapacity THEN Append(queue, e) ELSE queue
    /\ UNCHANGED <<machineVars, fileVars, guestVars, workVars, canceled, restarts>>

-----------------------------------------------------------------------------
(* Coordinator.Run and process *)

RunFrame == UNCHANGED <<machineVars, guestVars, announced, canceled, restarts>>

ReceiveEvent ==
    /\ pc = "select" /\ queue # <<>>
    /\ event' = Head(queue)
    /\ queue' = Tail(queue)
    /\ pc' = "snapshot"
    /\ UNCHANGED <<fileVars, envelope, answer, issued>>
    /\ RunFrame

ContextDone ==
    /\ pc = "select" /\ canceled
    /\ pc' = "returned"
    /\ UNCHANGED <<fileVars, queue, event, envelope, answer, issued>>
    /\ RunFrame

Goto(label) == pc' = label /\ UNCHANGED <<event, envelope, answer, issued>>

\* Faulty variant of Finish: an error of one event ends Run.
FinishFatal(ok) ==
    /\ pc' = IF ok THEN "select" ELSE "returned"
    /\ answer' = [ok |-> ok, runner |-> event.runner, envelope |-> envelope]
    /\ envelope' = Missing
    /\ UNCHANGED <<event, issued>>

\* process returned; Run logs an error and goes on with the next event.
Finish(ok) ==
    /\ pc' = "select"
    /\ answer' = [ok |-> ok, runner |-> event.runner, envelope |-> envelope]
    /\ envelope' = Missing
    /\ UNCHANGED <<event, issued>>

\* A step that only reads: it finds what the code asks for, or process fails.
Checks(label, condition, next) ==
    /\ pc = label
    /\ (condition /\ Goto(next)) \/ Finish(FALSE)
    /\ UNCHANGED <<fileVars, queue>>
    /\ RunFrame

\* The running instance whose registration was bound to this very instance.
Snapshot ==
    /\ pc = "snapshot"
    /\ LET r == event.runner
       IN \/ /\ running[r] /\ bound[r] = uuid[r]
             /\ envelope' = [state |-> "whole", job |-> event.job,
                             uuid |-> uuid[r], issue |-> 0]
             /\ pc' = "sign"
             /\ UNCHANGED <<event, answer, issued>>
          \/ Finish(FALSE)
    /\ UNCHANGED <<fileVars, queue>>
    /\ RunFrame

\* Deliver verifies the envelope it got before anything else.
Sign ==
    /\ pc = "sign"
    /\ \/ /\ envelope' = [envelope EXCEPT !.issue = issued + 1]
          /\ issued' = issued + 1
          /\ pc' = "target"
          /\ UNCHANGED <<event, answer>>
       \/ Finish(FALSE)
    /\ UNCHANGED <<fileVars, queue>>
    /\ RunFrame

-----------------------------------------------------------------------------
(* ProofSink.Deliver *)

verifyTarget == running[event.runner] /\ uuid[event.runner] = envelope.uuid

BeforeWrite == Checks("target", verifyTarget, "marker")

\* Faulty variant of MarkerCheck: an existing marker is overlooked.
MarkerCheckBlind == Checks("marker", TRUE, "write")

\* A marker means that a proof was committed before.
MarkerCheck == Checks("marker", TRUE,
                      IF ready[event.runner] THEN "duplicate" ELSE "write")

proofTuple(content) == <<content.job, content.uuid>>

\* Faulty variant of acceptCommittedDuplicate: the committed proof is not read.
acceptAnyCommitted ==
    /\ pc = "duplicate"
    /\ Finish(TRUE)
    /\ UNCHANGED <<fileVars, queue>>
    /\ RunFrame

\* The committed proof verifies and is one for the same job and instance.
acceptCommittedDuplicate ==
    /\ pc = "duplicate"
    /\ LET committed == proof[event.runner]
       IN \/ /\ committed.state = "whole"
             /\ proofTuple(committed) = proofTuple(envelope)
             /\ Finish(TRUE)
          \/ Finish(FALSE)
    /\ UNCHANGED <<fileVars, queue>>
    /\ RunFrame

\* A push needs the guest's agent; a failed one may have had part of its effect.
WriteProof ==
    /\ pc = "write"
    /\ \/ /\ running[event.runner]
          /\ proof' = [proof EXCEPT ![event.runner] = envelope]
          /\ Goto("again")
       \/ /\ \/ UNCHANGED proof
             \/ /\ running[event.runner]
                /\ \E c \in {Partial, envelope} :
                     proof' = [proof EXCEPT ![event.runner] = c]
          /\ Finish(FALSE)
    /\ UNCHANGED <<ready, queue>>
    /\ RunFrame

\* Faulty variant of BeforeMarker: the target is not looked at again.
BeforeMarkerBlind == Checks("again", TRUE, "commit")

BeforeMarker == Checks("again", verifyTarget, "commit")

WriteMarker ==
    /\ pc = "commit"
    /\ \/ /\ running[event.runner]
          /\ ready' = [ready EXCEPT ![event.runner] = TRUE]
          /\ Finish(TRUE)
       \/ /\ \/ UNCHANGED ready
             \/ /\ running[event.runner]
                /\ ready' = [ready EXCEPT ![event.runner] = TRUE]
          /\ Finish(FALSE)
    /\ UNCHANGED <<proof, queue>>
    /\ RunFrame

-----------------------------------------------------------------------------
(* The guest's helper *)

GuestFrame == UNCHANGED <<machineVars, fileVars, queue, workVars, announced,
                          canceled, restarts>>

\* The loop ends when the marker is there, or at its deadline.
HelperWaits(r) ==
    /\ running[r] /\ helper[r] = "waiting"
    /\ helper' = [helper EXCEPT ![r] = IF ready[r] THEN "seen" ELSE "failed"]
    /\ UNCHANGED copied
    /\ GuestFrame

\* Faulty variant of HelperCopies: the shape of the document is not checked.
HelperCopiesAnything(r) ==
    /\ running[r] /\ helper[r] = "seen"
    /\ copied' = [copied EXCEPT ![r] = proof[r]]
    /\ helper' = [helper EXCEPT ![r] = "done"]
    /\ GuestFrame

\* A missing or malformed document fails the helper.
HelperCopies(r) ==
    /\ running[r] /\ helper[r] = "seen"
    /\ IF proof[r].state = "whole"
         THEN /\ copied' = [copied EXCEPT ![r] = proof[r]]
              /\ helper' = [helper EXCEPT ![r] = "done"]
         ELSE helper' = [helper EXCEPT ![r] = "failed"] /\ UNCHANGED copied
    /\ GuestFrame

-----------------------------------------------------------------------------
(* The instances, the context and the service manager *)

Emptied(r) == /\ proof' = [proof EXCEPT ![r] = Missing]
              /\ ready' = [ready EXCEPT ![r] = FALSE]
              /\ copied' = [copied EXCEPT ![r] = Missing]
              /\ helper' = [helper EXCEPT ![r] = "waiting"]

InstanceStops(r) ==
    /\ running[r]
    /\ running' = [running EXCEPT ![r] = FALSE]
    /\ Emptied(r)
    /\ UNCHANGED <<uuid, bound, queue, workVars, announced, canceled, restarts>>

\* Another instance gets the name, its metadata copied from the old one.
InstanceReplaced(r) ==
    /\ uuid[r] < MaxUUID
    /\ uuid' = [uuid EXCEPT ![r] = uuid[r] + 1]
    /\ running' = [running EXCEPT ![r] = TRUE]
    /\ Emptied(r)
    /\ UNCHANGED <<bound, queue, workVars, announced, canceled, restarts>>

Cancel == /\ ~canceled
          /\ canceled' = TRUE
          /\ UNCHANGED <<machineVars, fileVars, guestVars, queue, workVars,
                         announced, restarts>>

\* The process dies, mid-delivery or not: the queue is lost, the files stay.
Restart ==
    /\ restarts < MaxRestarts
    /\ restarts' = restarts + 1
    /\ queue' = <<>>
    /\ pc' = "select"
    /\ envelope' = Missing
    /\ canceled' = FALSE
    /\ UNCHANGED <<machineVars, fileVars, guestVars, event, answer, issued, announced>>

-----------------------------------------------------------------------------
CoordinatorStep == \/ ReceiveEvent
                   \/ ContextDone
                   \/ Snapshot
                   \/ Sign
                   \/ BeforeWrite
                   \/ MarkerCheck
                   \/ acceptCommittedDuplicate
                   \/ WriteProof
                   \/ BeforeMarker
                   \/ WriteMarker

Next == \/ \E e \in Event : TryEnqueue(e)
        \/ CoordinatorStep
        \/ \E r \in Runner : \/ HelperWaits(r)
                             \/ HelperCopies(r)
                             \/ InstanceStops(r)
                             \/ InstanceReplaced(r)
        \/ Cancel
        \/ Restart

Spec == Init /\ [][Next]_vars

(***************************************************************************)
(* Fairness: OperationTimeout ends every step of process, and the select   *)
(* of Run does not overlook an event for ever.                             *)
(***************************************************************************)
FairSpec == Spec /\ WF_vars(CoordinatorStep)

-----------------------------------------------------------------------------
(* Properties *)

\* The guest would take the proof of r for a committed one.
Committed(r) == ready[r] /\ proof[r].state # "none"

(***************************************************************************)
(* A committed proof is a whole envelope that names the very instance it   *)
(* lies on: no replacement between a check and a write, no failed push and *)
(* no crash between the two pushes makes the marker vouch for anything     *)
(* else.                                                                   *)
(***************************************************************************)
CommittedIsOwn ==
    \A r \in Runner : Committed(r) => /\ proof[r].state = "whole"
                                      /\ proof[r].uuid = uuid[r]

(***************************************************************************)
(* A committed proof is immutable as long as its instance runs, whatever   *)
(* is announced again, for this job or another.                            *)
(***************************************************************************)
CommittedIsImmutable ==
    [][\A r \in Runner : Committed(r) /\ uuid'[r] = uuid[r] /\ running'[r]
                           => ready'[r] /\ proof'[r] = proof[r]]_vars

(***************************************************************************)
(* When Deliver reports success, the instance it was for has a committed   *)
(* proof of that job, unless the instance is gone.                         *)
(***************************************************************************)
SuccessIsCommitted ==
    LET r == answer.runner
    IN answer.ok /\ running[r] /\ uuid[r] = answer.envelope.uuid =>
         Committed(r) /\ proofTuple(proof[r]) = proofTuple(answer.envelope)

(***************************************************************************)
(* What the helper hands to a workflow is a whole envelope that names the  *)
(* instance the workflow runs on.                                          *)
(***************************************************************************)
HelperHandsOwn ==
    \A r \in Runner : helper[r] = "done" => /\ copied[r].state = "whole"
                                            /\ copied[r].uuid = uuid[r]

(***************************************************************************)
(* A failing event does not keep the events behind it waiting: the queue   *)
(* drains, unless Run is canceled.                                         *)
(***************************************************************************)
EventsAreProcessed == queue # <<>> ~> queue = <<>> \/ canceled
=============================================================================
