------------------------------ MODULE Session ------------------------------
(***************************************************************************)
(* The demand side of src/internal/adapters/github: the goroutine of       *)
(* ResilientDemandSource.Run, the listener it runs one message session     *)
(* with, the demandHandler that is called back, the mailbox of             *)
(* src/internal/controller/types.go, and GitHub's queue of job events.     *)
(* One process, from the construction of the source to the return of Run.  *)
(***************************************************************************)
EXTENDS Integers, Sequences

CONSTANTS Runner,
          MaxAssigned,       \* bound: assigned jobs in one message
          MaxGeneration,     \* bound: the last session ends only by cancellation
          ReconnectInitial,  \* DemandSourceOptions.ReconnectInitial
          ReconnectMaximum,  \* DemandSourceOptions.ReconnectMaximum
          QueueCapacity      \* capacity of the proof event queue

ASSUME ReconnectAssumption == /\ ReconnectInitial \in Nat \ {0}
                              /\ ReconnectMaximum \in Nat
                              /\ ReconnectInitial <= ReconnectMaximum
ASSUME SessionBounds == /\ MaxAssigned \in Nat
                        /\ MaxGeneration \in Nat \ {0}
                        /\ QueueCapacity \in Nat \ {0}

VARIABLES
  available,     \* nobody has claimed the source
  pc,            \* where Run is, see PC
  handle,        \* the session variable of Run is not nil
  generation, current, waited,
  busy,          \* demandHandler.busy
  hand,          \* the message being handled
  acked,         \* whether it was deleted at GitHub
  demand,        \* {} or the demand handed to Publish last
  mailbox,       \* Mailbox.updates
  taken,         \* {} or the demand the reconciler received last
  proofs,        \* the proof event queue
  canceled,      \* the context of Run has ended
  job,           \* job[r]: the one job of runner r
  queue,         \* GitHub's undeleted job events, oldest first
  \* history, read by no action of the program
  initialFailed, \* openInitial failed
  contact,       \* the handler was called since the last reconnect delay
  shown          \* busy, as published last in this session

loopVars == <<available, pc, handle, generation, current, waited>>
handlerVars == <<busy, hand, acked, proofs>>
boxVars == <<demand, mailbox, taken>>
serverVars == <<job, queue>>
ghostVars == <<initialFailed, contact, shown>>
vars == <<loopVars, handlerVars, boxVars, canceled, serverVars, ghostVars>>

Timing == INSTANCE Backoff WITH MaxDuration <- 2 * ReconnectMaximum,
            initial <- ReconnectInitial, maximum <- ReconnectMaximum,
            failure <- 0

(***************************************************************************)
(* idle       Run was not called yet                                       *)
(* opening    in openInitial                                               *)
(* run        in the listener, before its first callback                   *)
(* poll       in GetMessage                                                *)
(* started, completed, count, publish                                      *)
(*            before HandleJobStarted, HandleJobCompleted,                 *)
(*            HandleDesiredRunnerCount and the send of Publish             *)
(* ack        handled, before the deletion of the message                  *)
(* close      in closeSession                                              *)
(* wait       in waitForRetry                                              *)
(* reopen     in the open call of reconnect                                *)
(***************************************************************************)
PC == {"idle", "opening", "run", "poll", "started", "completed", "count",
       "publish", "ack", "close", "wait", "reopen", "returned"}
InSession == pc \in {"run", "poll", "started", "completed", "count", "publish", "ack"}

Event == {"started", "completed"} \X Runner
Demand == [jobs : 0..MaxAssigned, gen : 1..MaxGeneration, busy : SUBSET Runner]
NoMessage == [events |-> 0, begun |-> {}, over |-> {}]

TypeOK ==
    /\ available \in BOOLEAN
    /\ pc \in PC
    /\ handle \in BOOLEAN
    /\ generation \in 0..MaxGeneration
    /\ current \in ReconnectInitial..ReconnectMaximum
    /\ waited \in ReconnectInitial..ReconnectMaximum
    /\ busy \subseteq Runner
    /\ hand \in [events : 0..2, begun : SUBSET Runner, over : SUBSET Runner]
    /\ acked \in BOOLEAN
    /\ demand \subseteq Demand
    /\ mailbox \subseteq Demand
    /\ taken \subseteq Demand
    /\ proofs \in Seq(Runner) /\ Len(proofs) <= QueueCapacity
    /\ canceled \in BOOLEAN
    /\ job \in [Runner -> {"none", "running", "over"}]
    /\ queue \in Seq(Event)
    /\ initialFailed \in BOOLEAN
    /\ contact \in BOOLEAN
    /\ shown \subseteq Runner

Init ==
    /\ available = TRUE
    /\ pc = "idle"
    /\ handle = FALSE
    /\ generation = 0
    /\ current = ReconnectInitial
    /\ waited = ReconnectInitial
    /\ busy = {}
    /\ hand = NoMessage
    /\ acked = TRUE
    /\ demand = {} /\ mailbox = {} /\ taken = {}
    /\ proofs = <<>>
    /\ canceled = FALSE
    /\ job = [r \in Runner |-> "none"]
    /\ queue = <<>>
    /\ initialFailed = FALSE
    /\ contact = TRUE
    /\ shown = {}

-----------------------------------------------------------------------------
(* claim, Close *)

\* Close, called when the application could not be constructed.
Close == /\ pc = "idle" /\ available
         /\ available' = FALSE
         /\ UNCHANGED <<pc, handle, generation, current, waited, handlerVars,
                        boxVars, canceled, serverVars, ghostVars>>

\* Run claims the source once; a source that was closed is refused.
Claim == /\ pc = "idle"
         /\ pc' = IF available THEN "opening" ELSE "returned"
         /\ available' = FALSE
         /\ UNCHANGED <<handle, generation, current, waited, handlerVars, boxVars,
                        canceled, serverVars, ghostVars>>

-----------------------------------------------------------------------------
(* Run: opening, closing and waiting *)

OutsideFrame == UNCHANGED <<available, boxVars, canceled, proofs, serverVars>>

\* Faulty variant of Opened: the new session continues the old generation.
OpenedAgain ==
    /\ handle' = TRUE
    /\ generation' = IF generation = 0 THEN 1 ELSE generation
    /\ busy' = {} /\ shown' = {}
    /\ pc' = "run"
    /\ UNCHANGED <<current, waited, hand, acked, contact>>

\* Faulty variant of Opened: the backoff is reset by the open call.
OpenedReset ==
    /\ handle' = TRUE
    /\ generation' = generation + 1
    /\ busy' = {} /\ shown' = {}
    /\ pc' = "run"
    /\ current' = ReconnectInitial
    /\ UNCHANGED <<waited, hand, acked, contact>>

\* A session is there: runSession gives it a new generation and a new handler.
Opened ==
    /\ handle' = TRUE
    /\ generation' = generation + 1
    /\ busy' = {} /\ shown' = {}
    /\ pc' = "run"
    /\ UNCHANGED <<current, waited, hand, acked, contact>>

\* Run goes round: reconnect waits for the delay that Next returns.
Reconnecting ==
    /\ pc' = "wait"
    /\ waited' = current
    /\ current' = Timing!Advance(current, ReconnectMaximum)
    /\ contact' = FALSE

Return == pc' = "returned" /\ UNCHANGED <<current, waited, contact>>

openInitial ==
    /\ pc = "opening"
    /\ \/ Opened /\ UNCHANGED initialFailed
       \/ /\ Reconnecting
          /\ initialFailed' = TRUE
          /\ UNCHANGED <<handle, generation, busy, hand, acked, shown>>
    /\ OutsideFrame

\* Faulty variant of closeSession: a canceled Run returns before it closes.
closeSessionUnlessCanceled ==
    /\ pc = "close"
    /\ IF canceled THEN Return /\ UNCHANGED handle ELSE Reconnecting /\ handle' = FALSE
    /\ UNCHANGED <<generation, busy, hand, acked, initialFailed, shown>>
    /\ OutsideFrame

\* Whether Close succeeds makes no difference; then Run looks at its context.
closeSession ==
    /\ pc = "close"
    /\ handle' = FALSE
    /\ IF canceled THEN Return ELSE Reconnecting
    /\ UNCHANGED <<generation, busy, hand, acked, initialFailed, shown>>
    /\ OutsideFrame

\* The timer and the context are ready in any order.
waitForRetry ==
    /\ pc = "wait"
    /\ \/ pc' = "reopen"
       \/ canceled /\ pc' = "returned"
    /\ UNCHANGED <<handle, generation, current, waited, busy, hand, acked, ghostVars>>
    /\ OutsideFrame

ReopenOK == pc = "reopen" /\ Opened /\ UNCHANGED initialFailed /\ OutsideFrame

\* Faulty variant of ReopenFails: the error ends Run.
ReopenFailsOnce ==
    /\ pc = "reopen"
    /\ Return
    /\ UNCHANGED <<handle, generation, busy, hand, acked, initialFailed, shown>>
    /\ OutsideFrame

ReopenFails ==
    /\ pc = "reopen"
    /\ IF canceled THEN Return ELSE Reconnecting
    /\ UNCHANGED <<handle, generation, busy, hand, acked, initialFailed, shown>>
    /\ OutsideFrame

-----------------------------------------------------------------------------
(* The listener of the scale-set library, as the handler sees it: one       *)
(* callback with the statistics of the new session, then for each message   *)
(* the jobs started, the jobs completed and the count, and for each empty   *)
(* poll the count.  It deletes the message before or after it handled it.   *)

ListenerFrame == UNCHANGED <<available, handle, generation, current, waited,
                             boxVars, canceled, job, ghostVars, busy, proofs>>

\* Bound: the last session is not dropped.
MayDrop == canceled \/ generation < MaxGeneration

\* GetMessage: an error, or the listener's first callback is not reached.
PollFails ==
    /\ pc \in {"run", "poll"}
    /\ MayDrop
    /\ pc' = "close"
    /\ UNCHANGED <<hand, acked, queue>>
    /\ ListenerFrame

\* Faulty variant of PollEmpty: a canceled poll passes for one that timed out.
PollEmptyAlways ==
    /\ pc = "poll"
    /\ pc' = "count"
    /\ hand' = NoMessage /\ acked' = TRUE
    /\ UNCHANGED queue
    /\ ListenerFrame

\* GetMessage: nothing came, the configured poll timeout included.
PollEmpty ==
    /\ pc = "poll" /\ ~canceled
    /\ pc' = "count"
    /\ hand' = NoMessage /\ acked' = TRUE
    /\ UNCHANGED queue
    /\ ListenerFrame

Subjects(kind, n) == {r \in Runner : \E i \in 1..n : queue[i] = <<kind, r>>}

\* GetMessage: one event, or two of different kinds.
PollMessage ==
    /\ pc = "poll" /\ ~canceled
    /\ \E n \in 1..2 :
         /\ n <= Len(queue)
         /\ n = 2 => queue[1][1] # queue[2][1]
         /\ hand' = [events |-> n, begun |-> Subjects("started", n),
                                   over |-> Subjects("completed", n)]
    /\ acked' = FALSE
    /\ pc' = "started"
    /\ UNCHANGED queue
    /\ ListenerFrame

Deleted == SubSeq(queue, hand.events + 1, Len(queue))

DeleteMessage ==
    /\ pc \in {"started", "ack"} /\ ~acked
    /\ acked' = TRUE
    /\ queue' = Deleted
    /\ pc' = IF pc = "ack" THEN "poll" ELSE pc
    /\ UNCHANGED hand
    /\ ListenerFrame

\* The deletion failed, with or without effect, and the listener gives up.
DeleteFails ==
    /\ pc \in {"started", "ack"} /\ ~acked
    /\ MayDrop
    /\ queue' \in {queue, Deleted}
    /\ acked' = TRUE
    /\ pc' = "close"
    /\ UNCHANGED hand
    /\ ListenerFrame

-----------------------------------------------------------------------------
(* demandHandler *)

HandlerFrame == UNCHANGED <<available, handle, generation, waited, hand, acked,
                            taken, canceled, serverVars, initialFailed>>

\* A full queue and an event that does not validate drop the event.
TryEnqueue == \/ /\ Len(proofs) < QueueCapacity
                 /\ \E r \in hand.begun : proofs' = Append(proofs, r)
              \/ UNCHANGED proofs

HandleJobStarted ==
    /\ pc = "started"
    /\ busy' = busy \cup hand.begun
    /\ TryEnqueue
    /\ pc' = "completed"
    /\ UNCHANGED <<current, demand, mailbox, contact, shown>>
    /\ HandlerFrame

\* Faulty variant of HandleJobCompleted: the runner stays busy.
HandleJobCompletedNever ==
    /\ pc = "completed"
    /\ pc' = "count"
    /\ UNCHANGED <<current, busy, proofs, demand, mailbox, contact, shown>>
    /\ HandlerFrame

HandleJobCompleted ==
    /\ pc = "completed"
    /\ busy' = busy \ hand.over
    /\ pc' = "count"
    /\ UNCHANGED <<current, proofs, demand, mailbox, contact, shown>>
    /\ HandlerFrame

Published(count) == [jobs |-> IF count > 0 THEN count ELSE 0,
                     gen |-> generation, busy |-> busy]

\* Faulty variant of HandleDesiredRunnerCount: Publish does not drain.
HandleDesiredRunnerCountNoDrain ==
    /\ pc \in {"run", "count"}
    /\ current' = ReconnectInitial /\ contact' = TRUE
    /\ \E count \in -1..MaxAssigned : demand' = {Published(count)}
    /\ shown' = busy
    /\ pc' = "publish"
    /\ UNCHANGED <<busy, proofs, mailbox>>
    /\ HandlerFrame

\* The backoff is reset, and Publish removes what nobody has taken.
HandleDesiredRunnerCount ==
    /\ pc \in {"run", "count"}
    /\ current' = ReconnectInitial /\ contact' = TRUE
    /\ \E count \in -1..MaxAssigned : demand' = {Published(count)}
    /\ mailbox' = {}
    /\ shown' = busy
    /\ pc' = "publish"
    /\ UNCHANGED <<busy, proofs>>
    /\ HandlerFrame

\* The send of Publish, on a channel that holds one demand.
Publish ==
    /\ pc = "publish"
    /\ mailbox = {}
    /\ mailbox' = demand
    /\ pc' = IF acked THEN "poll" ELSE "ack"
    /\ UNCHANGED <<current, busy, proofs, demand, contact, shown>>
    /\ HandlerFrame

-----------------------------------------------------------------------------
(* The other goroutines and GitHub *)

\* The demand arm of the reconciler's select.
TakeDemand ==
    /\ mailbox # {}
    /\ taken' = mailbox
    /\ mailbox' = {}
    /\ UNCHANGED <<loopVars, handlerVars, demand, canceled, serverVars, ghostVars>>

\* Coordinator.Run receives the oldest event.
TakeEvent ==
    /\ proofs # <<>>
    /\ proofs' = Tail(proofs)
    /\ UNCHANGED <<loopVars, busy, hand, acked, boxVars, canceled, serverVars,
                   ghostVars>>

Cancel == /\ ~canceled
          /\ canceled' = TRUE
          /\ UNCHANGED <<loopVars, handlerVars, boxVars, serverVars, ghostVars>>

ServerFrame == UNCHANGED <<loopVars, handlerVars, boxVars, canceled, ghostVars>>

JobStarts(r) == /\ job[r] = "none"
                /\ job' = [job EXCEPT ![r] = "running"]
                /\ queue' = Append(queue, <<"started", r>>)
                /\ ServerFrame

JobEnds(r) == /\ job[r] = "running"
              /\ job' = [job EXCEPT ![r] = "over"]
              /\ queue' = Append(queue, <<"completed", r>>)
              /\ ServerFrame

-----------------------------------------------------------------------------
RunStep == \/ openInitial
           \/ closeSession
           \/ waitForRetry
           \/ ReopenOK
           \/ ReopenFails
           \/ PollFails
           \/ PollEmpty
           \/ PollMessage
           \/ DeleteMessage
           \/ DeleteFails
           \/ HandleJobStarted
           \/ HandleJobCompleted
           \/ HandleDesiredRunnerCount
           \/ Publish

Next == \/ Close
        \/ Claim
        \/ RunStep
        \/ TakeDemand
        \/ TakeEvent
        \/ Cancel
        \/ \E r \in Runner : JobStarts(r) \/ JobEnds(r)

Spec == Init /\ [][Next]_vars

(***************************************************************************)
(* Fairness.  The goroutine of Run goes on: its requests end, by the       *)
(* client's own timeouts or because the context ended, and so do its       *)
(* timers.  GitHub is not out of reach for ever: a source that keeps       *)
(* trying to open a session succeeds in the end.                           *)
(***************************************************************************)
Fairness == WF_vars(RunStep) /\ SF_vars(ReopenOK)

FairSpec == Spec /\ Fairness

-----------------------------------------------------------------------------
(* Properties *)

(***************************************************************************)
(* A runner in the handler's busy set runs its job, or the event that will *)
(* take it out of the set is still to be handled in this session: no       *)
(* runner stays busy, and so safe from scale-down, for ever, although      *)
(* deletions fail with and without effect and events come again.           *)
(***************************************************************************)
NoPhantomBusy ==
    InSession => \A r \in busy :
      \/ job[r] = "running"
      \/ \E i \in DOMAIN queue : queue[i] = <<"completed", r>>
      \/ pc \in {"started", "completed"} /\ r \in hand.over

(***************************************************************************)
(* Mailbox.Publish never blocks its publisher, and the demand it was given *)
(* last is the one the reconciler reads or has read last, however the      *)
(* receive falls between the drain and the send.                           *)
(***************************************************************************)
NewestDemandWins ==
    /\ pc = "publish" => mailbox = {}
    /\ pc # "publish" /\ demand # {} =>
         mailbox = demand \/ (mailbox = {} /\ taken = demand)

(***************************************************************************)
(* Run never returns while it holds a message session it did not close,    *)
(* whenever the context ends.                                              *)
(***************************************************************************)
SessionReleased == pc = "returned" => ~handle

(***************************************************************************)
(* Sessions that open and fail without contact do not shorten the delay:   *)
(* a delay is shorter than the one before only if the handler was called   *)
(* in between, and then it is the initial one.                             *)
(***************************************************************************)
BackoffUntilContact ==
    [][pc # "wait" /\ pc' = "wait" =>
         IF contact THEN waited' = ReconnectInitial ELSE waited' >= waited]_vars

(***************************************************************************)
(* The message loop implements the demand feed the reconciler relies on.   *)
(***************************************************************************)
Feed == INSTANCE DemandFeed WITH
          mailbox <- IF pc = "publish" THEN demand ELSE mailbox,
          session <- generation, started <- shown

ImplementsFeed == Feed!FeedSpec

(***************************************************************************)
(* A disconnected source polls again or is stopped: failing to open a      *)
(* session, at the start or later, never ends it.                          *)
(***************************************************************************)
Reconnects == pc = "wait" ~> pc = "poll" \/ canceled

(***************************************************************************)
(* Run returns once its context has ended, wherever it is.                 *)
(***************************************************************************)
StopsWhenCanceled == canceled /\ pc # "idle" ~> pc = "returned"

-----------------------------------------------------------------------------
(* What the repository says of the code, and the code does not keep *)

(***************************************************************************)
(* "If the initial GitHub message session cannot be opened, the process    *)
(* also exits" (docs/docs/explanation/how-it-works.md:117): after          *)
(* openInitial failed, no session is ever run.                             *)
(***************************************************************************)
InitialFailureIsFatal == initialFailed => generation = 0
=============================================================================
