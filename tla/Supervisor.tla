----------------------------- MODULE Supervisor -----------------------------
(***************************************************************************)
(* Application.Run (src/internal/app/app.go): the goroutine that starts    *)
(* the demand source, the reconciler and the proof coordinator, waits for  *)
(* the first of them to stop, cancels the others and gives them a bounded  *)
(* time, and the result it returns to the command line.  Before it comes   *)
(* the preparation of the components, which may fail, and after it the     *)
(* restart of a failed service (src/deploy/systemd).                       *)
(***************************************************************************)
EXTENDS Integers, Sequences, FiniteSets

CONSTANTS Component,      \* the components that may be supervised
          Prompt          \* those known to return once they are canceled

ASSUME ComponentAssumption == /\ IsFiniteSet(Component)
                              /\ Component # {}
                              /\ Prompt \subseteq Component

VARIABLES
  state,      \* state[c]: unstarted, running, or the error Component.Run returned
  results,    \* the results channel, which holds one result per component
  pc,         \* in prepare, waiting for the first result, for the peers, or returned
  received,   \* components whose result was received
  stop,       \* the context of Run has ended
  canceled,   \* the context of the components has ended
  outcome     \* what Run returned

supervision == <<state, results, pc, received, stop, canceled, outcome>>

\* A nil error, one that wraps context.Canceled, any other.
Ended == {"nil", "canceled", "error"}

TypeOK ==
    /\ state \in [Component -> {"unstarted", "running"} \cup Ended]
    /\ results \in Seq(Component)
    /\ pc \in {"prepare", "first", "peers", "returned"}
    /\ received \subseteq Component
    /\ stop \in BOOLEAN
    /\ canceled \in BOOLEAN
    /\ outcome \in {"none", "nil", "error", "timeout"}

Members == {c \in Component : state[c] # "unstarted"}

SupervisorInit ==
    /\ state = [c \in Component |-> "unstarted"]
    /\ results = <<>>
    /\ pc = "prepare"
    /\ received = {}
    /\ stop = FALSE
    /\ canceled = FALSE
    /\ outcome = "none"

-----------------------------------------------------------------------------
\* Every component is started in a context derived from that of Run.
Begin(members) ==
    /\ pc = "prepare"
    /\ members # {}
    /\ state' = [c \in Component |-> IF c \in members THEN "running" ELSE "unstarted"]
    /\ pc' = "first"
    /\ canceled' = stop
    /\ UNCHANGED <<results, received, stop, outcome>>

\* The preparation fails, and the process exits with its error.
PrepareFails ==
    /\ pc = "prepare"
    /\ pc' = "returned"
    /\ outcome' = "error"
    /\ UNCHANGED <<state, results, received, stop, canceled>>

\* systemd starts a failed service again, unless it was told to stop it.
Restart ==
    /\ pc = "returned" /\ outcome # "nil" /\ ~stop
    /\ pc' = "prepare"
    /\ state' = [c \in Component |-> "unstarted"]
    /\ results' = <<>>
    /\ received' = {}
    /\ canceled' = FALSE
    /\ outcome' = "none"
    /\ UNCHANGED stop

\* A component returns, asked to or not; the send never blocks.
ComponentEnds(c) ==
    /\ state[c] = "running"
    /\ \E how \in Ended : state' = [state EXCEPT ![c] = how]
    /\ results' = Append(results, c)
    /\ UNCHANGED <<pc, received, stop, canceled, outcome>>

\* The signal handler of the command line ends the context of Run.
Stop ==
    /\ ~stop /\ pc # "returned"
    /\ stop' = TRUE
    /\ canceled' = (pc # "prepare")
    /\ UNCHANGED <<state, results, pc, received, outcome>>

TakeFirst ==
    /\ pc = "first" /\ results # <<>>
    /\ received' = {Head(results)}
    /\ results' = Tail(results)
    /\ canceled' = TRUE
    /\ pc' = "peers"
    /\ UNCHANGED <<state, stop, outcome>>

TakePeer ==
    /\ pc = "peers" /\ results # <<>>
    /\ received' = received \cup {Head(results)}
    /\ results' = Tail(results)
    /\ UNCHANGED <<state, pc, stop, canceled, outcome>>

Return(result) == /\ pc' = "returned"
                  /\ outcome' = result
                  /\ canceled' = TRUE
                  /\ UNCHANGED <<state, results, received, stop>>

\* Faulty variant of BudgetExpires: the wait for the peers has no bound.
BudgetUnbounded == FALSE

\* waitForPeers: the timer fires while a peer is still out.
BudgetExpires == pc = "peers" /\ received # Members /\ Return("timeout")

\* Faulty variant of joined: a requested stop always succeeds.
joinedNothing(failed) == IF stop THEN "nil" ELSE "error"

(***************************************************************************)
(* The errors Run joins, all components having ended: after a requested    *)
(* stop the meaningful ones, otherwise always that of the first component, *)
(* whose stop nobody asked for.                                            *)
(***************************************************************************)
joined(failed) == IF stop /\ failed = {} THEN "nil" ELSE "error"

\* Faulty variant of Finish: one result too few is waited for.
FinishEarly ==
    /\ pc = "peers" /\ Cardinality(received) >= Cardinality(Members) - 1
    /\ Return(joined({c \in Component : state[c] = "error"}))

Finish ==
    /\ pc = "peers" /\ received = Members
    /\ Return(joined({c \in Component : state[c] = "error"}))

-----------------------------------------------------------------------------
RunStep == TakeFirst \/ TakePeer \/ Finish

Supervise == \/ \E c \in Component : ComponentEnds(c)
             \/ Stop
             \/ RunStep
             \/ BudgetExpires

SupervisorNext == \/ \E members \in SUBSET Component : Begin(members)
                  \/ PrepareFails \/ Restart
                  \/ Supervise

SupervisorSpec == SupervisorInit /\ [][SupervisorNext]_supervision

-----------------------------------------------------------------------------
(* Properties *)

(***************************************************************************)
(* The process exits with success only if it was asked to stop, every      *)
(* component has ended and none of them failed: systemd's restart on       *)
(* failure never misses a failed component, whenever the stop request      *)
(* falls between the results.                                              *)
(***************************************************************************)
SuccessIsEarned ==
    outcome = "nil" => /\ stop /\ Members # {}
                       /\ \A c \in Members : state[c] \in {"nil", "canceled"}

(***************************************************************************)
(* No component outlives the process's work, unless Run says that it timed *)
(* out.                                                                    *)
(***************************************************************************)
NoneLeftRunning ==
    outcome \in {"nil", "error"} => \A c \in Component : state[c] # "running"
=============================================================================
