---------------------------- MODULE Controller ----------------------------
(***************************************************************************)
(* The reconciler of src/internal/controller: the goroutine of             *)
(* Controller.Run, its worker goroutines, the unbuffered work channel, the *)
(* results channel, the demand mailbox and the message session that fills  *)
(* it, over the runners of Fleet.                                          *)
(*                                                                         *)
(* Go maps are total functions with a value that stands for "no entry".    *)
(* Time is abstracted: a cooldown, a tick and a timer may end at any       *)
(* moment after they began.                                                *)
(***************************************************************************)
EXTENDS Fleet, Integers, Sequences, FiniteSets

CONSTANTS Worker,         \* worker goroutines (Options.Workers of them)
          Slot,           \* slots that tell the operations of one worker apart
          MinRunners,     \* Options.MinRunners
          MaxRunners,     \* Options.MaxRunners
          Fallible,       \* operation kinds that may fail for outside reasons
          MaxAssigned,    \* bound: assigned jobs in one demand
          MaxGeneration,  \* bound: message sessions opened by one process
          MaxRestarts,    \* bound: times the process is started again
          Stoppable       \* whether Run's context may be canceled

Kind == {"list", "create", "fence", "delete"}

ASSUME CapacityAssumption == /\ MinRunners \in Nat
                             /\ MaxRunners \in Nat
                             /\ MinRunners <= MaxRunners
ASSUME BoundAssumption == /\ MaxAssigned \in Nat
                          /\ MaxGeneration \in Nat
                          /\ MaxRestarts \in Nat
                          /\ Stoppable \in BOOLEAN
ASSUME WorkerAssumption == Worker # {} /\ IsFiniteSet(Worker)
\* A free worker has at most as many unread results as the channel holds.
ASSUME SlotAssumption == /\ IsFiniteSet(Slot)
                         /\ Cardinality(Slot) > Cardinality(Worker)
ASSUME FallibleAssumption == Fallible \subseteq Kind
\* The empty runner ID, and no name is empty.
Nobody == "nobody"
ASSUME RunnerAssumption == Nobody \notin Runner
\* Names are drawn one by one.
ASSUME FiniteAssumption == IsFiniteSet(Runner)

VARIABLES
  \* reconcileState
  runners,        \* runners[r]: observed state, "absent" without an entry
  operations,     \* operations in flight
  runnerOps,      \* runners with an operation in flight
  cooling,        \* failure keys whose retryAt has not passed
  created,        \* created[r]: generation r was created under, -1 without an entry
  busyRunners, fencedRunners, inventoryStale, generation, target,
  \* the goroutine of Run
  pc,             \* where it is, see PC
  outcome,        \* what Run returned
  \* the workers and the results channel
  at,             \* at[w]: where worker w is, see At
  item,           \* item[w]: the operation w executes
  out,            \* out[w]: the result w sends
  results,        \* buffered results, oldest first
  \* the demand side
  mailbox,        \* {} or the newest demand
  session,        \* generation of the current message session, 0 before the first
  started,        \* the session handler's busy set
  restarts,
  \* history, read by no action of the program
  told,           \* runners with a job whose JobStarted was delivered to anyone
  toldAt,         \* those of told when the demand in force was published
  contested       \* runners the controller discounted and may have to count again

stateVars == <<runners, operations, runnerOps, cooling, created, busyRunners,
               fencedRunners, inventoryStale, generation, target>>
loopVars == <<pc, outcome>>
workVars == <<at, item, out, results>>
demandVars == <<mailbox, session, started>>
ghostVars == <<told, toldAt, contested>>
vars == <<vm, gh, stateVars, loopVars, workVars, demandVars, restarts, ghostVars>>

\* The message sessions of this process and their mailbox.
Feed == INSTANCE DemandFeed

-----------------------------------------------------------------------------
(* The uint64 operation id tells operations in flight apart; here the       *)
(* worker that took the operation and a slot it has free do.                *)

\* What an operation is to do, and the key its failures are counted under.
Task == ({"list", "create"} \X {Nobody}) \cup ({"fence", "delete"} \X Runner)

Operation == {o \in [worker : Worker, slot : Slot, kind : Kind,
                     runner : Runner \cup {Nobody}, gen : 0..MaxGeneration] :
                <<o.kind, o.runner>> \in Task}

KnownState == RunnerState \cup {"absent"}
Nothing == [r \in Runner |-> "absent"]

\* operationResult: the operation, err = nil, runner.ID and runners.
Result == [op : Operation, ok : BOOLEAN, runner : Runner \cup {Nobody},
           runners : [Runner -> KnownState]]

\* item[w] and out[w] of a worker that has none.
NoOp == [worker |-> "none", slot |-> "none", kind |-> "list", runner |-> Nobody,
         gen |-> 0]
NoResult == [op |-> NoOp, ok |-> FALSE, runner |-> Nobody, runners |-> Nothing]

Demand == [jobs : 0..MaxAssigned, gen : 1..MaxGeneration, busy : SUBSET Runner]

\* The initial inventory, the select, the two waits of waitForWorkers, the end.
PC == {"inventory", "select", "drain", "cancel", "stopped"}

\* Not running; in or on its way to the receive; in a backend call; in the send.
At == {"off", "free", "working", "sending"}

TypeOK ==
    /\ FleetTypeOK
    /\ runners \in [Runner -> KnownState]
    /\ operations \subseteq Operation
    /\ runnerOps \subseteq Runner
    /\ cooling \subseteq Task
    /\ created \in [Runner -> -1..MaxGeneration]
    /\ busyRunners \subseteq Runner
    /\ fencedRunners \subseteq Runner
    /\ inventoryStale \in BOOLEAN
    /\ generation \in 0..MaxGeneration
    /\ target \in 0..MaxRunners
    /\ pc \in PC
    /\ outcome \in {"none", "nil", "error", "timeout"}
    /\ at \in [Worker -> At]
    /\ item \in [Worker -> Operation \cup {NoOp}]
    /\ out \in [Worker -> Result \cup {NoResult}]
    /\ results \in Seq(Result)
    /\ mailbox \subseteq Demand
    /\ session \in 0..MaxGeneration
    /\ started \subseteq Runner
    /\ restarts \in 0..MaxRestarts
    /\ told \subseteq Runner
    /\ toldAt \subseteq Runner
    /\ contested \subseteq Runner
    /\ \A w \in Worker : /\ at[w] = "working" => item[w] \in Operation
                         /\ at[w] = "sending" => out[w] \in Result

-----------------------------------------------------------------------------
Init ==
    /\ FleetInit
    /\ runners = Nothing
    /\ operations = {}
    /\ runnerOps = {}
    /\ cooling = {}
    /\ created = [r \in Runner |-> -1]
    /\ busyRunners = {}
    /\ fencedRunners = {}
    /\ inventoryStale = FALSE
    /\ generation = 0
    /\ target = MinRunners
    /\ pc = "inventory"
    /\ outcome = "none"
    /\ at = [w \in Worker |-> "off"]
    /\ item = [w \in Worker |-> NoOp]
    /\ out = [w \in Worker |-> NoResult]
    /\ results = <<>>
    /\ mailbox = {}
    /\ session = 0
    /\ started = {}
    /\ restarts = 0
    /\ told = {}
    /\ toldAt = {}
    /\ contested = {}

-----------------------------------------------------------------------------
(* reconcile *)

keyFor(kind, r) == <<kind, r>>

inventorying(ops) == \E o \in ops : o.kind = "list"

FreeSlots(w, ops) == {s \in Slot : \A o \in ops : o.worker # w \/ o.slot # s}

\* Where worker w is for the reconcile under way: Run starts the workers right
\* before the first one.
Standing(w) == IF pc = "inventory" THEN "free" ELSE at[w]

\* Workers that can take an operation, ops being the operations in flight.
Takers(ops) == {w \in Worker : Standing(w) = "free" /\ FreeSlots(w, ops) # {}}

NewOp(w, ops, task, gen) == [worker |-> w, slot |-> CHOOSE s \in FreeSlots(w, ops) : TRUE,
                             kind |-> task[1], runner |-> task[2], gen |-> gen]

\* Faulty variant of Counted: a runner that is not ready yet is forgotten.
CountedReady(r, known, inFlight, fenced) ==
    known[r] = "ready" /\ r \notin inFlight /\ r \notin fenced

\* A known runner that liveCapacity counts.
Counted(r, known, inFlight, fenced) ==
    known[r] \notin {"absent", "terminal"} /\ r \notin inFlight /\ r \notin fenced

CreatesOf(ops) == {o \in ops : o.kind = "create"}

\* Faulty variant of liveCapacity: creates in flight are not counted.
liveWithoutCreates(known, inFlight, fenced, ops) ==
    Cardinality({r \in Runner : Counted(r, known, inFlight, fenced)})

liveCapacity(known, inFlight, fenced, ops) ==
    Cardinality({r \in Runner : Counted(r, known, inFlight, fenced)})
      + Cardinality(CreatesOf(ops))

\* Faulty variant of idleRunners: any recorded generation will do.
idleAnyGeneration(known, busy, made, gen, fenced, inFlight) ==
    {r \in Runner : /\ known[r] = "ready"
                    /\ r \notin busy \cup fenced \cup inFlight
                    /\ made[r] # -1}

\* The candidates of idleRunner.
idleRunners(known, busy, made, gen, fenced, inFlight) ==
    {r \in Runner : /\ known[r] = "ready"
                    /\ r \notin busy
                    /\ made[r] = gen
                    /\ r \notin fenced
                    /\ r \notin inFlight}

NoTask == <<"none", Nobody>>

(***************************************************************************)
(* The calls of trySchedule that succeed in one reconcile, as the task     *)
(* each free worker takes.  A send succeeds only when a worker is at its   *)
(* receive, and a free worker may still be on its way there, so any call   *)
(* may miss; a task that is cooling down or whose runner has an operation  *)
(* in flight is never offered.                                             *)
(***************************************************************************)
Assignments(ops, deletable, creatable, missing, fenceable, excess) ==
    {take \in [Takers(ops) -> {NoTask}
                 \cup {keyFor("delete", r) : r \in deletable}
                 \cup (IF creatable THEN {keyFor("create", Nobody)} ELSE {})
                 \cup {keyFor("fence", r) : r \in fenceable}] :
       /\ \A w, x \in Takers(ops) : w # x /\ take[w] = take[x]
                                      => take[w][2] = Nobody
       /\ Cardinality({w \in Takers(ops) : take[w][1] = "create"}) <= missing
       /\ Cardinality({w \in Takers(ops) : take[w][1] = "fence"}) <= excess}

Above(n, m) == IF n > m THEN n - m ELSE 0

\* Faulty variant of Hand: runnerOps also gets the empty runner ID.
HandUnguarded(ops, inFlight, take, genFor) ==
    LET takers == {w \in DOMAIN take : take[w] # NoTask}
        op(w) == NewOp(w, ops, take[w], IF take[w][1] = "create" THEN genFor ELSE 0)
    IN /\ operations' = ops \cup {op(w) : w \in takers}
       /\ runnerOps' = inFlight \cup {take[w][2] : w \in takers}
       /\ at' = [w \in Worker |-> IF w \in takers THEN "working" ELSE Standing(w)]
       /\ item' = [w \in Worker |-> IF w \in takers THEN op(w) ELSE item[w]]

\* Records what the workers took; genFor is the generation of a create.
Hand(ops, inFlight, take, genFor) ==
    LET takers == {w \in DOMAIN take : take[w] # NoTask}
        op(w) == NewOp(w, ops, take[w], IF take[w][1] = "create" THEN genFor ELSE 0)
    IN /\ operations' = ops \cup {op(w) : w \in takers}
       /\ runnerOps' = inFlight \cup ({take[w][2] : w \in takers} \ {Nobody})
       /\ at' = [w \in Worker |-> IF w \in takers THEN "working" ELSE Standing(w)]
       /\ item' = [w \in Worker |-> IF w \in takers THEN op(w) ELSE item[w]]

(***************************************************************************)
(* One reconcile, after the handler it ends has set the primed state and   *)
(* left ops and inFlight of the operations.                                *)
(***************************************************************************)
reconcile(ops, inFlight) ==
    IF inventoryStale' \/ inventorying(ops)
      THEN /\ operations' = ops
           /\ runnerOps' = inFlight
           /\ at' = [w \in Worker |-> Standing(w)]
           /\ UNCHANGED item
      ELSE LET free(kind, r) == keyFor(kind, r) \notin cooling'
               lives == liveCapacity(runners', inFlight, fencedRunners', ops)
               idle == idleRunners(runners', busyRunners', created', generation',
                                   fencedRunners', inFlight)
           IN \E take \in Assignments(ops,
                {r \in Runner \ inFlight : runners'[r] = "terminal" /\ free("delete", r)},
                free("create", Nobody),
                Above(target', lives),
                {r \in idle : free("fence", r)},
                Above(lives, target')) :
                Hand(ops, inFlight, take, generation')

targetFor(jobs) == LET wanted == MinRunners + Above(jobs, 0)
                   IN IF wanted < MaxRunners THEN wanted ELSE MaxRunners

-----------------------------------------------------------------------------
(* Controller.Run: the initial inventory *)

\* VMs that are listed as terminal and may still come up.
MayRevive == {r \in Runner : vm'[r] \in {"starting", "overdue"}}

\* Discounted runners stay contested while they exist or are known.
Contest(rs) == contested' = {r \in contested \cup rs \cup MayRevive :
                               vm'[r] # "absent" \/ runners[r] # "absent"}

\* The first successful snapshot: the workers start and reconcile follows.
InitialInventory ==
    /\ pc = "inventory"
    /\ runners' = Snapshot
    /\ pc' = "select"
    /\ UNCHANGED <<vm, gh, cooling, created, busyRunners, fencedRunners,
                   inventoryStale, generation, target, outcome, out, results,
                   demandVars, restarts, ghostVars>>
    /\ reconcile(operations, runnerOps)

Stop(result) ==
    /\ pc' = "stopped"
    /\ outcome' = result
    /\ UNCHANGED <<vm, gh, stateVars, workVars, demandVars, restarts, ghostVars>>

\* A snapshot with a runner newReconcileState does not accept ends Run.
InvalidInventory == pc = "inventory" /\ "list" \in Fallible /\ Stop("error")

\* waitForInitialInventory returns because the context ended.
InventoryCanceled == pc = "inventory" /\ Stoppable /\ Stop("nil")

-----------------------------------------------------------------------------
(* Controller.Run: the arms of the select *)

TakeDemand ==
    /\ pc = "select"
    /\ \E d \in mailbox : /\ generation' = d.gen
                          /\ busyRunners' = d.busy
                          /\ target' = targetFor(d.jobs)
    /\ mailbox' = {}
    /\ toldAt' = told
    /\ UNCHANGED <<vm, gh, runners, cooling, created, fencedRunners,
                   inventoryStale, loopVars, out, results, session, started,
                   restarts, told, contested>>
    /\ reconcile(operations, runnerOps)

\* Faulty variant of Refresh: a stale inventory is not refreshed.
RefreshOnlyFresh(w) ==
    /\ operations = {}
    /\ ~inventoryStale
    /\ keyFor("list", Nobody) \notin cooling
    /\ w \in Takers({})
    /\ Hand({}, runnerOps, [x \in {w} |-> keyFor("list", Nobody)], 0)

\* refresh: nothing is in flight and a worker takes the listing.
Refresh(w) ==
    /\ operations = {}
    /\ keyFor("list", Nobody) \notin cooling
    /\ w \in Takers({})
    /\ Hand({}, runnerOps, [x \in {w} |-> keyFor("list", Nobody)], 0)

\* The ticker: refresh, then reconcile, which a listing in flight suppresses.
Tick ==
    /\ pc = "select"
    /\ UNCHANGED <<vm, gh, runners, cooling, created, busyRunners, fencedRunners,
                   inventoryStale, generation, target, loopVars, out, results,
                   demandVars, restarts, ghostVars>>
    /\ \/ \E w \in Worker : Refresh(w)
       \/ reconcile(operations, runnerOps)

\* Faulty variant of recordFailure: the inventory is still trusted.
recordFailureTrusting(op) ==
    /\ cooling' = cooling \cup {keyFor(op.kind, op.runner)}
    /\ Contest({op.runner} \cap Runner)
    /\ UNCHANGED <<runners, created, busyRunners, fencedRunners, inventoryStale>>

\* recordFailure: cool down and mutate nothing before a fresh inventory.
recordFailure(op) ==
    /\ cooling' = cooling \cup {keyFor(op.kind, op.runner)}
    /\ inventoryStale' = TRUE
    /\ Contest({op.runner} \cap Runner)
    /\ UNCHANGED <<runners, created, busyRunners, fencedRunners>>

\* Faulty variant of ApplyList: a fresh inventory stays marked as stale.
ApplyListStale(inventory) ==
    /\ runners' = inventory
    /\ created' = [r \in Runner |-> IF inventory[r] = "absent" THEN -1
                                                               ELSE created[r]]
    /\ fencedRunners' = {r \in fencedRunners : inventory[r] # "absent"}
    /\ UNCHANGED <<busyRunners, inventoryStale>>

\* apply of a successful listing, pruneRunnerKnowledge included.
ApplyList(inventory) ==
    /\ runners' = inventory
    /\ created' = [r \in Runner |-> IF inventory[r] = "absent" THEN -1
                                                               ELSE created[r]]
    /\ fencedRunners' = {r \in fencedRunners : inventory[r] # "absent"}
    /\ inventoryStale' = FALSE
    /\ UNCHANGED busyRunners

ApplyCreate(r, gen) ==
    /\ runners' = [runners EXCEPT ![r] = "provisioning"]
    /\ created' = [created EXCEPT ![r] = gen]
    /\ UNCHANGED <<busyRunners, fencedRunners, inventoryStale>>

ApplyFence(r) ==
    /\ fencedRunners' = fencedRunners \cup {r}
    /\ UNCHANGED <<runners, created, busyRunners, inventoryStale>>

ApplyDelete(r) ==
    /\ runners' = [runners EXCEPT ![r] = "absent"]
    /\ created' = [created EXCEPT ![r] = -1]
    /\ busyRunners' = busyRunners \ {r}
    /\ fencedRunners' = fencedRunners \ {r}
    /\ UNCHANGED inventoryStale

ApplySuccess(op, res) ==
    /\ \/ op.kind = "list" /\ ApplyList(res.runners)
       \/ op.kind = "create" /\ ApplyCreate(res.runner, op.gen)
       \/ op.kind = "fence" /\ ApplyFence(op.runner)
       \/ op.kind = "delete" /\ ApplyDelete(op.runner)
    /\ cooling' = cooling \ {keyFor(op.kind, op.runner)}
    /\ UNCHANGED contested
    /\ reconcile(operations \ {op}, runnerOps \ {op.runner})

\* Faulty variant of ApplyFailure: the runner of the operation stays marked.
ApplyFailureMarked(op) ==
    /\ recordFailure(op)
    /\ operations' = operations \ {op}
    /\ UNCHANGED <<runnerOps, at, item>>

\* No reconcile follows a failure.
ApplyFailure(op) ==
    /\ recordFailure(op)
    /\ operations' = operations \ {op}
    /\ runnerOps' = runnerOps \ {op.runner}
    /\ UNCHANGED <<at, item>>

\* Faulty variant of apply: a failed fence is taken for a fence.
applyFenceAnyway(op, res) ==
    \/ (res.ok \/ op.kind = "fence") /\ ApplySuccess(op, res)
    \/ ~res.ok /\ op.kind # "fence" /\ ApplyFailure(op)

\* apply, for an operation that is still recorded.
apply(op, res) == \/ res.ok /\ ApplySuccess(op, res)
                  \/ ~res.ok /\ ApplyFailure(op)

\* A result is received; one whose operation is not recorded is ignored.
TakeResult ==
    /\ pc = "select"
    /\ results # <<>>
    /\ results' = Tail(results)
    /\ UNCHANGED <<vm, gh, generation, target, loopVars, out, demandVars,
                   restarts, told, toldAt>>
    /\ IF Head(results).op \in operations
         THEN apply(Head(results).op, Head(results))
         ELSE UNCHANGED <<runners, operations, runnerOps, cooling, created,
                          busyRunners, fencedRunners, inventoryStale, at, item,
                          contested>>

\* ctx.Done: the work channel is closed and the workers are waited for.
StopWork ==
    /\ pc = "select"
    /\ Stoppable
    /\ pc' = "drain"
    /\ UNCHANGED <<vm, gh, stateVars, outcome, workVars, demandVars, restarts,
                   ghostVars>>

-----------------------------------------------------------------------------
(* runWorker *)

WorkerFrame == UNCHANGED <<stateVars, loopVars, demandVars, restarts>>

\* The range loop ends once the work channel is closed.
WorkerExits(w) ==
    /\ at[w] = "free"
    /\ pc \in {"drain", "cancel", "stopped"}
    /\ at' = [at EXCEPT ![w] = "off"]
    /\ UNCHANGED <<vm, gh, item, out, results, ghostVars>>
    /\ WorkerFrame

\* The backend call of w returned.
Answer(w, ok, r, inventory) ==
    /\ at' = [at EXCEPT ![w] = "sending"]
    /\ item' = [item EXCEPT ![w] = NoOp]
    /\ out' = [out EXCEPT ![w] = [op |-> item[w], ok |-> ok, runner |-> r,
                                  runners |-> inventory]]
    /\ UNCHANGED <<results, told, toldAt>>
    /\ WorkerFrame

Executing(w, kind) == at[w] = "working" /\ item[w].kind = kind

WorkerLists(w) ==
    /\ Executing(w, "list")
    /\ \/ Answer(w, TRUE, Nobody, Snapshot)
       \/ "list" \in Fallible /\ Answer(w, FALSE, Nobody, Nothing)
    /\ UNCHANGED <<vm, gh, contested>>

\* NewID draws a random UUID: a name that nothing remembers.
FreshName(r) ==
    /\ vm[r] = "absent" /\ gh[r] = "none"
    /\ runners[r] = "absent" /\ created[r] = -1
    /\ r \notin busyRunners \cup fencedRunners \cup started
    /\ \A d \in mailbox : r \notin d.busy
    /\ \A o \in operations : o.runner # r
    /\ \A k \in cooling : k[2] # r
    /\ \A w \in Worker : at[w] = "sending" =>
         out[w].runner # r /\ out[w].runners[r] = "absent"
    /\ \A i \in DOMAIN results :
         results[i].runner # r /\ results[i].runners[r] = "absent"

\* Without a free name the project has no room: Incus refuses the instance.
WorkerCreates(w) ==
    /\ Executing(w, "create")
    /\ \/ \E r \in Runner :
            /\ FreshName(r)
            /\ \/ CreateOK(r) /\ Answer(w, TRUE, r, Nothing)
               \/ /\ "create" \in Fallible
                  /\ CreateFails(r)
                  /\ Answer(w, FALSE, r, Nothing)
            /\ contested' = (contested \ {r}) \cup MayRevive
       \/ /\ \A r \in Runner : ~FreshName(r)
          /\ Answer(w, FALSE, Nobody, Nothing)
          /\ UNCHANGED <<vm, gh, contested>>

WorkerFences(w) ==
    LET r == item[w].runner
    IN /\ Executing(w, "fence")
       /\ \/ FenceOK(r) /\ Answer(w, TRUE, r, Nothing)
          \/ /\ "fence" \in Fallible \/ gh[r] = "busy"
             /\ FenceFails(r)
             /\ Answer(w, FALSE, r, Nothing)
       /\ UNCHANGED contested

WorkerDeletes(w) ==
    LET r == item[w].runner
    IN /\ Executing(w, "delete")
       /\ \/ DeleteOK(r) /\ Answer(w, TRUE, r, Nothing)
          \/ /\ "delete" \in Fallible \/ gh[r] = "busy" \/ vm[r] = "starting"
             /\ DeleteFails(r)
             /\ Answer(w, FALSE, r, Nothing)
       /\ Contest({})

\* results <- result, on a channel that holds one result per worker.
WorkerSends(w) ==
    /\ at[w] = "sending"
    /\ Len(results) < Cardinality(Worker)
    /\ results' = Append(results, out[w])
    /\ out' = [out EXCEPT ![w] = NoResult]
    /\ at' = [at EXCEPT ![w] = "free"]
    /\ UNCHANGED <<vm, gh, item, ghostVars>>
    /\ WorkerFrame

-----------------------------------------------------------------------------
(* waitForWorkers *)

WorkersDone == /\ pc \in {"drain", "cancel"}
               /\ \A w \in Worker : at[w] = "off"
               /\ Stop("nil")

\* Faulty variant of GraceExpires: Run returns when the grace period ends.
GraceReturns == pc = "drain" /\ Stop("nil")

\* The grace period ends and the operations' contexts are canceled.
GraceExpires ==
    /\ pc = "drain"
    /\ pc' = "cancel"
    /\ UNCHANGED <<vm, gh, stateVars, outcome, workVars, demandVars, restarts,
                   ghostVars>>

HardTimeout == pc = "cancel" /\ Stop("timeout")

-----------------------------------------------------------------------------
(* Time, the service manager, the message session and the fleet *)

CooldownEnds(k) ==
    /\ k \in cooling
    /\ cooling' = cooling \ {k}
    /\ UNCHANGED <<vm, gh, runners, operations, runnerOps, created, busyRunners,
                   fencedRunners, inventoryStale, generation, target, loopVars,
                   workVars, demandVars, restarts, ghostVars>>

\* The process dies or has ended, and is started again with an empty memory.
Restart ==
    /\ restarts < MaxRestarts
    /\ restarts' = restarts + 1
    /\ runners' = Nothing /\ operations' = {} /\ runnerOps' = {} /\ cooling' = {}
    /\ created' = [r \in Runner |-> -1]
    /\ busyRunners' = {} /\ fencedRunners' = {} /\ inventoryStale' = FALSE
    /\ generation' = 0 /\ target' = MinRunners
    /\ pc' = "inventory" /\ outcome' = "none"
    /\ at' = [w \in Worker |-> "off"]
    /\ item' = [w \in Worker |-> NoOp]
    /\ out' = [w \in Worker |-> NoResult]
    /\ results' = <<>>
    /\ mailbox' = {} /\ session' = 0 /\ started' = {}
    /\ toldAt' = {}
    /\ UNCHANGED <<vm, gh, told>>
    /\ Contest(fencedRunners \cup runnerOps)

SessionFrame == UNCHANGED <<vm, gh, stateVars, loopVars, workVars, restarts,
                            toldAt, contested>>

OpenSession == pc # "stopped" /\ Feed!OpenSession /\ UNCHANGED told /\ SessionFrame

(***************************************************************************)
(* A message of the session: at most one JobStarted and one JobCompleted,  *)
(* then HandleDesiredRunnerCount publishes what the handler knows, in      *)
(* place of a demand nobody has taken.  A JobStarted GitHub saw no         *)
(* acknowledgement of comes again.                                         *)
(***************************************************************************)
Message ==
    /\ pc # "stopped"
    /\ \E n \in 0..MaxAssigned,
          begun \in Feed!AtMostOne({q \in Runner : gh[q] = "busy"}),
          over \in Feed!AtMostOne({q \in started : gh[q] # "busy"}) :
         /\ Feed!Message(n, begun, over)
         /\ told' = told \cup begun
    /\ SessionFrame

Environment ==
    /\ \E r \in Runner : GuestStep(r)
    /\ told' = {r \in told : gh'[r] = "busy"}
    /\ toldAt' = {r \in toldAt : gh'[r] = "busy"}
    /\ Contest({})
    /\ UNCHANGED <<stateVars, loopVars, workVars, demandVars, restarts>>

-----------------------------------------------------------------------------
MainStep == \/ InitialInventory
            \/ InvalidInventory
            \/ InventoryCanceled
            \/ TakeDemand
            \/ Tick
            \/ TakeResult
            \/ StopWork
            \/ WorkersDone
            \/ GraceExpires
            \/ HardTimeout

WorkerStep(w) == \/ WorkerExits(w)
                 \/ WorkerLists(w)
                 \/ WorkerCreates(w)
                 \/ WorkerFences(w)
                 \/ WorkerDeletes(w)
                 \/ WorkerSends(w)

Next == \/ MainStep
        \/ \E w \in Worker : WorkerStep(w)
        \/ \E k \in cooling : CooldownEnds(k)
        \/ Restart
        \/ OpenSession
        \/ Message
        \/ Environment

Spec == Init /\ [][Next]_vars

(***************************************************************************)
(* Fairness.  Every backend call ends (OperationTimeout), a free worker    *)
(* reaches its receive and the ticker fires, so a reconcile that keeps     *)
(* offering a task does not miss a waiting worker for ever; the select     *)
(* picks among its ready arms at random; cooldowns end; GitHub forgets     *)
(* runners that are gone.                                                  *)
(***************************************************************************)
Scheduled(kind, r) ==
    MainStep /\ \E o \in operations' \ operations : o.kind = kind /\ o.runner = r

Fairness ==
    /\ WF_vars(InitialInventory)
    /\ SF_vars(TakeResult)
    /\ SF_vars(Scheduled("list", Nobody))
    /\ SF_vars(Scheduled("create", Nobody))
    /\ \A r \in Runner : SF_vars(Scheduled("delete", r))
    /\ \A w \in Worker : WF_vars(WorkerStep(w))
    /\ \A k \in Task : WF_vars(CooldownEnds(k))
    /\ \A r \in Runner : WF_vars(ForgetRunner(r) /\ Environment)
    /\ \A r \in Runner : WF_vars((LateCreate(r) \/ LateStart(r)) /\ Environment)

FairSpec == Spec /\ Fairness

-----------------------------------------------------------------------------
(* Properties *)

\* Where operation o is: with a worker, or as a result in the channel.
HeldBy(o) == {w \in Worker : \/ at[w] = "working" /\ item[w] = o
                             \/ at[w] = "sending" /\ out[w].op = o}
QueuedAs(o) == {n \in DOMAIN results : results[n].op = o}

(***************************************************************************)
(* No operation is lost or answered twice: every recorded operation is in  *)
(* the hands of exactly one worker or waits as exactly one result, no      *)
(* result belongs to an operation apply has forgotten, a runner is the     *)
(* subject of at most one operation and runnerOps says of which runners    *)
(* there is one.  Otherwise a runner would be excluded from scheduling for *)
(* ever, or be operated on twice at once.                                  *)
(***************************************************************************)
OperationsAccounted ==
    /\ \A o \in operations : Cardinality(HeldBy(o)) + Cardinality(QueuedAs(o)) = 1
    /\ \A w \in Worker : /\ at[w] = "working" => item[w] \in operations
                         /\ at[w] = "sending" => out[w].op \in operations
    /\ \A n \in DOMAIN results : results[n].op \in operations
    /\ \A o, p \in operations : o.runner = p.runner /\ o.runner # Nobody => o = p
    /\ runnerOps = {o.runner : o \in operations} \ {Nobody}

\* A create that produced r and whose result apply has not seen yet.
CreatePending(r) ==
    \/ \E w \in Worker : /\ at[w] = "sending"
                         /\ out[w].op.kind = "create"
                         /\ out[w].runner = r
    \/ \E n \in DOMAIN results : /\ results[n].op.kind = "create"
                                 /\ results[n].runner = r

(***************************************************************************)
(* While the inventory is not stale, every VM that is up is known to the   *)
(* reconciler or is the product of a create it still counts: the target is *)
(* never chased in ignorance of a running VM, whatever failed before and   *)
(* whatever the listings raced with.                                       *)
(***************************************************************************)
NoUncountedVM ==
    pc = "select" /\ ~inventoryStale =>
      \A r \in Runner : Up(r) => runners[r] # "absent" \/ CreatePending(r)

(***************************************************************************)
(* idleRunner never selects a runner whose running job had been announced, *)
(* in any message session of any process, before the demand in force was   *)
(* published: the generation recorded with a runner is what makes the busy *)
(* set of the current session complete for it.                             *)
(***************************************************************************)
ScaleDownAuthority ==
    \A r \in idleRunners(runners, busyRunners, created, generation,
                         fencedRunners, runnerOps) : r \notin toldAt

(***************************************************************************)
(* A runner the reconciler holds to be fenced has no registration left, so *)
(* leaving it out of liveCapacity loses no runner that could take a job.   *)
(***************************************************************************)
FencedUnregistered == \A r \in fencedRunners : gh[r] = "none"

(***************************************************************************)
(* The ceiling, as the code keeps it: counted runners and creates in       *)
(* flight exceed MaxRunners only by runners the controller had discounted  *)
(* (fence or delete in flight, bootstrap timeout, a start still under way, *)
(* fenced by an earlier process) and had to count again.                   *)
(***************************************************************************)
CeilingUpToContested ==
    pc = "select" =>
      Cardinality({r \in Runner \ contested :
                     Counted(r, runners, runnerOps, fencedRunners)})
        + Cardinality(CreatesOf(operations)) <= MaxRunners

(***************************************************************************)
(* Run returns nil only when no worker is left inside a backend operation. *)
(***************************************************************************)
CleanStop == pc = "stopped" /\ outcome = "nil" => \A w \in Worker : at[w] = "off"

\* The controller is stopping, on request or for an error.
Stopping == pc \in {"drain", "cancel", "stopped"}

(***************************************************************************)
(* A VM that ended is deleted in the end, also when its job never reported *)
(* its completion: a delete GitHub refuses is tried again, until the       *)
(* controller is stopped.                                                  *)
(***************************************************************************)
EndedIsDeleted == \A r \in Runner : vm[r] = "ended" ~> vm[r] = "absent" \/ Stopping

(***************************************************************************)
(* The pool never stays empty while runners are wanted: with a floor of at *)
(* least one, a state in which no VM is up is followed by one in which one *)
(* is, unless the controller is stopped.                                   *)
(***************************************************************************)
FloorRestored == (\A r \in Runner : ~Up(r)) ~> (\E r \in Runner : Up(r)) \/ Stopping

-----------------------------------------------------------------------------
(* What the repository says of the code, and the code does not keep *)

(***************************************************************************)
(* "MaxRunners is the hard capacity ceiling" (types.go:78): what           *)
(* liveCapacity counts never exceeds it.                                   *)
(***************************************************************************)
HardCeiling ==
    pc = "select" =>
      liveCapacity(runners, runnerOps, fencedRunners, operations) <= MaxRunners

\* Every worker has ended or is stuck in its send, nobody reading results.
Wedged ==
    /\ \E w \in Worker : at[w] = "sending"
    /\ \A w \in Worker :
         \/ at[w] = "off"
         \/ at[w] = "sending" /\ Len(results) = Cardinality(Worker)

(***************************************************************************)
(* "ErrShutdownTimeout reports that a backend operation ignored            *)
(* cancellation beyond the controller's bounded shutdown window"           *)
(* (types.go:12): the workers are never stuck during shutdown after all    *)
(* backend operations have returned, which leaves Run no other outcome.    *)
(***************************************************************************)
TimeoutBlamesBackend == pc = "cancel" => ~Wedged
=============================================================================
