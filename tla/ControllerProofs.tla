------------------------- MODULE ControllerProofs -------------------------
(* Theorems about Controller, for any number of runners and workers, any   *)
(* capacity limits and any bounds.                                         *)
EXTENDS Controller, FiniteSetTheorems, TLAPS

-----------------------------------------------------------------------------
(* Type correctness *)

\* An operation that is no create carries generation 0.
LEMMA GenerationZero == 0 \in 0..MaxGeneration
  BY BoundAssumption

\* The generation recorded for a runner this process did not create.
LEMMA MinusOne == -1 \in -1..MaxGeneration
  BY BoundAssumption

\* The part of TypeOK that scheduling changes.
WorkTypeOK ==
    /\ operations \subseteq Operation
    /\ runnerOps \subseteq Runner
    /\ at \in [Worker -> At]
    /\ item \in [Worker -> Operation \cup {NoOp}]
    /\ \A w \in Worker : /\ at[w] = "working" => item[w] \in Operation
                         /\ at[w] = "sending" => out[w] \in Result

\* What the workers take is well typed when what they are offered is.
LEMMA HandType ==
    ASSUME TypeOK,
           NEW ops \in SUBSET Operation,
           NEW inFlight \in SUBSET Runner,
           NEW gen \in 0..MaxGeneration,
           NEW W \in SUBSET Takers(ops),
           NEW take \in [W -> {NoTask} \cup Task],
           Hand(ops, inFlight, take, gen),
           UNCHANGED out
    PROVE  WorkTypeOK'
<1> DEFINE takers == {w \in DOMAIN take : take[w] # NoTask}
<1> DEFINE op(w) == NewOp(w, ops, take[w], IF take[w][1] = "create" THEN gen ELSE 0)
<1>1. takers \subseteq W /\ W \subseteq Worker
  BY DEF Takers
<1>2. ASSUME NEW w \in takers
      PROVE  op(w) \in Operation /\ take[w][2] \in Runner \cup {Nobody}
  <2>1. take[w] \in Task
    OBVIOUS
  <2>2. /\ take[w][1] \in Kind /\ take[w][2] \in Runner \cup {Nobody}
        /\ <<take[w][1], take[w][2]>> \in Task
    BY <2>1 DEF Task, Kind
  <2>3. FreeSlots(w, ops) # {}
    BY <1>1 DEF Takers
  <2>4. (CHOOSE s \in FreeSlots(w, ops) : TRUE) \in Slot
    BY <2>3 DEF FreeSlots
  <2>5. (IF take[w][1] = "create" THEN gen ELSE 0) \in 0..MaxGeneration
    BY GenerationZero
  <2>6. w \in Worker
    BY <1>1
  <2> QED
    BY <2>2, <2>4, <2>5, <2>6 DEF NewOp, Operation
<1>3. /\ operations' = ops \cup {op(w) : w \in takers}
      /\ runnerOps' = inFlight \cup ({take[w][2] : w \in takers} \ {Nobody})
      /\ at' = [w \in Worker |-> IF w \in takers THEN "working" ELSE Standing(w)]
      /\ item' = [w \in Worker |-> IF w \in takers THEN op(w) ELSE item[w]]
  BY DEF Hand
<1> HIDE DEF takers, op
<1>4. operations' \subseteq Operation
  BY <1>2, <1>3
<1>5. runnerOps' \subseteq Runner
  BY <1>2, <1>3
<1>6. at' \in [Worker -> At]
  BY <1>3 DEF TypeOK, At, Standing
<1>7. item' \in [Worker -> Operation \cup {NoOp}]
  BY <1>2, <1>3 DEF TypeOK
<1>8. ASSUME NEW w \in Worker
      PROVE  /\ at'[w] = "working" => item'[w] \in Operation
             /\ at'[w] = "sending" => out'[w] \in Result
  BY <1>2, <1>3 DEF TypeOK, Standing
<1> QED
  BY <1>4, <1>5, <1>6, <1>7, <1>8 DEF WorkTypeOK

\* Every task reconcile offers is an operation kind and a runner or none.
LEMMA TaskType ==
    ASSUME NEW D \in SUBSET Runner, NEW C, NEW F \in SUBSET Runner
    PROVE  {NoTask} \cup {keyFor("delete", r) : r \in D}
             \cup (IF C THEN {keyFor("create", Nobody)} ELSE {})
             \cup {keyFor("fence", r) : r \in F}
           \subseteq {NoTask} \cup Task
<1>1. \A r \in D : keyFor("delete", r) \in Task
  BY DEF keyFor, Task
<1>2. \A r \in F : keyFor("fence", r) \in Task
  BY DEF keyFor, Task
<1>3. keyFor("create", Nobody) \in Task
  BY DEF keyFor, Task
<1> QED
  BY <1>1, <1>2, <1>3

\* reconcile keeps the operations, the workers and their items well typed.
LEMMA ReconcileType ==
    ASSUME TypeOK,
           NEW ops \in SUBSET Operation,
           NEW inFlight \in SUBSET Runner,
           generation' \in 0..MaxGeneration,
           reconcile(ops, inFlight),
           UNCHANGED out
    PROVE  WorkTypeOK'
<1>1. CASE inventoryStale' \/ inventorying(ops)
  BY <1>1 DEF reconcile, TypeOK, WorkTypeOK, Standing, At
<1>2. CASE ~(inventoryStale' \/ inventorying(ops))
  <2> DEFINE D == {r \in Runner \ inFlight : /\ runners'[r] = "terminal"
                                            /\ keyFor("delete", r) \notin cooling'}
  <2> DEFINE C == keyFor("create", Nobody) \notin cooling'
  <2> DEFINE L == liveCapacity(runners', inFlight, fencedRunners', ops)
  <2> DEFINE F == {r \in idleRunners(runners', busyRunners', created', generation',
                                     fencedRunners', inFlight) :
                     keyFor("fence", r) \notin cooling'}
  <2>1. D \in SUBSET Runner /\ F \in SUBSET Runner
    BY DEF idleRunners
  <2>2. PICK take \in Assignments(ops, D, C, Above(target', L), F, Above(L, target')) :
          Hand(ops, inFlight, take, generation')
    BY <1>2 DEF reconcile
  <2> DEFINE T == {NoTask} \cup {keyFor("delete", r) : r \in D}
                    \cup (IF C THEN {keyFor("create", Nobody)} ELSE {})
                    \cup {keyFor("fence", r) : r \in F}
  <2>3. T \subseteq {NoTask} \cup Task
    BY <2>1, TaskType
  <2>4. take \in [Takers(ops) -> T]
    BY DEF Assignments
  <2>5. take \in [Takers(ops) -> {NoTask} \cup Task]
    <3> HIDE DEF T
    <3> QED
      BY <2>3, <2>4
  <2> HIDE DEF D, C, L, F, T
  <2> QED
    BY <2>2, <2>5, HandType
<1> QED
  BY <1>1, <1>2

\* The target stays between 0 and MaxRunners.
LEMMA TargetRange ==
    ASSUME NEW n \in 0..MaxAssigned
    PROVE  targetFor(n) \in 0..MaxRunners
  BY CapacityAssumption, BoundAssumption DEF targetFor, Above

\* Every single-runner step of the fleet keeps it well typed.
LEMMA SetType ==
    ASSUME FleetTypeOK, NEW r \in Runner, NEW v \in VMState, NEW g \in GHState,
           Set(r, v, g)
    PROVE  FleetTypeOK'
  BY DEF FleetTypeOK, Set

\* Whatever a worker or a guest does to a runner is well typed.
LEMMA FleetStepType ==
    ASSUME FleetTypeOK, NEW r \in Runner,
           \/ GuestStep(r) \/ CreateOK(r) \/ CreateFails(r) \/ FenceOK(r)
           \/ FenceFails(r) \/ DeleteOK(r) \/ DeleteFails(r)
    PROVE  FleetTypeOK'
<1>1. vm[r] \in VMState /\ gh[r] \in GHState
  BY DEF FleetTypeOK
<1>2. CASE UNCHANGED fleetVars
  BY <1>2 DEF FleetTypeOK, fleetVars
<1>3. CASE \E v \in VMState, g \in GHState : Set(r, v, g)
  BY <1>3, SetType
<1>4. \/ UNCHANGED fleetVars
      \/ \E v \in VMState, g \in GHState : Set(r, v, g)
  BY <1>1 DEF GuestStep, GuestReady, BootstrapExpires, AssignJob, FinishJob,
       GuestExit, ForgetRunner, LateCreate, LateStart, LateDelete, CreateOK, CreateFails, FenceOK,
       FenceFails, DeleteOK, DeleteFails, VMState, GHState
<1> QED
  BY <1>2, <1>3, <1>4

\* A listing shows states the reconciler knows.
LEMMA SnapshotType == Snapshot \in [Runner -> KnownState]
  BY DEF Snapshot, KnownState, RunnerState

-----------------------------------------------------------------------------
\* The memory of a process that has just started is well typed.
LEMMA FreshTypes ==
    /\ Nothing \in [Runner -> KnownState]
    /\ [r \in Runner |-> -1] \in [Runner -> -1..MaxGeneration]
    /\ 0 \in 0..MaxGeneration
    /\ 0 \in 0..MaxRestarts
    /\ MinRunners \in 0..MaxRunners
    /\ [w \in Worker |-> "off"] \in [Worker -> At]
    /\ [w \in Worker |-> NoOp] \in [Worker -> Operation \cup {NoOp}]
    /\ [w \in Worker |-> NoResult] \in [Worker -> Result \cup {NoResult}]
    /\ <<>> \in Seq(Result)
<1>1. Nothing \in [Runner -> KnownState]
  BY DEF Nothing, KnownState
<1>2. -1 \in -1..MaxGeneration /\ 0 \in 0..MaxGeneration /\ 0 \in 0..MaxRestarts
  BY BoundAssumption
<1>3. MinRunners \in 0..MaxRunners
  BY CapacityAssumption
<1>4. [w \in Worker |-> "off"] \in [Worker -> At]
  BY DEF At
<1>5. [w \in Worker |-> NoOp] \in [Worker -> Operation \cup {NoOp}]
  OBVIOUS
<1>6. [w \in Worker |-> NoResult] \in [Worker -> Result \cup {NoResult}]
  OBVIOUS
<1>7. [r \in Runner |-> -1] \in [Runner -> -1..MaxGeneration]
  BY <1>2
<1>8. <<>> \in Seq(Result)
  OBVIOUS
<1> QED
  BY <1>1, <1>2, <1>3, <1>4, <1>5, <1>6, <1>7, <1>8

\* TypeOK holds in the initial state of the process and its world.
LEMMA TypeInit == Init => TypeOK
<1> SUFFICES ASSUME Init PROVE TypeOK
  OBVIOUS
<1>1. FleetTypeOK
  BY DEF Init, FleetInit, FleetTypeOK, VMState, GHState
<1>2. pc \in PC
  BY DEF Init, PC
<1>3. \A w \in Worker : at[w] = "off"
  BY DEF Init
<1> QED
  BY <1>1, <1>2, <1>3, FreshTypes, Zenon DEF Init, TypeOK

-----------------------------------------------------------------------------
\* Every arm of the select, and every other step of Run, keeps TypeOK.
LEMMA MainStepType == ASSUME TypeOK, MainStep PROVE TypeOK'
<1>1. CASE InitialInventory
  <2>1. runners' \in [Runner -> KnownState] /\ pc' \in PC
    BY <1>1, SnapshotType DEF InitialInventory, PC
  <2>2. WorkTypeOK'
    BY <1>1, ReconcileType DEF InitialInventory, TypeOK
  <2> QED
    BY <1>1, <2>1, <2>2
       DEF InitialInventory, WorkTypeOK, TypeOK, FleetTypeOK, demandVars, ghostVars
<1>2. ASSUME NEW result \in {"nil", "error", "timeout"}, Stop(result) PROVE TypeOK'
  BY <1>2 DEF Stop, PC, TypeOK, FleetTypeOK, stateVars, workVars, demandVars, ghostVars
<1>3. CASE InvalidInventory \/ InventoryCanceled \/ WorkersDone \/ HardTimeout
  BY <1>2, <1>3 DEF InvalidInventory, InventoryCanceled, WorkersDone, HardTimeout
<1>4. CASE StopWork \/ GraceExpires
  BY <1>4 DEF StopWork, GraceExpires, PC, TypeOK, FleetTypeOK, stateVars, workVars,
              demandVars, ghostVars
<1>5. CASE TakeDemand
  <2>1. PICK d \in mailbox : /\ generation' = d.gen
                             /\ busyRunners' = d.busy
                             /\ target' = targetFor(d.jobs)
    BY <1>5 DEF TakeDemand
  <2>2. d.gen \in 1..MaxGeneration /\ d.busy \subseteq Runner /\ d.jobs \in 0..MaxAssigned
    BY DEF TypeOK, Demand
  <2>3. generation' \in 0..MaxGeneration /\ busyRunners' \subseteq Runner
    BY <2>1, <2>2, BoundAssumption
  <2>4. target' \in 0..MaxRunners
    BY <2>1, <2>2, TargetRange
  <2>5. UNCHANGED out /\ reconcile(operations, runnerOps)
    BY <1>5 DEF TakeDemand
  <2>6. operations \in SUBSET Operation /\ runnerOps \in SUBSET Runner
    BY DEF TypeOK
  <2>7. WorkTypeOK'
    BY <2>3, <2>5, <2>6, ReconcileType
  <2> QED
    BY <1>5, <2>3, <2>4, <2>7 DEF TakeDemand, TypeOK, WorkTypeOK, FleetTypeOK, loopVars
<1>6. CASE Tick
  <2>1. WorkTypeOK'
    <3>1. UNCHANGED out /\ generation' \in 0..MaxGeneration
      BY <1>6 DEF Tick, TypeOK
    <3>2. operations \in SUBSET Operation /\ runnerOps \in SUBSET Runner
      BY DEF TypeOK
    <3>3. CASE reconcile(operations, runnerOps)
      BY <3>1, <3>2, <3>3, ReconcileType
    <3>4. ASSUME NEW w \in Worker, Refresh(w) PROVE WorkTypeOK'
      <4> DEFINE take == [x \in {w} |-> keyFor("list", Nobody)]
      <4>1. {w} \in SUBSET Takers({}) /\ Hand({}, runnerOps, take, 0)
        BY <3>4 DEF Refresh
      <4>2. keyFor("list", Nobody) \in Task
        BY DEF keyFor, Task
      <4>3. take \in [{w} -> {NoTask} \cup Task]
        BY <4>2
      <4> HIDE DEF take
      <4> QED
        BY <3>1, <3>2, <4>1, <4>3, GenerationZero, HandType
    <3> QED
      BY <1>6, <3>3, <3>4 DEF Tick
  <2> QED
    BY <1>6, <2>1 DEF Tick, TypeOK, WorkTypeOK, FleetTypeOK, loopVars, demandVars,
                      ghostVars
<1>7. CASE TakeResult
  <2> DEFINE res == Head(results)
  <2> DEFINE op == res.op
  <2>1. /\ res \in Result
        /\ results' \in Seq(Result)
    BY <1>7 DEF TakeResult, TypeOK
  <2>2. /\ res.runners \in [Runner -> KnownState]
        /\ op \in Operation
    BY <2>1 DEF Result
  <2>3. /\ op.gen \in 0..MaxGeneration
        /\ <<op.kind, op.runner>> \in Task
        /\ op.kind \in {"fence", "delete"} => op.runner \in Runner
    BY <2>2 DEF Operation, Task
  <2>4. operations \ {op} \in SUBSET Operation /\ runnerOps \ {op.runner} \in SUBSET Runner
    BY DEF TypeOK
  <2>5. UNCHANGED <<vm, gh, generation, target, pc, outcome, out, mailbox, session,
                    started, restarts, told, toldAt>>
    BY <1>7 DEF TakeResult, loopVars, demandVars
  <2>6. generation' \in 0..MaxGeneration
    BY <2>5 DEF TypeOK
  <2> HIDE DEF res, op
  <2>7. CASE op \notin operations
    <3>1. UNCHANGED <<runners, operations, runnerOps, cooling, created, busyRunners,
                      fencedRunners, inventoryStale, at, item, contested>>
      BY <1>7, <2>7 DEF TakeResult, op, res
    <3> QED
      BY <2>1, <2>5, <3>1 DEF TypeOK, FleetTypeOK
  <2>8. CASE op \in operations /\ res.ok
    <3>1. /\ apply(op, res)
          /\ cooling' = cooling \ {keyFor(op.kind, op.runner)}
          /\ UNCHANGED contested
          /\ reconcile(operations \ {op}, runnerOps \ {op.runner})
      BY <1>7, <2>8 DEF TakeResult, op, res, apply, ApplySuccess, ApplyFailure
    <3>2. WorkTypeOK'
      BY <2>4, <2>5, <2>6, <3>1, ReconcileType
    <3>3. /\ runners' \in [Runner -> KnownState]
          /\ created' \in [Runner -> -1..MaxGeneration]
          /\ busyRunners' \subseteq Runner
          /\ fencedRunners' \subseteq Runner
          /\ inventoryStale' \in BOOLEAN
      <4>1. CASE op.kind = "list" /\ ApplyList(res.runners)
        <5>1. created' \in [Runner -> -1..MaxGeneration]
          BY <4>1, MinusOne DEF ApplyList, TypeOK
        <5> QED
          BY <2>2, <4>1, <5>1 DEF ApplyList, TypeOK
      <4>2. CASE op.kind = "create" /\ ApplyCreate(res.runner, op.gen)
        <5>1. op.gen \in -1..MaxGeneration
          BY <2>3, BoundAssumption
        <5>2. "provisioning" \in KnownState
          BY DEF KnownState, RunnerState
        <5> QED
          BY <4>2, <5>1, <5>2 DEF ApplyCreate, TypeOK
      <4>3. CASE op.kind = "fence" /\ ApplyFence(op.runner)
        BY <2>3, <4>3 DEF ApplyFence, TypeOK
      <4>4. CASE op.kind = "delete" /\ ApplyDelete(op.runner)
        BY <2>3, <4>4, BoundAssumption DEF ApplyDelete, TypeOK, KnownState
      <4> QED
        BY <2>8, <3>1, <4>1, <4>2, <4>3, <4>4 DEF apply, ApplySuccess
    <3> QED
      BY <2>1, <2>5, <3>1, <3>2, <3>3 DEF TypeOK, WorkTypeOK, FleetTypeOK
  <2>9. CASE op \in operations /\ ~res.ok
    <3>1. /\ recordFailure(op)
          /\ operations' = operations \ {op}
          /\ runnerOps' = runnerOps \ {op.runner}
          /\ UNCHANGED <<at, item>>
      BY <1>7, <2>9 DEF TakeResult, op, res, apply, ApplySuccess, ApplyFailure
    <3>2. /\ cooling' \subseteq Task
          /\ contested' \subseteq Runner
          /\ inventoryStale' \in BOOLEAN
          /\ UNCHANGED <<runners, created, busyRunners, fencedRunners>>
      BY <2>3, <3>1 DEF recordFailure, Contest, MayRevive, TypeOK, keyFor
    <3> QED
      BY <2>1, <2>4, <2>5, <3>1, <3>2 DEF TypeOK, FleetTypeOK
  <2> QED
    BY <2>7, <2>8, <2>9
<1> QED
  BY <1>1, <1>3, <1>4, <1>5, <1>6, <1>7 DEF MainStep

\* Every step of a worker keeps TypeOK: what a backend call returns is well
\* typed, and a result in the channel is one a worker sent.
LEMMA WorkerStepType ==
    ASSUME TypeOK, NEW w \in Worker, WorkerStep(w) PROVE TypeOK'
<1>1. CASE WorkerExits(w)
  <2>1. at' \in [Worker -> At] /\ at' = [at EXCEPT ![w] = "off"]
    BY <1>1 DEF WorkerExits, TypeOK, At
  <2> QED
    BY <1>1, <2>1 DEF WorkerExits, WorkerFrame, TypeOK, FleetTypeOK, stateVars,
                      loopVars, demandVars, ghostVars
<1>2. CASE WorkerSends(w)
  <2>1. at' \in [Worker -> At] /\ at' = [at EXCEPT ![w] = "free"]
    BY <1>2 DEF WorkerSends, TypeOK, At
  <2>2. out[w] \in Result
    BY <1>2 DEF WorkerSends, TypeOK
  <2>3. results' \in Seq(Result)
    BY <1>2, <2>2 DEF WorkerSends, TypeOK
  <2>4. out' \in [Worker -> Result \cup {NoResult}]
    BY <1>2 DEF WorkerSends, TypeOK
  <2>5. \A x \in Worker : x # w => out'[x] = out[x] /\ at'[x] = at[x]
    BY <1>2 DEF WorkerSends, TypeOK
  <2>6. at'[w] = "free"
    BY <2>1 DEF TypeOK
  <2> QED
    BY <1>2, <2>1, <2>3, <2>4, <2>5, <2>6
       DEF WorkerSends, WorkerFrame, TypeOK, FleetTypeOK, stateVars, loopVars,
           demandVars, ghostVars
\* The backend call of w returns.
<1>3. ASSUME NEW ok \in BOOLEAN, NEW r \in Runner \cup {Nobody},
             NEW inventory \in [Runner -> KnownState],
             at[w] = "working",
             FleetTypeOK',
             contested' \subseteq Runner,
             Answer(w, ok, r, inventory)
      PROVE  TypeOK'
  <2>1. item[w] \in Operation
    BY <1>3 DEF TypeOK
  <2> DEFINE res == [op |-> item[w], ok |-> ok, runner |-> r, runners |-> inventory]
  <2>2. res \in Result
    BY <2>1 DEF Result
  <2>3. /\ at' = [at EXCEPT ![w] = "sending"]
        /\ item' = [item EXCEPT ![w] = NoOp]
        /\ out' = [out EXCEPT ![w] = res]
        /\ UNCHANGED <<results, told, toldAt>>
        /\ WorkerFrame
    BY <1>3 DEF Answer
  <2> HIDE DEF res
  <2>4. /\ at' \in [Worker -> At]
        /\ item' \in [Worker -> Operation \cup {NoOp}]
        /\ out' \in [Worker -> Result \cup {NoResult}]
    BY <2>2, <2>3 DEF TypeOK, At
  <2>5. \A x \in Worker : /\ at'[x] = "working" => item'[x] \in Operation
                          /\ at'[x] = "sending" => out'[x] \in Result
    BY <2>2, <2>3 DEF TypeOK
  <2> QED
    BY <1>3, <2>3, <2>4, <2>5 DEF WorkerFrame, TypeOK, stateVars, loopVars, demandVars
<1>4. Nothing \in [Runner -> KnownState] /\ Snapshot \in [Runner -> KnownState]
  BY FreshTypes, SnapshotType
<1>5. CASE WorkerLists(w)
  BY <1>3, <1>4, <1>5 DEF WorkerLists, Executing, TypeOK, FleetTypeOK
<1>6. CASE WorkerCreates(w)
  <2>1. contested' \subseteq Runner /\ at[w] = "working"
    BY <1>6 DEF WorkerCreates, Executing, Contest, MayRevive, TypeOK
  <2>2. ASSUME NEW r \in Runner, NEW ok \in BOOLEAN, CreateOK(r) \/ CreateFails(r),
               Answer(w, ok, r, Nothing)
        PROVE  TypeOK'
    <3>1. FleetTypeOK'
      BY <2>2, FleetStepType DEF TypeOK
    <3> QED
      BY <1>3, <1>4, <2>1, <2>2, <3>1
  <2>3. ASSUME UNCHANGED <<vm, gh>>, Answer(w, FALSE, Nobody, Nothing) PROVE TypeOK'
    BY <1>3, <1>4, <2>1, <2>3 DEF TypeOK, FleetTypeOK
  <2> QED
    BY <1>6, <2>2, <2>3 DEF WorkerCreates
<1>7. CASE WorkerFences(w) \/ WorkerDeletes(w)
  <2> DEFINE r == item[w].runner
  <2>1. at[w] = "working" /\ item[w].kind \in {"fence", "delete"}
    BY <1>7 DEF WorkerFences, WorkerDeletes, Executing
  <2>2. r \in Runner
    BY <2>1 DEF TypeOK, Operation, Task
  <2>3. contested' \subseteq Runner
    BY <1>7 DEF WorkerFences, WorkerDeletes, Contest, MayRevive, TypeOK
  <2>4. PICK ok \in BOOLEAN : Answer(w, ok, r, Nothing)
    BY <1>7 DEF WorkerFences, WorkerDeletes
  <2>5. FenceOK(r) \/ FenceFails(r) \/ DeleteOK(r) \/ DeleteFails(r)
    BY <1>7 DEF WorkerFences, WorkerDeletes
  <2> HIDE DEF r
  <2>6. FleetTypeOK'
    BY <2>2, <2>5, FleetStepType DEF TypeOK
  <2> QED
    BY <1>3, <1>4, <2>1, <2>2, <2>3, <2>4, <2>6
<1> QED
  BY <1>1, <1>2, <1>5, <1>6, <1>7 DEF WorkerStep

-----------------------------------------------------------------------------
\* TypeOK is inductive.
LEMMA TypeStep == TypeOK /\ [Next]_vars => TypeOK'
<1> SUFFICES ASSUME TypeOK, [Next]_vars PROVE TypeOK'
  OBVIOUS
<1>1. CASE MainStep
  BY <1>1, MainStepType
<1>2. ASSUME NEW w \in Worker, WorkerStep(w) PROVE TypeOK'
  BY <1>2, WorkerStepType
<1>3. ASSUME NEW k \in cooling, CooldownEnds(k) PROVE TypeOK'
  BY <1>3 DEF CooldownEnds, TypeOK, FleetTypeOK, loopVars, workVars, demandVars, ghostVars
<1>4. CASE Restart
  <2>1. restarts' \in 0..MaxRestarts
    BY <1>4, BoundAssumption DEF Restart, TypeOK
  <2>2. contested' \subseteq Runner
    BY <1>4 DEF Restart, Contest, MayRevive, TypeOK
  <2>3. "inventory" \in PC /\ \A x \in Worker : at'[x] = "off"
    BY <1>4 DEF Restart, PC
  <2>4. FleetTypeOK' /\ told' \subseteq Runner
    BY <1>4 DEF Restart, TypeOK, FleetTypeOK
  <2> QED
    BY <1>4, <2>1, <2>2, <2>3, <2>4, FreshTypes, Zenon DEF Restart, TypeOK
<1>5. CASE OpenSession
  BY <1>5, BoundAssumption DEF OpenSession, Feed!OpenSession, SessionFrame, TypeOK, FleetTypeOK, stateVars,
     loopVars, workVars
<1>6. CASE Message
  <2>1. /\ session \in 1..MaxGeneration
        /\ started' \subseteq Runner /\ told' \subseteq Runner
    BY <1>6, BoundAssumption DEF Message, Feed!Message, Feed!AtMostOne, TypeOK
  <2>2. mailbox' \subseteq Demand
    BY <1>6, <2>1 DEF Message, Feed!Message, Feed!AtMostOne, Demand
  <2> QED
    BY <1>6, <2>1, <2>2 DEF Message, Feed!Message, SessionFrame, TypeOK, FleetTypeOK, stateVars,
                            loopVars, workVars
<1>7. CASE Environment
  <2>1. FleetTypeOK'
    BY <1>7, FleetStepType DEF Environment, TypeOK
  <2> QED
    BY <1>7, <2>1 DEF Environment, Contest, MayRevive, TypeOK, stateVars, loopVars, workVars, demandVars
<1>8. CASE UNCHANGED vars
  BY <1>8 DEF vars, TypeOK, FleetTypeOK, stateVars, loopVars, workVars, demandVars, ghostVars
<1> QED
  BY <1>1, <1>2, <1>3, <1>4, <1>5, <1>6, <1>7, <1>8 DEF Next

(***************************************************************************)
(* TypeOK is an invariant: what trySchedule hands out, what the workers    *)
(* send and what apply stores stays within the types above, whatever the   *)
(* number of runners and workers.                                          *)
(***************************************************************************)
THEOREM TypeCorrect == Spec => []TypeOK
  BY TypeInit, TypeStep, PTL DEF Spec

-----------------------------------------------------------------------------
(* Fenced runners hold no registration *)

\* A successful fence whose result is on its way names an unregistered runner.
FenceTold(res) ==
    res.ok /\ res.op.kind = "fence" =>
      res.runner = res.op.runner /\ gh[res.op.runner] = "none"

\* The same after the step.
StillTold(res) ==
    res.ok /\ res.op.kind = "fence" =>
      res.runner = res.op.runner /\ gh'[res.op.runner] = "none"

(***************************************************************************)
(* FencedUnregistered is not inductive: apply believes a result that may   *)
(* have been sent long ago.  The strengthening says the same of every      *)
(* result a worker holds and of every result in the channel.               *)
(***************************************************************************)
FenceInv ==
    /\ FencedUnregistered
    /\ \A w \in Worker : at[w] = "sending" => FenceTold(out[w])
    /\ \A n \in DOMAIN results : FenceTold(results[n])

\* A registration comes into being only with a runner nobody has heard of.
LEMMA FleetRegisters ==
    ASSUME FleetTypeOK, NEW r \in Runner, NEW q \in Runner,
           \/ GuestStep(r) \/ FenceOK(r) \/ FenceFails(r)
           \/ DeleteOK(r) \/ DeleteFails(r),
           gh[q] = "none"
    PROVE  gh'[q] = "none"
  BY DEF FleetTypeOK, GuestStep, GuestReady, BootstrapExpires, AssignJob, FinishJob,
         GuestExit, ForgetRunner, LateCreate, LateStart, LateDelete, FenceOK, FenceFails, DeleteOK,
         DeleteFails, Set, fleetVars

\* A create registers nobody else.
LEMMA CreateRegisters ==
    ASSUME FleetTypeOK, NEW r \in Runner, NEW q \in Runner \ {r},
           CreateOK(r) \/ CreateFails(r)
    PROVE  gh'[q] = gh[q]
  BY DEF FleetTypeOK, CreateOK, CreateFails, Set

\* Steps that add nobody to fencedRunners, register nobody and invent no result.
LEMMA FenceStutter ==
    ASSUME TypeOK, FenceInv,
           \A q \in Runner : gh[q] = "none" => gh'[q] = "none",
           fencedRunners' \subseteq fencedRunners,
           \A w \in Worker : at'[w] = "sending" => at[w] = "sending" /\ out'[w] = out[w],
           \A n \in DOMAIN results' :
             \/ \E m \in DOMAIN results : results'[n] = results[m]
             \/ \E w \in Worker : at[w] = "sending" /\ results'[n] = out[w]
    PROVE  FenceInv'
<1>1. ASSUME NEW res \in Result, FenceTold(res) PROVE FenceTold(res)'
  <2>1. CASE res.ok /\ res.op.kind = "fence"
    <3>1. res.op.runner \in Runner
      BY <2>1 DEF Result, Operation, Task
    <3> QED
      BY <1>1, <3>1 DEF FenceTold
  <2> QED
    BY <1>1, <2>1 DEF FenceTold
<1>2. FencedUnregistered'
  BY DEF FenceInv, FencedUnregistered, TypeOK
<1>3. \A n \in DOMAIN results : results[n] \in Result
  BY DEF TypeOK
<1>4. \A w \in Worker : at'[w] = "sending" => FenceTold(out[w])' /\ out'[w] = out[w]
  BY <1>1 DEF FenceInv, TypeOK
<1>5. ASSUME NEW n \in DOMAIN results' PROVE FenceTold(results[n])'
  <2>1. PICK res \in Result : FenceTold(res) /\ results'[n] = res
    BY <1>3 DEF FenceInv, TypeOK
  <2> QED
    BY <1>1, <2>1 DEF FenceTold
<1> QED
  BY <1>2, <1>4, <1>5 DEF FenceInv, FenceTold

\* Scheduling moves no worker into the send.
LEMMA HandSends ==
    ASSUME TypeOK, NEW ops, NEW inFlight, NEW take, NEW gen,
           Hand(ops, inFlight, take, gen)
    PROVE  \A w \in Worker : at'[w] = "sending" => at[w] = "sending"
  BY DEF Hand, TypeOK, Standing

\* Scheduling makes no worker answer.
LEMMA ReconcileSends ==
    ASSUME TypeOK, NEW ops, NEW inFlight, reconcile(ops, inFlight)
    PROVE  \A w \in Worker : at'[w] = "sending" => at[w] = "sending"
<1>1. CASE inventoryStale' \/ inventorying(ops)
  BY <1>1 DEF reconcile, Standing
<1>2. CASE ~(inventoryStale' \/ inventorying(ops))
  <2>1. \E take : Hand(ops, inFlight, take, generation')
    BY <1>2 DEF reconcile
  <2> QED
    BY <2>1, HandSends
<1> QED
  BY <1>1, <1>2

\* The reconciler forgets a fence or records one a worker has confirmed.
LEMMA FenceMainStep == ASSUME TypeOK, FenceInv, MainStep PROVE FenceInv'
<1>1. UNCHANGED gh
  BY DEF MainStep, InitialInventory, InvalidInventory, InventoryCanceled, TakeDemand,
         Tick, TakeResult, StopWork, WorkersDone, GraceExpires, HardTimeout, Stop
<1>2. CASE InitialInventory
  <2>1. UNCHANGED <<fencedRunners, out, results>> /\ reconcile(operations, runnerOps)
    BY <1>2 DEF InitialInventory
  <2> QED
    BY <1>1, <2>1, FenceStutter, ReconcileSends
<1>3. CASE InvalidInventory \/ InventoryCanceled \/ WorkersDone \/ HardTimeout
           \/ StopWork \/ GraceExpires
  <2>1. UNCHANGED <<fencedRunners, at, out, results>>
    BY <1>3 DEF InvalidInventory, InventoryCanceled, WorkersDone, HardTimeout,
                StopWork, GraceExpires, Stop, stateVars, workVars
  <2> QED
    BY <1>1, <2>1, FenceStutter
<1>4. CASE TakeDemand
  <2>1. UNCHANGED <<fencedRunners, out, results>> /\ reconcile(operations, runnerOps)
    BY <1>4 DEF TakeDemand
  <2> QED
    BY <1>1, <2>1, FenceStutter, ReconcileSends
<1>5. CASE Tick
  <2>1. /\ UNCHANGED <<fencedRunners, out, results>>
        /\ \A w \in Worker : at'[w] = "sending" => at[w] = "sending"
    BY <1>5, HandSends, ReconcileSends DEF Tick, Refresh
  <2> QED
    BY <1>1, <2>1, FenceStutter
<1>6. CASE TakeResult
  <2> DEFINE res == Head(results)
  <2> DEFINE op == res.op
  <2>1. /\ results # <<>> /\ results' = Tail(results) /\ UNCHANGED out
    BY <1>6 DEF TakeResult
  <2>2. res = results[1] /\ 1 \in DOMAIN results /\ res \in Result
    BY <2>1 DEF TypeOK
  <2>3. \A n \in DOMAIN results' : \E m \in DOMAIN results : results'[n] = results[m]
    <3>1. ASSUME NEW n \in DOMAIN results'
          PROVE  n + 1 \in DOMAIN results /\ results'[n] = results[n + 1]
      BY <2>1 DEF TypeOK
    <3> QED
      BY <3>1
  <2>4. op.kind = "fence" => op.runner \in Runner
    BY <2>2 DEF Result, Operation, Task
  <2>5. FenceTold(res)
    BY <2>2 DEF FenceInv
  <2> HIDE DEF res, op
  <2>6. \A w \in Worker : at'[w] = "sending" => at[w] = "sending"
    BY <1>6, ReconcileSends DEF TakeResult, apply, ApplySuccess, ApplyFailure,
                                 op, res
  <2>7. CASE ~(op \in operations /\ res.ok /\ op.kind = "fence")
    <3>1. fencedRunners' \subseteq fencedRunners
      BY <1>6, <2>7 DEF TakeResult, apply, ApplySuccess, ApplyFailure,
                        recordFailure, ApplyList, ApplyCreate,
                        ApplyDelete, op, res
    <3> QED
      BY <1>1, <2>1, <2>3, <2>6, <3>1, FenceStutter
  <2>8. CASE op \in operations /\ res.ok /\ op.kind = "fence"
    <3>1. fencedRunners' = fencedRunners \cup {op.runner}
      BY <1>6, <2>8 DEF TakeResult, apply, ApplySuccess, ApplyFence, op, res
    <3>2. gh[op.runner] = "none"
      BY <2>5, <2>8 DEF FenceTold, op
    <3>3. FencedUnregistered'
      BY <1>1, <3>1, <3>2 DEF FenceInv, FencedUnregistered
    <3>4. \A w \in Worker : at'[w] = "sending" => FenceTold(out[w])'
      BY <1>1, <2>1, <2>6 DEF FenceInv, FenceTold
    <3>5. \A n \in DOMAIN results' : FenceTold(results[n])'
      BY <1>1, <2>3 DEF FenceInv, FenceTold
    <3> QED
      BY <3>3, <3>4, <3>5 DEF FenceInv, FenceTold
  <2> QED
    BY <2>7, <2>8
<1> QED
  BY <1>2, <1>3, <1>4, <1>5, <1>6 DEF MainStep

\* A backend call that returns: what it says and what it did to the others.
LEMMA FenceAnswer ==
    ASSUME TypeOK, FenceInv, NEW w \in Worker, NEW ok \in BOOLEAN, NEW r, NEW inventory,
           Answer(w, ok, r, inventory),
           \A q \in fencedRunners : gh'[q] = "none",
           \A x \in Worker : at[x] = "sending" => StillTold(out[x]),
           \A n \in DOMAIN results : StillTold(results[n]),
           ok /\ item[w].kind = "fence" => r = item[w].runner /\ gh'[r] = "none"
    PROVE  FenceInv'
<1>1. /\ UNCHANGED <<fencedRunners, results>>
      /\ at' = [at EXCEPT ![w] = "sending"]
      /\ out' = [out EXCEPT ![w] = [op |-> item[w], ok |-> ok, runner |-> r,
                                    runners |-> inventory]]
  BY DEF Answer, WorkerFrame, stateVars
<1>2. FencedUnregistered'
  BY <1>1 DEF FencedUnregistered
<1>3. ASSUME NEW x \in Worker, at'[x] = "sending" PROVE FenceTold(out[x])'
  <2>1. CASE x = w
    <3>1. out'[x] = [op |-> item[w], ok |-> ok, runner |-> r, runners |-> inventory]
      BY <1>1, <2>1 DEF TypeOK
    <3> QED
      BY <3>1 DEF FenceTold
  <2>2. CASE x # w
    <3>1. out'[x] = out[x] /\ at[x] = "sending"
      BY <1>1, <1>3, <2>2 DEF TypeOK
    <3> QED
      BY <3>1 DEF FenceTold, StillTold
  <2> QED
    BY <2>1, <2>2
<1>4. \A n \in DOMAIN results' : FenceTold(results[n])'
  BY <1>1 DEF FenceTold, StillTold
<1> QED
  BY <1>2, <1>3, <1>4 DEF FenceInv

\* A worker that reports a fence has seen the registration go.
LEMMA FenceWorkerStep ==
    ASSUME TypeOK, FenceInv, NEW w \in Worker, WorkerStep(w) PROVE FenceInv'
<1>1. CASE WorkerExits(w)
  <2>1. UNCHANGED <<gh, fencedRunners, out, results>> /\ at' = [at EXCEPT ![w] = "off"]
    BY <1>1 DEF WorkerExits, WorkerFrame, stateVars
  <2> QED
    BY <2>1, FenceStutter DEF TypeOK
<1>2. CASE WorkerSends(w)
  <2>1. /\ UNCHANGED <<gh, fencedRunners>>
        /\ at[w] = "sending"
        /\ results' = Append(results, out[w])
        /\ out' = [out EXCEPT ![w] = NoResult]
        /\ at' = [at EXCEPT ![w] = "free"]
    BY <1>2 DEF WorkerSends, WorkerFrame, stateVars
  <2>2. \A x \in Worker : at'[x] = "sending" => at[x] = "sending" /\ out'[x] = out[x]
    BY <2>1 DEF TypeOK
  <2>3. ASSUME NEW n \in DOMAIN results'
        PROVE  \/ n \in DOMAIN results /\ results'[n] = results[n]
               \/ results'[n] = out[w]
    BY <2>1 DEF TypeOK
  <2> QED
    BY <2>1, <2>2, <2>3, FenceStutter
\* What is known of fenced runners stays true while nobody registers again.
<1> DEFINE Kept == /\ \A q \in fencedRunners : gh'[q] = "none"
                   /\ \A x \in Worker : at[x] = "sending" => StillTold(out[x])
                   /\ \A n \in DOMAIN results : StillTold(results[n])
<1>3. ASSUME \A q \in Runner : gh[q] = "none" => gh'[q] = "none" PROVE Kept
  <2>1. ASSUME NEW res \in Result, FenceTold(res) PROVE StillTold(res)
    BY <1>3, <2>1 DEF FenceTold, StillTold, Result, Operation, Task
  <2>2. \A n \in DOMAIN results : results[n] \in Result
    BY DEF TypeOK
  <2>3. \A n \in DOMAIN results : StillTold(results[n])
    BY <2>1, <2>2 DEF FenceInv
  <2>4. \A x \in Worker : at[x] = "sending" => StillTold(out[x])
    BY <2>1 DEF FenceInv, TypeOK
  <2>5. \A q \in fencedRunners : gh'[q] = "none"
    BY <1>3 DEF FenceInv, FencedUnregistered, TypeOK
  <2> QED
    BY <2>3, <2>4, <2>5
<1>4. CASE WorkerLists(w)
  <2>1. UNCHANGED gh /\ item[w].kind # "fence"
    BY <1>4 DEF WorkerLists, Executing
  <2>2. PICK ok \in BOOLEAN : \E inventory : Answer(w, ok, Nobody, inventory)
    BY <1>4 DEF WorkerLists
  <2> QED
    BY <1>3, <2>1, <2>2, FenceAnswer
<1>5. CASE WorkerCreates(w)
  <2>1. item[w].kind # "fence"
    BY <1>5 DEF WorkerCreates, Executing
  <2>2. ASSUME NEW r \in Runner, NEW ok \in BOOLEAN, FreshName(r),
               CreateOK(r) \/ CreateFails(r), Answer(w, ok, r, Nothing)
        PROVE  FenceInv'
    <3>1. \A q \in Runner \ {r} : gh'[q] = gh[q]
      BY <2>2, CreateRegisters DEF TypeOK
    <3>2. /\ r \notin fencedRunners
          /\ \A x \in Worker : at[x] = "sending" => out[x].runner # r
          /\ \A n \in DOMAIN results : results[n].runner # r
      BY <2>2 DEF FreshName
    <3>3. ASSUME NEW res \in Result, FenceTold(res), res.runner # r PROVE StillTold(res)
      BY <3>1, <3>3 DEF FenceTold, StillTold, Result, Operation, Task
    <3>4. \A n \in DOMAIN results : results[n] \in Result
      BY DEF TypeOK
    <3>5. \A n \in DOMAIN results : StillTold(results[n])
      BY <3>2, <3>3, <3>4 DEF FenceInv
    <3>6. \A x \in Worker : at[x] = "sending" => StillTold(out[x])
      BY <3>2, <3>3 DEF FenceInv, TypeOK
    <3>7. \A q \in fencedRunners : gh'[q] = "none"
      BY <3>1, <3>2 DEF FenceInv, FencedUnregistered, TypeOK
    <3> QED
      BY <2>1, <2>2, <3>5, <3>6, <3>7, FenceAnswer
  <2>3. ASSUME UNCHANGED <<vm, gh>>, Answer(w, FALSE, Nobody, Nothing) PROVE FenceInv'
    BY <1>3, <2>1, <2>3, FenceAnswer
  <2> QED
    BY <1>5, <2>2, <2>3 DEF WorkerCreates
<1>6. CASE WorkerFences(w)
  <2> DEFINE r == item[w].runner
  <2>1. r \in Runner
    BY <1>6 DEF WorkerFences, Executing, TypeOK, Operation, Task
  <2> HIDE DEF r
  <2>2. FenceOK(r) \/ FenceFails(r)
    BY <1>6 DEF WorkerFences, r
  <2>3. Kept
    BY <1>3, <2>1, <2>2, FleetRegisters DEF TypeOK
  <2>4. CASE FenceOK(r) /\ Answer(w, TRUE, r, Nothing)
    <3>1. gh'[r] = "none"
      BY <2>1, <2>4 DEF FenceOK, Set, TypeOK, FleetTypeOK
    <3> QED
      BY <2>3, <2>4, <3>1, FenceAnswer DEF r
  <2>5. CASE Answer(w, FALSE, r, Nothing)
    BY <2>3, <2>5, FenceAnswer
  <2> QED
    BY <1>6, <2>4, <2>5 DEF WorkerFences, r
<1>7. CASE WorkerDeletes(w)
  <2> DEFINE r == item[w].runner
  <2>1. r \in Runner /\ item[w].kind # "fence"
    BY <1>7 DEF WorkerDeletes, Executing, TypeOK, Operation, Task
  <2> HIDE DEF r
  <2>2. DeleteOK(r) \/ DeleteFails(r)
    BY <1>7 DEF WorkerDeletes, r
  <2>3. PICK ok \in BOOLEAN : Answer(w, ok, r, Nothing)
    BY <1>7 DEF WorkerDeletes, r
  <2>4. Kept
    BY <1>3, <2>1, <2>2, FleetRegisters DEF TypeOK
  <2> QED
    BY <2>1, <2>3, <2>4, FenceAnswer
<1> QED
  BY <1>1, <1>2, <1>4, <1>5, <1>6, <1>7 DEF WorkerStep

\* Every step of the system.
LEMMA FenceStep == TypeOK /\ FenceInv /\ [Next]_vars => FenceInv'
<1> SUFFICES ASSUME TypeOK, FenceInv, [Next]_vars PROVE FenceInv'
  OBVIOUS
<1>1. CASE MainStep
  BY <1>1, FenceMainStep
<1>2. ASSUME NEW w \in Worker, WorkerStep(w) PROVE FenceInv'
  BY <1>2, FenceWorkerStep
<1>3. ASSUME NEW k \in cooling, CooldownEnds(k) PROVE FenceInv'
  BY <1>3, FenceStutter DEF CooldownEnds, workVars
<1>4. CASE Restart
  BY <1>4, FenceStutter DEF Restart
<1>5. CASE OpenSession \/ Message
  BY <1>5, FenceStutter DEF OpenSession, Message, SessionFrame, stateVars, workVars
<1>6. CASE Environment
  <2>1. \A q \in Runner : gh[q] = "none" => gh'[q] = "none"
    BY <1>6, FleetRegisters DEF Environment, TypeOK
  <2> QED
    BY <1>6, <2>1, FenceStutter DEF Environment, stateVars, workVars
<1>7. CASE UNCHANGED vars
  BY <1>7, FenceStutter DEF vars, stateVars, workVars
<1> QED
  BY <1>1, <1>2, <1>3, <1>4, <1>5, <1>6, <1>7 DEF Next

(***************************************************************************)
(* A runner the reconciler leaves out of liveCapacity because it fenced it *)
(* has no GitHub registration left, however late the result was applied,   *)
(* for any number of runners, workers, sessions and restarts.              *)
(***************************************************************************)
THEOREM FencedStaysUnregistered == Spec => []FencedUnregistered
<1>1. Init => FenceInv
  BY DEF Init, FenceInv, FencedUnregistered
<1>2. FenceInv => FencedUnregistered
  BY DEF FenceInv
<1> QED
  BY <1>1, <1>2, TypeCorrect, FenceStep, PTL DEF Spec

-----------------------------------------------------------------------------
(* A clean stop *)

\* Run starts the workers after the first snapshot.
IdleBefore == pc = "inventory" => \A w \in Worker : at[w] = "off"

CleanInv == IdleBefore /\ CleanStop

\* A step of Run or of a worker keeps CleanInv; a worker that ended stays so.
LEMMA CleanStep == TypeOK /\ CleanInv /\ [Next]_vars => CleanInv'
<1> SUFFICES ASSUME TypeOK, CleanInv, [Next]_vars PROVE CleanInv'
  OBVIOUS
<1> USE DEF CleanInv, IdleBefore, CleanStop
<1>1. CASE InitialInventory \/ TakeDemand \/ Tick \/ TakeResult \/ StopWork \/ GraceExpires
  <2>1. pc' \in {"select", "drain", "cancel"}
    BY <1>1 DEF InitialInventory, TakeDemand, Tick, TakeResult, StopWork, GraceExpires,
                loopVars
  <2> QED
    BY <2>1
<1>2. CASE InvalidInventory \/ HardTimeout
  BY <1>2 DEF InvalidInventory, HardTimeout, Stop
<1>3. CASE InventoryCanceled \/ WorkersDone
  BY <1>3 DEF InventoryCanceled, WorkersDone, Stop, workVars
<1>4. ASSUME NEW w \in Worker, WorkerStep(w) PROVE CleanInv'
  <2>1. at[w] # "off"
    BY <1>4 DEF WorkerStep, WorkerExits, WorkerLists, WorkerCreates, WorkerFences,
                WorkerDeletes, WorkerSends, Executing
  <2>2. UNCHANGED <<pc, outcome>>
    BY <1>4 DEF WorkerStep, WorkerExits, WorkerLists, WorkerCreates, WorkerFences,
                WorkerDeletes, WorkerSends, Answer, WorkerFrame, loopVars
  <2> QED
    BY <2>1, <2>2
<1>5. ASSUME NEW k \in cooling, CooldownEnds(k) PROVE CleanInv'
  BY <1>5 DEF CooldownEnds, loopVars, workVars
<1>6. CASE Restart
  BY <1>6 DEF Restart
<1>7. CASE OpenSession \/ Message \/ Environment
  BY <1>7 DEF OpenSession, Message, Environment, SessionFrame, loopVars, workVars
<1>8. CASE UNCHANGED vars
  BY <1>8 DEF vars, loopVars, workVars
<1> QED
  BY <1>1, <1>2, <1>3, <1>4, <1>5, <1>6, <1>7, <1>8 DEF Next, MainStep

\* CleanInv is an invariant.
LEMMA CleanInvariant == Spec => []CleanInv
<1>1. Init => CleanInv
  BY DEF Init, CleanInv, IdleBefore, CleanStop
<1> QED
  BY <1>1, TypeCorrect, CleanStep, PTL DEF Spec

(***************************************************************************)
(* Run returns nil only when no worker is left inside a backend operation, *)
(* for any number of workers and whenever the context ends.                *)
(***************************************************************************)
THEOREM StopsClean == Spec => []CleanStop
<1>1. CleanInv => CleanStop
  BY DEF CleanInv
<1> QED
  BY <1>1, CleanInvariant, PTL

-----------------------------------------------------------------------------
(* Every operation is accounted for *)

(***************************************************************************)
(* OperationsAccounted counts the holders of an operation.  The form that  *)
(* is inductive names them: an operation carries the worker that took it,  *)
(* so no other worker can hold it, and what a worker holds is in no queued *)
(* result.  ops, flying, standing and queue stand for operations,          *)
(* runnerOps, at and results, also in the middle of a step, between        *)
(* apply's part of it and reconcile's.                                     *)
(***************************************************************************)
Accounted(ops, flying, standing, held, sent, queue) ==
    /\ \A w \in Worker :
         /\ standing[w] = "working" => held[w] \in ops /\ held[w].worker = w
         /\ standing[w] = "sending" => sent[w].op \in ops /\ sent[w].op.worker = w
    /\ \A n \in DOMAIN queue : queue[n].op \in ops
    /\ \A n, m \in DOMAIN queue : queue[n].op = queue[m].op => n = m
    /\ \A n \in DOMAIN queue, w \in Worker :
         /\ standing[w] = "working" => held[w] # queue[n].op
         /\ standing[w] = "sending" => sent[w].op # queue[n].op
    /\ \A o \in ops : \/ \E w \in Worker : standing[w] = "working" /\ held[w] = o
                      \/ \E w \in Worker : standing[w] = "sending" /\ sent[w].op = o
                      \/ \E n \in DOMAIN queue : queue[n].op = o
    /\ \A o, p \in ops : o.runner = p.runner /\ o.runner # Nobody => o = p
    /\ \A o \in ops : o.runner # Nobody => o.runner \in flying
    /\ \A r \in flying : r # Nobody /\ \E o \in ops : o.runner = r

\* A listing is the only operation in flight.
ListAlone(ops) == \A o, p \in ops : o.kind = "list" => p = o

AccountInv == /\ Accounted(operations, runnerOps, at, item, out, results)
              /\ ListAlone(operations)
              /\ pc = "inventory" => operations = {}

\* The answers of the backend that apply has not seen.
Answers == {out[w] : w \in {x \in Worker : at[x] = "sending"}}
             \cup {results[n] : n \in DOMAIN results}

\* The operation a worker is handed is a new one.
LEMMA NewOpFields ==
    ASSUME NEW w, NEW ops, NEW task, NEW gen, FreeSlots(w, ops) # {}
    PROVE  /\ NewOp(w, ops, task, gen).worker = w
           /\ NewOp(w, ops, task, gen).kind = task[1]
           /\ NewOp(w, ops, task, gen).runner = task[2]
           /\ NewOp(w, ops, task, gen).gen = gen
           /\ NewOp(w, ops, task, gen) \notin ops
<1> DEFINE s == CHOOSE z \in FreeSlots(w, ops) : TRUE
<1>1. s \in FreeSlots(w, ops)
  OBVIOUS
<1> HIDE DEF s
<1>2. ASSUME NEW k, NEW r, NEW o, o = [worker |-> w, slot |-> s, kind |-> k, runner |-> r,
                                       gen |-> gen]
      PROVE  o.worker = w /\ o.kind = k /\ o.runner = r /\ o.gen = gen /\ o \notin ops
  BY <1>1, <1>2 DEF FreeSlots
<1> QED
  BY <1>2 DEF NewOp, s

\* The tasks the workers of W take are about different runners, on which nothing
\* is in flight.
Apart(take, W, flying) ==
    /\ \A w \in W : take[w][2] \notin flying
    /\ \A w, x \in W : w # x /\ take[w][2] = take[x][2] => take[w][2] = Nobody

\* The operations in new are what the workers of W took.
Taken(take, W, new, gen) == \A o \in new : /\ \E w \in W : take[w] = <<o.kind, o.runner>>
                                          /\ o.gen \in {gen, 0}

\* What the workers take keeps every operation accounted for.
LEMMA HandAccounts ==
    ASSUME TypeOK,
           NEW ops \in SUBSET Operation,
           NEW flying \in SUBSET Runner,
           NEW gen \in 0..MaxGeneration,
           NEW W \in SUBSET Takers(ops),
           NEW take \in [W -> {NoTask} \cup Task],
           NEW queue \in Seq(Result),
           NEW standing, \A w \in Worker : standing[w] = Standing(w),
           Hand(ops, flying, take, gen),
           Accounted(ops, flying, standing, item, out, queue),
           Apart(take, W, flying)
    PROVE  /\ Accounted(operations', runnerOps', at', item', out, queue)
           /\ ops \subseteq operations'
           /\ Taken(take, W, operations' \ ops, gen)
           /\ \A w \in Worker : at'[w] = "sending" <=> standing[w] = "sending"
<1> DEFINE T == {w \in DOMAIN take : take[w] # NoTask}
<1> DEFINE made == [w \in T |-> NewOp(w, ops, take[w],
                                      IF take[w][1] = "create" THEN gen ELSE 0)]
<1>1. T \subseteq W /\ W \subseteq Worker
  BY DEF Takers
<1>2. ASSUME NEW w \in T
      PROVE  /\ made[w].worker = w /\ made[w].runner = take[w][2] /\ made[w] \notin ops
             /\ made[w].kind = take[w][1] /\ made[w].gen \in {gen, 0}
             /\ standing[w] = "free"
  <2>1. FreeSlots(w, ops) # {} /\ Standing(w) = "free" /\ w \in Worker
    BY <1>1 DEF Takers
  <2> DEFINE g == IF take[w][1] = "create" THEN gen ELSE 0
  <2>2. made[w] = NewOp(w, ops, take[w], g)
    OBVIOUS
  <2>3. g \in {gen, 0}
    OBVIOUS
  <2> HIDE DEF made, T, g
  <2>4. /\ made[w].worker = w /\ made[w].runner = take[w][2] /\ made[w] \notin ops
        /\ made[w].kind = take[w][1] /\ made[w].gen = g
    BY <2>1, <2>2, NewOpFields
  <2> QED
    BY <2>1, <2>3, <2>4
<1>3. /\ operations' = ops \cup {made[w] : w \in T}
      /\ runnerOps' = flying \cup ({take[w][2] : w \in T} \ {Nobody})
      /\ at' = [w \in Worker |-> IF w \in T THEN "working" ELSE Standing(w)]
      /\ item' = [w \in Worker |-> IF w \in T THEN made[w] ELSE item[w]]
  BY DEF Hand
<1>4. \A w \in T : take[w] \in Task /\ take[w] = <<take[w][1], take[w][2]>>
  BY DEF Task
<1>5. \A w \in T : take[w][2] \notin flying
  BY <1>1 DEF Apart
<1>6. \A w, x \in T : w # x /\ take[w][2] = take[x][2] => take[w][2] = Nobody
  BY <1>1 DEF Apart
<1> HIDE DEF T, made
<1>7. \A o : o \in operations' <=> o \in ops \/ \E w \in T : o = made[w]
  BY <1>3
<1>8. \A r : r \in runnerOps' <=>
        r \in flying \/ (r # Nobody /\ \E w \in T : r = made[w].runner)
  <2>1. runnerOps' = flying \cup ({take[w][2] : w \in T} \ {Nobody})
    BY <1>3
  <2>2. \A r : r \in runnerOps' <=>
        r \in flying \/ (r # Nobody /\ \E w \in T : r = take[w][2])
    BY <2>1, Zenon
  <2> QED
    BY <1>2, <2>2
<1>9. /\ \A w \in T : at'[w] = "working" /\ item'[w] = made[w]
      /\ \A w \in Worker \ T : at'[w] = standing[w] /\ item'[w] = item[w]
  BY <1>1, <1>3
<1>10. \A w \in T : /\ made[w].worker = w /\ made[w] \notin ops
                    /\ made[w].runner \notin flying /\ standing[w] = "free"
  BY <1>2, <1>5
<1>11. \A w, x \in T : w # x /\ made[w].runner = made[x].runner => made[w].runner = Nobody
  BY <1>2, <1>6
<1>12. T \in SUBSET Worker
  BY <1>1
<1>13. \A w \in Worker :
         /\ at'[w] = "working" => item'[w] \in operations' /\ item'[w].worker = w
         /\ at'[w] = "sending" => out[w].op \in operations' /\ out[w].op.worker = w
  BY <1>7, <1>8, <1>9, <1>10, <1>12 DEF Accounted
<1>14. \A n \in DOMAIN queue : queue[n].op \in operations'
  BY <1>7, <1>8, <1>9, <1>10, <1>12 DEF Accounted
<1>15. \A n, m \in DOMAIN queue : queue[n].op = queue[m].op => n = m
  BY <1>7, <1>8, <1>9, <1>10, <1>12 DEF Accounted
<1>16. \A n \in DOMAIN queue, w \in Worker :
         /\ at'[w] = "working" => item'[w] # queue[n].op
         /\ at'[w] = "sending" => out[w].op # queue[n].op
  BY <1>7, <1>8, <1>9, <1>10, <1>12 DEF Accounted
<1>17. ASSUME NEW o \in operations'
      PROVE  \/ \E w \in Worker : at'[w] = "working" /\ item'[w] = o
             \/ \E w \in Worker : at'[w] = "sending" /\ out[w].op = o
             \/ \E n \in DOMAIN queue : queue[n].op = o
  <2>1. CASE o \in ops
    <3>1. \A w \in Worker : standing[w] # "free" => at'[w] = standing[w] /\ item'[w] = item[w]
      BY <1>9, <1>10
    <3> QED
      BY <2>1, <3>1 DEF Accounted
  <2>2. CASE o \notin ops
    BY <1>7, <1>9, <1>12, <2>2
  <2> QED
    BY <2>1, <2>2
<1>18. \A o, p \in operations' : o.runner = p.runner /\ o.runner # Nobody => o = p
  <2> SUFFICES ASSUME NEW o \in operations', NEW p \in operations', o.runner = p.runner, o.runner # Nobody
               PROVE  o = p
    OBVIOUS
  <2>1. \A x \in ops : x.runner # Nobody => x.runner \in flying
    BY DEF Accounted
  <2>2. CASE o \in ops /\ p \in ops
    BY <2>2 DEF Accounted
  <2>3. CASE ~(o \in ops /\ p \in ops)
    BY <1>7, <1>10, <1>11, <2>1, <2>3
  <2> QED
    BY <2>2, <2>3
<1>19. \A o \in operations' : o.runner # Nobody => o.runner \in runnerOps'
  BY <1>7, <1>8, <1>9, <1>10, <1>12 DEF Accounted
<1>20. \A r \in runnerOps' : r # Nobody /\ \E o \in operations' : o.runner = r
  BY <1>7, <1>8 DEF Accounted
<1>21. Accounted(operations', runnerOps', at', item', out, queue)
  BY <1>13, <1>14, <1>15, <1>16, <1>17, <1>18, <1>19, <1>20 DEF Accounted
<1>22. ASSUME NEW o \in operations' \ ops
       PROVE  /\ \E w \in W : take[w] = <<o.kind, o.runner>>
              /\ o.gen \in {gen, 0}
  <2>1. PICK w \in T : o = made[w]
    BY <1>7
  <2>2. o.kind = take[w][1] /\ o.runner = take[w][2] /\ o.gen \in {gen, 0}
    BY <1>2, <2>1
  <2> QED
    BY <1>1, <1>4, <2>2
<1>23. \A w \in Worker : at'[w] = "sending" <=> standing[w] = "sending"
  BY <1>9, <1>10
<1> QED
  BY <1>7, <1>21, <1>22, <1>23 DEF Taken

\* reconcile hands out operations on runners nothing is done to, and on each one
\* at most once; a listing is never in their company.
LEMMA ReconcileAccounts ==
    ASSUME TypeOK,
           NEW ops \in SUBSET Operation,
           NEW flying \in SUBSET Runner,
           NEW queue \in Seq(Result),
           NEW standing, \A w \in Worker : standing[w] = Standing(w),
           generation' \in 0..MaxGeneration,
           reconcile(ops, flying),
           Accounted(ops, flying, standing, item, out, queue),
           ListAlone(ops)
    PROVE  /\ Accounted(operations', runnerOps', at', item', out, queue)
           /\ ListAlone(operations')
           /\ ops \subseteq operations'
           /\ \A w \in Worker : at'[w] = "sending" <=> standing[w] = "sending"
           /\ \A o \in operations' \ ops :
                /\ o.gen \in {generation', 0}
                /\ o.kind # "list"
                /\ o.runner # Nobody => runners'[o.runner] # "absent"
<1>1. CASE inventoryStale' \/ inventorying(ops)
  <2>1. /\ operations' = ops /\ runnerOps' = flying /\ item' = item
        /\ \A w \in Worker : at'[w] = standing[w]
    BY <1>1 DEF reconcile
  <2>2. Accounted(operations', runnerOps', at', item', out, queue)
    BY <2>1 DEF Accounted
  <2> QED
    BY <2>1, <2>2
<1>2. CASE ~(inventoryStale' \/ inventorying(ops))
  <2> DEFINE D == {r \in Runner \ flying : /\ runners'[r] = "terminal"
                                          /\ keyFor("delete", r) \notin cooling'}
  <2> DEFINE C == keyFor("create", Nobody) \notin cooling'
  <2> DEFINE L == liveCapacity(runners', flying, fencedRunners', ops)
  <2> DEFINE F == {r \in idleRunners(runners', busyRunners', created', generation',
                                     fencedRunners', flying) :
                     keyFor("fence", r) \notin cooling'}
  <2>1. PICK take \in Assignments(ops, D, C, Above(target', L), F, Above(L, target')) :
          Hand(ops, flying, take, generation')
    BY <1>2 DEF reconcile
  <2> DEFINE W == Takers(ops)
  <2>2. /\ take \in [W -> {NoTask} \cup {keyFor("delete", r) : r \in D}
                            \cup (IF C THEN {keyFor("create", Nobody)} ELSE {})
                            \cup {keyFor("fence", r) : r \in F}]
        /\ \A w, x \in W : w # x /\ take[w] = take[x] => take[w][2] = Nobody
    BY DEF Assignments
  <2>3. /\ \A r \in D : r \in Runner /\ r \notin flying /\ runners'[r] = "terminal"
        /\ \A r \in F : r \in Runner /\ r \notin flying /\ runners'[r] = "ready"
    BY DEF idleRunners
  <2> HIDE DEF D, C, L, F, W
  <2>4. ASSUME NEW w \in W
        PROVE  \/ take[w] = <<"none", Nobody>>
               \/ take[w] = <<"create", Nobody>>
               \/ \E r \in D : take[w] = <<"delete", r>>
               \/ \E r \in F : take[w] = <<"fence", r>>
    BY <2>2 DEF NoTask, keyFor
  <2>5. Nobody \notin flying
    BY RunnerAssumption
  <2>6. \A w \in W : take[w][2] \notin flying
    BY <2>3, <2>4, <2>5
  <2>7. \A w, x \in W : w # x /\ take[w][2] = take[x][2] => take[w][2] = Nobody
    <3> SUFFICES ASSUME NEW w \in W, NEW x \in W, w # x, take[w][2] = take[x][2],
                        take[w][2] # Nobody
                 PROVE  FALSE
      OBVIOUS
    <3>1. \/ \E r \in D : take[w] = <<"delete", r>> /\ take[w][2] = r
          \/ \E r \in F : take[w] = <<"fence", r>> /\ take[w][2] = r
      BY <2>4
    <3>2. \/ \E r \in D : take[x] = <<"delete", r>> /\ take[x][2] = r
          \/ \E r \in F : take[x] = <<"fence", r>> /\ take[x][2] = r
      BY <2>4
    <3>3. take[w] = take[x]
      BY <2>3, <3>1, <3>2
    <3> QED
      BY <2>2, <3>3
  <2>8. take \in [W -> {NoTask} \cup Task]
    <3>1. DOMAIN take = W /\ take = [w \in W |-> take[w]]
      BY <2>2
    <3>2. <<"create", Nobody>> \in Task /\ \A r \in Runner : /\ <<"delete", r>> \in Task
                                                            /\ <<"fence", r>> \in Task
      BY DEF Task
    <3>3. \A w \in W : take[w] \in {NoTask} \cup Task
      BY <2>3, <2>4, <3>2 DEF NoTask
    <3> QED
      BY <3>1, <3>3
  <2>9. W \in SUBSET Takers(ops)
    BY DEF W
  <2>10. /\ Accounted(operations', runnerOps', at', item', out, queue)
         /\ ops \subseteq operations'
         /\ Taken(take, W, operations' \ ops, generation')
         /\ \A w \in Worker : at'[w] = "sending" <=> standing[w] = "sending"
    <3>1. Apart(take, W, flying)
      BY <2>6, <2>7 DEF Apart
    <3> QED
      BY <2>1, <2>8, <2>9, <3>1, HandAccounts
  <2>11. \A o \in operations' \ ops : /\ o.kind # "list"
                                      /\ o.runner # Nobody => runners'[o.runner] # "absent"
    <3> SUFFICES ASSUME NEW o \in operations' \ ops
                 PROVE  o.kind # "list" /\ (o.runner # Nobody => runners'[o.runner] # "absent")
      OBVIOUS
    <3>1. PICK w \in W : take[w] = <<o.kind, o.runner>>
      BY <2>10 DEF Taken
    <3>2. \/ <<o.kind, o.runner>> = <<"none", Nobody>>
          \/ <<o.kind, o.runner>> = <<"create", Nobody>>
          \/ \E r \in D : <<o.kind, o.runner>> = <<"delete", r>>
          \/ \E r \in F : <<o.kind, o.runner>> = <<"fence", r>>
      BY <2>4, <3>1
    <3> QED
      BY <2>3, <3>2
  <2>12. ListAlone(operations')
    BY <1>2, <2>10, <2>11 DEF inventorying, ListAlone
  <2>13. \A o \in operations' \ ops : o.gen \in {generation', 0}
    BY <2>10 DEF Taken
  <2> QED
    BY <2>10, <2>11, <2>12, <2>13
<1> QED
  BY <1>1, <1>2

\* The result apply looks at belongs to a recorded operation, which only that
\* result stands for.
LEMMA ResultAccounted ==
    ASSUME TypeOK, AccountInv, results # <<>>
    PROVE  /\ Head(results) \in Answers
           /\ Head(results).op \in operations
           /\ Accounted(operations \ {Head(results).op}, runnerOps \ {Head(results).op.runner},
                        at, item, out, Tail(results))
           /\ ListAlone(operations \ {Head(results).op})
           /\ Head(results).op.kind = "list" => operations \ {Head(results).op} = {}
<1> DEFINE res == Head(results)
<1> DEFINE op == res.op
<1> DEFINE ops == operations \ {op}
<1> DEFINE flying == runnerOps \ {op.runner}
<1> DEFINE queue == Tail(results)
<1>1. res = results[1] /\ 1 \in DOMAIN results /\ res \in Result /\ queue \in Seq(Result)
  BY DEF TypeOK
<1>2. \A n \in DOMAIN queue : n + 1 \in DOMAIN results /\ n + 1 # 1 /\ queue[n] = results[n + 1]
  BY DEF TypeOK
<1>3. \A n \in DOMAIN results : n # 1 => n - 1 \in DOMAIN queue /\ queue[n - 1] = results[n]
  BY DEF TypeOK
<1>4. Accounted(operations, runnerOps, at, item, out, results) /\ ListAlone(operations)
  BY DEF AccountInv
<1>5. \A n \in DOMAIN queue : n \in Nat
  BY <1>1
<1> HIDE DEF queue, res
<1>6. op \in operations
  BY <1>1, <1>4 DEF Accounted
<1>7. \A w \in Worker :
        /\ at[w] = "working" => item[w] \in ops /\ item[w].worker = w
        /\ at[w] = "sending" => out[w].op \in ops /\ out[w].op.worker = w
  BY <1>1, <1>4 DEF Accounted
<1>8. \A n \in DOMAIN queue : queue[n].op \in ops
  BY <1>1, <1>2, <1>4 DEF Accounted
<1>9. \A n, m \in DOMAIN queue : queue[n].op = queue[m].op => n = m
  <2> SUFFICES ASSUME NEW n \in DOMAIN queue, NEW m \in DOMAIN queue,
                      queue[n].op = queue[m].op
               PROVE  n = m
    OBVIOUS
  <2>1. n + 1 = m + 1
    BY <1>2, <1>4 DEF Accounted
  <2> QED
    BY <1>5, <2>1
<1>10. \A n \in DOMAIN queue, w \in Worker :
         /\ at[w] = "working" => item[w] # queue[n].op
         /\ at[w] = "sending" => out[w].op # queue[n].op
  BY <1>2, <1>4 DEF Accounted
<1>11. \A o \in ops : \/ \E w \in Worker : at[w] = "working" /\ item[w] = o
                      \/ \E w \in Worker : at[w] = "sending" /\ out[w].op = o
                      \/ \E n \in DOMAIN queue : queue[n].op = o
  BY <1>1, <1>3, <1>4 DEF Accounted
<1>12. \A o, p \in ops : o.runner = p.runner /\ o.runner # Nobody => o = p
  BY <1>4 DEF Accounted
<1>13. \A o \in ops : o.runner # Nobody => o.runner \in flying
  BY <1>4, <1>6 DEF Accounted
<1>14. \A r \in flying : r # Nobody /\ \E o \in ops : o.runner = r
  BY <1>4 DEF Accounted
<1>15. Accounted(ops, flying, at, item, out, queue)
  BY <1>7, <1>8, <1>9, <1>10, <1>11, <1>12, <1>13, <1>14 DEF Accounted
<1>16. ListAlone(ops) /\ (op.kind = "list" => ops = {})
  BY <1>4, <1>6 DEF ListAlone
<1>17. res \in Answers
  BY <1>1 DEF Answers
<1> QED
  BY <1>6, <1>15, <1>16, <1>17 DEF res, queue

\* What a step that schedules adds to the operations in flight.
Handed(ops) ==
    /\ ops \subseteq operations'
    /\ \A o \in operations' \ ops : /\ o.gen \in {generation', 0}
                                    /\ o.kind = "list" => operations = {}
                                    /\ o.runner # Nobody => runners'[o.runner] # "absent"

\* The workers that are in their send stay there, and nobody joins them.
SameSends == /\ UNCHANGED out
             /\ \A w \in Worker : at'[w] = "sending" <=> at[w] = "sending"

\* A step of Run that takes no result.
LEMMA ScheduleAccounts ==
    ASSUME TypeOK, AccountInv, pc \in {"inventory", "select"}, pc' = "select",
           UNCHANGED <<out, results>>, generation' \in 0..MaxGeneration,
           reconcile(operations, runnerOps)
    PROVE  AccountInv' /\ Handed(operations) /\ SameSends
<1> DEFINE standing == [w \in Worker |-> Standing(w)]
<1>1. \A w \in Worker : standing[w] = Standing(w)
  OBVIOUS
<1> HIDE DEF standing
<1>2. /\ Accounted(operations, runnerOps, at, item, out, results)
      /\ ListAlone(operations)
      /\ pc = "inventory" => operations = {}
  BY DEF AccountInv
<1>3. /\ Accounted(operations, runnerOps, standing, item, out, results)
      /\ \A w \in Worker : standing[w] = "sending" <=> at[w] = "sending"
  <2>1. CASE pc = "select"
    <3>1. \A w \in Worker : standing[w] = at[w]
      BY <1>1, <2>1 DEF Standing
    <3> QED
      BY <1>2, <3>1 DEF Accounted
  <2>2. CASE pc = "inventory"
    <3>1. operations = {} /\ \A w \in Worker : standing[w] = "free"
      BY <1>1, <1>2, <2>2 DEF Standing
    <3>2. \A w \in Worker : at[w] # "working" /\ at[w] # "sending"
      BY <1>2, <3>1 DEF Accounted
    <3> QED
      BY <1>2, <3>1, <3>2 DEF Accounted
  <2> QED
    BY <2>1, <2>2
<1>4. operations \in SUBSET Operation /\ runnerOps \in SUBSET Runner /\ results \in Seq(Result)
  BY DEF TypeOK
<1>5. /\ Accounted(operations', runnerOps', at', item', out, results)
      /\ ListAlone(operations')
      /\ operations \subseteq operations'
      /\ \A w \in Worker : at'[w] = "sending" <=> standing[w] = "sending"
      /\ \A o \in operations' \ operations :
           /\ o.gen \in {generation', 0}
           /\ o.kind # "list"
           /\ o.runner # Nobody => runners'[o.runner] # "absent"
  BY <1>1, <1>2, <1>3, <1>4, ReconcileAccounts
<1> QED
  BY <1>3, <1>5 DEF AccountInv, Handed, SameSends

\* The listing refresh asks for is the only operation.
LEMMA RefreshAccounts ==
    ASSUME TypeOK, AccountInv, NEW w \in Worker, pc = "select",
           UNCHANGED <<pc, out, results>>, Refresh(w)
    PROVE  AccountInv' /\ Handed(operations) /\ SameSends
<1> DEFINE none == {}
<1> DEFINE W == {w}
<1> DEFINE take == [x \in {w} |-> keyFor("list", Nobody)]
<1>1. /\ operations = none /\ W \in SUBSET Takers(none) /\ Hand(none, runnerOps, take, 0)
  BY DEF Refresh
<1>2. Accounted(none, runnerOps, at, item, out, results)
  BY <1>1 DEF AccountInv
<1>3. runnerOps = {}
  BY <1>2 DEF Accounted
<1>4. take \in [W -> {NoTask} \cup Task] /\ take[w] = <<"list", Nobody>>
  BY DEF keyFor, Task
<1> HIDE DEF take, none, W
<1>5. Apart(take, W, runnerOps)
  BY <1>3 DEF Apart, W
<1>6. \A x \in Worker : at[x] = Standing(x)
  BY DEF Standing
<1>7. none \in SUBSET Operation /\ runnerOps \in SUBSET Runner /\ results \in Seq(Result)
  BY DEF TypeOK, none
<1>8. /\ Accounted(operations', runnerOps', at', item', out, results)
      /\ Taken(take, W, operations' \ none, 0)
      /\ \A x \in Worker : at'[x] = "sending" <=> at[x] = "sending"
  BY <1>1, <1>2, <1>4, <1>5, <1>6, <1>7, GenerationZero, HandAccounts
<1>9. \A o \in operations' : o.kind = "list" /\ o.runner = Nobody /\ o.gen = 0
  BY <1>4, <1>8 DEF Taken, none, W
<1>10. \A o, p \in operations' : o = p
  <2>1. operations' = {NewOp(x, {}, take[x], IF take[x][1] = "create" THEN 0 ELSE 0) :
                         x \in {y \in DOMAIN take : take[y] # NoTask}}
    BY <1>1 DEF Hand, none
  <2>2. DOMAIN take = {w}
    BY <1>4 DEF W
  <2> QED
    BY <2>1, <2>2
<1> QED
  BY <1>1, <1>8, <1>9, <1>10 DEF AccountInv, Handed, SameSends, ListAlone, none

\* A step of Run that takes the oldest result.
LEMMA TakeAccounts ==
    ASSUME TypeOK, AccountInv, TakeResult
    PROVE  /\ AccountInv'
           /\ Head(results) \in Answers /\ Head(results).op \in operations
           /\ Handed(operations \ {Head(results).op})
           /\ SameSends
<1> DEFINE op == Head(results).op
<1> DEFINE ops == operations \ {op}
<1> DEFINE flying == runnerOps \ {op.runner}
<1>1. /\ pc = "select" /\ pc' = "select" /\ results # <<>> /\ results' = Tail(results)
      /\ UNCHANGED <<out, generation>>
  BY DEF TakeResult, loopVars
<1>2. /\ Head(results) \in Answers
      /\ op \in operations
      /\ Accounted(ops, flying, at, item, out, results')
      /\ ListAlone(ops)
  BY <1>1, ResultAccounted
<1>3. ops \in SUBSET Operation /\ flying \in SUBSET Runner /\ results' \in Seq(Result)
  BY <1>1 DEF TypeOK
<1>4. generation' \in 0..MaxGeneration
  BY <1>1 DEF TypeOK
<1>5. \A w \in Worker : at[w] = Standing(w)
  BY <1>1 DEF Standing
<1>6. apply(op, Head(results))
  BY <1>2 DEF TakeResult
<1> HIDE DEF ops, flying, op
<1>7. CASE ApplySuccess(op, Head(results))
  <2>1. reconcile(ops, flying)
    BY <1>7 DEF ApplySuccess, ops, flying
  <2>2. /\ Accounted(operations', runnerOps', at', item', out, results')
        /\ ListAlone(operations')
        /\ ops \subseteq operations'
        /\ \A w \in Worker : at'[w] = "sending" <=> at[w] = "sending"
        /\ \A o \in operations' \ ops :
             /\ o.gen \in {generation', 0}
             /\ o.kind # "list"
             /\ o.runner # Nobody => runners'[o.runner] # "absent"
    BY <1>2, <1>3, <1>4, <1>5, <2>1, ReconcileAccounts
  <2> QED
    BY <1>1, <1>2, <2>2 DEF AccountInv, Handed, SameSends, ops, op
<1>8. CASE ApplyFailure(op)
  <2>1. operations' = ops /\ runnerOps' = flying /\ UNCHANGED <<at, item>>
    BY <1>8 DEF ApplyFailure, ops, flying
  <2> QED
    BY <1>1, <1>2, <2>1 DEF AccountInv, Handed, SameSends, ops, op
<1> QED
  BY <1>6, <1>7, <1>8 DEF apply

\* A worker that has finished, or hands its result to the channel.
LEMMA WorkerAccounts ==
    ASSUME TypeOK, AccountInv, NEW w \in Worker, WorkerExits(w) \/ WorkerSends(w)
    PROVE  AccountInv' /\ Answers' = Answers
<1>1. /\ Accounted(operations, runnerOps, at, item, out, results)
      /\ ListAlone(operations) /\ (pc = "inventory" => operations = {})
      /\ UNCHANGED <<operations, runnerOps, item, pc>>
  BY DEF AccountInv, WorkerExits, WorkerSends, WorkerFrame, stateVars, loopVars
<1>2. CASE WorkerExits(w)
  <2>1. /\ at[w] = "free" /\ UNCHANGED <<out, results>>
        /\ at' = [at EXCEPT ![w] = "off"]
    BY <1>2 DEF WorkerExits
  <2>2. \A x \in Worker : /\ at'[x] = "working" <=> at[x] = "working"
                          /\ at'[x] = "sending" <=> at[x] = "sending"
    BY <2>1 DEF TypeOK
  <2>3. Accounted(operations, runnerOps, at', item, out, results)
    BY <1>1, <2>2 DEF Accounted
  <2> QED
    BY <1>1, <2>1, <2>2, <2>3 DEF AccountInv, Answers
<1>3. CASE WorkerSends(w)
  <2>1. /\ at[w] = "sending"
        /\ results' = Append(results, out[w])
        /\ out' = [out EXCEPT ![w] = NoResult]
        /\ at' = [at EXCEPT ![w] = "free"]
    BY <1>3 DEF WorkerSends
  <2> DEFINE last == Len(results) + 1
  <2>2. /\ \A x \in Worker : /\ at'[x] = "working" <=> at[x] = "working"
                             /\ at'[x] = "sending" <=> at[x] = "sending" /\ x # w
                             /\ x # w => out'[x] = out[x]
    BY <2>1 DEF TypeOK
  <2>3. /\ last \notin DOMAIN results /\ results'[last] = out[w]
        /\ \A n : n \in DOMAIN results' <=> n \in DOMAIN results \/ n = last
        /\ \A n \in DOMAIN results : results'[n] = results[n]
    <3>1. out[w] \in Result /\ results \in Seq(Result)
      BY <2>1 DEF TypeOK
    <3> QED
      BY <2>1, <3>1
  <2> HIDE DEF last
  <2>4. \A x \in Worker :
          /\ at'[x] = "working" => item[x] \in operations /\ item[x].worker = x
          /\ at'[x] = "sending" => out'[x].op \in operations /\ out'[x].op.worker = x
    BY <1>1, <2>2 DEF Accounted
  <2>5. \A n \in DOMAIN results' : results'[n].op \in operations
    BY <1>1, <2>1, <2>3 DEF Accounted
  <2>6. \A n, m \in DOMAIN results' : results'[n].op = results'[m].op => n = m
    BY <1>1, <2>1, <2>3 DEF Accounted
  <2>7. \A n \in DOMAIN results', x \in Worker :
          /\ at'[x] = "working" => item[x] # results'[n].op
          /\ at'[x] = "sending" => out'[x].op # results'[n].op
    <3> SUFFICES ASSUME NEW n \in DOMAIN results', NEW x \in Worker
                 PROVE  /\ at'[x] = "working" => item[x] # results'[n].op
                        /\ at'[x] = "sending" => out'[x].op # results'[n].op
      OBVIOUS
    <3>1. CASE n \in DOMAIN results
      BY <1>1, <2>2, <2>3, <3>1 DEF Accounted
    <3>2. CASE n = last
      <4>1. results'[n].op.worker = w
        BY <1>1, <2>1, <2>3, <3>2 DEF Accounted
      <4>2. at[w] # "working" /\ x = w => at'[x] # "sending" /\ at'[x] # "working"
        BY <2>2
      <4> QED
        BY <1>1, <2>1, <2>2, <2>4, <4>1, <4>2
    <3> QED
      BY <2>3, <3>1, <3>2
  <2>8. \A o \in operations : \/ \E x \in Worker : at'[x] = "working" /\ item[x] = o
                              \/ \E x \in Worker : at'[x] = "sending" /\ out'[x].op = o
                              \/ \E n \in DOMAIN results' : results'[n].op = o
    BY <1>1, <2>1, <2>2, <2>3 DEF Accounted
  <2>9. Accounted(operations, runnerOps, at', item, out', results')
    BY <1>1, <2>4, <2>5, <2>6, <2>7, <2>8 DEF Accounted
  <2>10. Answers' = Answers
    <3>1. ASSUME NEW a \in Answers' PROVE a \in Answers
      BY <2>1, <2>2, <2>3, <3>1 DEF Answers
    <3>2. ASSUME NEW a \in Answers PROVE a \in Answers'
      BY <2>1, <2>2, <2>3, <3>2 DEF Answers
    <3> QED
      BY <3>1, <3>2
  <2> QED
    BY <1>1, <2>9, <2>10 DEF AccountInv
<1> QED
  BY <1>2, <1>3

\* A backend call returns: the worker keeps its operation, now with an answer.
LEMMA AnswerAccounts ==
    ASSUME TypeOK, AccountInv, NEW w \in Worker, NEW ok, NEW r, NEW inventory,
           at[w] = "working", Answer(w, ok, r, inventory)
    PROVE  /\ AccountInv'
           /\ Answers' = Answers \cup {[op |-> item[w], ok |-> ok, runner |-> r,
                                        runners |-> inventory]}
           /\ item[w] \in operations
           /\ \A a \in Answers : a.op # item[w]
<1> DEFINE answer == [op |-> item[w], ok |-> ok, runner |-> r, runners |-> inventory]
<1>1. /\ Accounted(operations, runnerOps, at, item, out, results)
      /\ ListAlone(operations) /\ (pc = "inventory" => operations = {})
      /\ UNCHANGED <<operations, runnerOps, results, pc>>
  BY DEF AccountInv, Answer, WorkerFrame, stateVars, loopVars
<1>2. /\ at' = [at EXCEPT ![w] = "sending"]
      /\ item' = [item EXCEPT ![w] = NoOp]
      /\ out' = [out EXCEPT ![w] = answer]
  BY DEF Answer
<1>3. answer.op = item[w]
  OBVIOUS
<1> HIDE DEF answer
<1>4. /\ at'[w] = "sending" /\ out'[w] = answer
      /\ \A x \in Worker \ {w} : at'[x] = at[x] /\ item'[x] = item[x] /\ out'[x] = out[x]
  BY <1>2 DEF TypeOK
<1>5. \A x \in Worker :
        /\ at'[x] = "working" => item'[x] \in operations /\ item'[x].worker = x
        /\ at'[x] = "sending" => out'[x].op \in operations /\ out'[x].op.worker = x
  BY <1>1, <1>3, <1>4 DEF Accounted
<1>6. \A n \in DOMAIN results, x \in Worker :
        /\ at'[x] = "working" => item'[x] # results[n].op
        /\ at'[x] = "sending" => out'[x].op # results[n].op
  BY <1>1, <1>3, <1>4 DEF Accounted
<1>7. \A o \in operations : \/ \E x \in Worker : at'[x] = "working" /\ item'[x] = o
                            \/ \E x \in Worker : at'[x] = "sending" /\ out'[x].op = o
                            \/ \E n \in DOMAIN results : results[n].op = o
  BY <1>1, <1>3, <1>4 DEF Accounted
<1>8. Accounted(operations, runnerOps, at', item', out', results)
  BY <1>1, <1>5, <1>6, <1>7 DEF Accounted
<1>9. Answers' = Answers \cup {answer}
  <2>1. ASSUME NEW a \in Answers' PROVE a \in Answers \cup {answer}
    BY <1>1, <1>4, <2>1 DEF Answers
  <2>2. ASSUME NEW a \in Answers \cup {answer} PROVE a \in Answers'
    BY <1>1, <1>4, <2>2 DEF Answers
  <2> QED
    BY <2>1, <2>2
<1>10. item[w] \in operations /\ \A a \in Answers : a.op # item[w]
  BY <1>1 DEF Accounted, Answers
<1> QED
  BY <1>1, <1>8, <1>9, <1>10 DEF AccountInv, answer

\* The answers left once the oldest result has been taken.
LEMMA TakeAnswers ==
    ASSUME TypeOK, AccountInv, TakeResult
    PROVE  /\ Answers' \subseteq Answers
           /\ Answers \subseteq Answers' \cup {Head(results)}
           /\ \A a \in Answers' : a.op # Head(results).op
<1>1. /\ results # <<>> /\ results' = Tail(results) /\ SameSends
  BY TakeAccounts DEF TakeResult
<1>2. \A n \in DOMAIN results' : /\ n + 1 \in DOMAIN results /\ n + 1 # 1
                                 /\ results'[n] = results[n + 1]
  BY <1>1 DEF TypeOK
<1>3. Head(results) = results[1] /\ 1 \in DOMAIN results
  BY <1>1 DEF TypeOK
<1>4. Answers' \subseteq Answers
  BY <1>1, <1>2 DEF Answers, SameSends
<1>5. \A a \in Answers' : a.op # Head(results).op
  BY <1>1, <1>2, <1>3 DEF Answers, SameSends, AccountInv, Accounted
<1>6. \A n \in DOMAIN results : n # 1 => /\ n - 1 \in DOMAIN results'
                                         /\ results'[n - 1] = results[n]
  BY <1>1 DEF TypeOK
<1>7. ASSUME NEW a \in Answers, a # Head(results) PROVE a \in Answers'
  <2>1. CASE \E w \in Worker : at[w] = "sending" /\ a = out[w]
    <3>1. PICK w \in Worker : at'[w] = "sending" /\ a = out'[w]
      BY <1>1, <2>1 DEF SameSends
    <3> QED
      BY <3>1 DEF Answers
  <2>2. CASE \E n \in DOMAIN results : a = results[n]
    <3>1. PICK n \in DOMAIN results : a = results[n]
      BY <2>2
    <3>2. n - 1 \in DOMAIN results' /\ a = results'[n - 1]
      BY <1>3, <1>6, <1>7, <3>1
    <3> QED
      BY <3>2 DEF Answers
  <2> QED
    BY <2>1, <2>2 DEF Answers
<1> QED
  BY <1>4, <1>5, <1>7

\* The steps of Run after which no reconcile follows and nothing is taken.
QuietMain == InvalidInventory \/ InventoryCanceled \/ WorkersDone \/ HardTimeout
               \/ StopWork \/ GraceExpires

\* Steps of the loop that take no result and hand out no operation.
LEMMA QuietAccounts ==
    ASSUME TypeOK, AccountInv, QuietMain
    PROVE  /\ AccountInv' /\ Answers' = Answers
           /\ pc' \in {"drain", "cancel", "stopped"}
           /\ UNCHANGED <<vm, gh, stateVars, demandVars, told, toldAt>>
<1>1. /\ UNCHANGED <<vm, gh, stateVars, workVars, demandVars, told, toldAt>>
      /\ pc' \in {"drain", "cancel", "stopped"}
  BY DEF QuietMain, InvalidInventory, InventoryCanceled, WorkersDone, HardTimeout,
         StopWork, GraceExpires, Stop, ghostVars
<1> QED
  BY <1>1 DEF AccountInv, Answers, stateVars, workVars

\* The steps of Run that schedule work and take no result.
Scheduling == InitialInventory \/ TakeDemand \/ Tick

\* Steps of the loop that hand out operations.
LEMMA SchedulingAccounts ==
    ASSUME TypeOK, AccountInv, Scheduling
    PROVE  AccountInv' /\ Handed(operations) /\ Answers' = Answers
<1>1. /\ pc \in {"inventory", "select"} /\ pc' = "select" /\ UNCHANGED <<out, results>>
      /\ Tick => pc = "select"
  BY DEF Scheduling, InitialInventory, TakeDemand, Tick, loopVars
<1>2. generation' \in 0..MaxGeneration
  BY MainStepType DEF Scheduling, MainStep, TypeOK
<1>3. \/ reconcile(operations, runnerOps)
      \/ Tick /\ \E w \in Worker : Refresh(w)
  BY DEF Scheduling, InitialInventory, TakeDemand, Tick
<1>4. AccountInv' /\ Handed(operations) /\ SameSends
  BY <1>1, <1>2, <1>3, ScheduleAccounts, RefreshAccounts
<1>5. Answers' = Answers
  BY <1>1, <1>4 DEF Answers, SameSends
<1> QED
  BY <1>4, <1>5

\* A worker's step: it makes an answer out of what it works on, or hands it on.
LEMMA WorkerAnswers ==
    ASSUME TypeOK, NEW w \in Worker, WorkerStep(w)
    PROVE  \/ WorkerExits(w) \/ WorkerSends(w)
           \/ /\ at[w] = "working"
              /\ \E ok \in BOOLEAN : \E r, inventory : Answer(w, ok, r, inventory)
<1>1. CASE WorkerLists(w)
  BY <1>1 DEF WorkerLists, Executing
<1>2. CASE WorkerCreates(w)
  BY <1>2 DEF WorkerCreates, Executing
<1>3. CASE WorkerFences(w)
  BY <1>3 DEF WorkerFences, Executing
<1>4. CASE WorkerDeletes(w)
  BY <1>4 DEF WorkerDeletes, Executing
<1> QED
  BY <1>1, <1>2, <1>3, <1>4 DEF WorkerStep

\* AccountInv is inductive.
LEMMA AccountStep == TypeOK /\ AccountInv /\ [Next]_vars => AccountInv'
<1> SUFFICES ASSUME TypeOK, AccountInv, [Next]_vars PROVE AccountInv'
  OBVIOUS
<1>1. CASE QuietMain
  BY <1>1, QuietAccounts
<1>2. CASE Scheduling
  BY <1>2, SchedulingAccounts
<1>3. CASE TakeResult
  BY <1>3, TakeAccounts
<1>4. ASSUME NEW w \in Worker, WorkerStep(w) PROVE AccountInv'
  BY <1>4, WorkerAnswers, WorkerAccounts, AnswerAccounts
<1>5. ASSUME NEW k \in cooling, CooldownEnds(k) PROVE AccountInv'
  BY <1>5 DEF CooldownEnds, AccountInv, workVars, loopVars
<1>6. CASE Restart
  BY <1>6 DEF Restart, AccountInv, Accounted, ListAlone
<1>7. CASE OpenSession \/ Message \/ Environment
  BY <1>7 DEF OpenSession, Message, Environment, SessionFrame, AccountInv, stateVars,
              workVars, loopVars
<1>8. CASE UNCHANGED vars
  BY <1>8 DEF vars, AccountInv, stateVars, workVars, loopVars
<1> QED
  BY <1>1, <1>2, <1>3, <1>4, <1>5, <1>6, <1>7, <1>8
     DEF Next, MainStep, QuietMain, Scheduling

\* AccountInv is an invariant.
LEMMA AccountInvariant == Spec => []AccountInv
<1>1. Init => AccountInv
  BY DEF Init, AccountInv, Accounted, ListAlone
<1> QED
  BY <1>1, TypeCorrect, AccountStep, PTL DEF Spec

(***************************************************************************)
(* No operation is lost or answered twice: each one the reconciler has     *)
(* recorded is with exactly one worker or is exactly one buffered result,  *)
(* a runner is the subject of at most one, and runnerOps names the runners *)
(* that have one, whatever fails and however many workers there are.       *)
(***************************************************************************)
THEOREM AllAccounted == Spec => []OperationsAccounted
<1>1. ASSUME TypeOK, AccountInv PROVE OperationsAccounted
  <2>1. Accounted(operations, runnerOps, at, item, out, results)
    BY <1>1 DEF AccountInv
  <2>2. ASSUME NEW o \in operations
        PROVE  Cardinality(HeldBy(o)) + Cardinality(QueuedAs(o)) = 1
    <3>1. CASE \E n \in DOMAIN results : results[n].op = o
      <4>1. PICK n \in DOMAIN results : results[n].op = o
        BY <3>1
      <4>2. HeldBy(o) = {} /\ QueuedAs(o) = {n}
        BY <2>1, <4>1 DEF Accounted, HeldBy, QueuedAs
      <4> QED
        BY <4>2, FS_EmptySet, FS_Singleton
    <3>2. CASE ~\E n \in DOMAIN results : results[n].op = o
      <4>1. QueuedAs(o) = {}
        BY <3>2 DEF QueuedAs
      <4>2. PICK w \in Worker : \/ at[w] = "working" /\ item[w] = o
                                \/ at[w] = "sending" /\ out[w].op = o
        BY <2>1, <3>2 DEF Accounted
      <4>3. HeldBy(o) = {w}
        BY <2>1, <4>2 DEF Accounted, HeldBy
      <4> QED
        BY <4>1, <4>3, FS_EmptySet, FS_Singleton
    <3> QED
      BY <3>1, <3>2
  <2>3. runnerOps = {o.runner : o \in operations} \ {Nobody}
    <3>1. /\ \A o \in operations : o.runner # Nobody => o.runner \in runnerOps
          /\ \A r \in runnerOps : r # Nobody /\ \E o \in operations : o.runner = r
      BY <2>1 DEF Accounted
    <3> QED
      BY <3>1
  <2> QED
    BY <2>1, <2>2, <2>3 DEF Accounted, OperationsAccounted
<1> QED
  BY <1>1, TypeCorrect, AccountInvariant, PTL

-----------------------------------------------------------------------------
(* What a create produces is unknown until apply sees it *)

(***************************************************************************)
(* A runner that comes out of a create is unknown until the answer is      *)
(* applied: no snapshot, operation or other answer speaks of it.           *)
(***************************************************************************)
NewInv ==
    /\ \A a \in Answers :
         a.op.kind = "create" /\ a.runner # Nobody =>
           /\ runners[a.runner] = "absent"
           /\ \A o \in operations : o.runner # a.runner
    /\ \A a, b \in Answers :
         a.op.kind = "create" /\ b.op.kind = "create" /\ a.runner = b.runner
           /\ a.runner # Nobody => a = b
    /\ \A a \in Answers : a.op.kind = "create" /\ a.ok => a.runner # Nobody

\* A runner nobody remembers is in no answer, and no operation is about it.
LEMMA FreshAnswers ==
    ASSUME TypeOK, NEW r \in Runner, FreshName(r)
    PROVE  /\ \A a \in Answers : a.runner # r /\ a.runners[r] = "absent"
           /\ \A o \in operations : o.runner # r
           /\ runners[r] = "absent" /\ vm[r] = "absent" /\ gh[r] = "none"
           /\ created[r] = -1
  BY DEF FreshName, Answers

\* Every answer belongs to an operation, and is well typed.
LEMMA AnswerType ==
    ASSUME TypeOK, AccountInv, NEW a \in Answers
    PROVE  a \in Result /\ a.op \in operations /\ a.op \in Operation
<1>1. \A n \in DOMAIN results : results[n] \in Result
  BY DEF TypeOK
<1>2. a \in Result
  BY <1>1 DEF Answers, TypeOK
<1>3. a.op \in operations
  BY DEF Answers, AccountInv, Accounted
<1> QED
  BY <1>2, <1>3 DEF TypeOK

\* What the reconciler knows changes with a result, a snapshot or a restart only.
LEMMA NewStutter ==
    ASSUME TypeOK, AccountInv, NewInv,
           Answers' \subseteq Answers,
           \A a \in Answers' : a.op.kind = "create" /\ a.runner # Nobody =>
             runners'[a.runner] = "absent",
           \A o \in operations' \ operations :
             o.runner # Nobody => runners'[o.runner] # "absent"
    PROVE  NewInv'
<1>1. ASSUME NEW a \in Answers', a.op.kind = "create", a.runner # Nobody,
             NEW o \in operations'
      PROVE  o.runner # a.runner
  <2>1. CASE o \in operations
    BY <1>1, <2>1 DEF NewInv
  <2>2. CASE o \notin operations
    BY <1>1, <2>2
  <2> QED
    BY <2>1, <2>2
<1>2. \A a, b \in Answers' :
        a.op.kind = "create" /\ b.op.kind = "create" /\ a.runner = b.runner
          /\ a.runner # Nobody => a = b
  BY DEF NewInv
<1>3. \A a \in Answers' : a.op.kind = "create" /\ a.ok => a.runner # Nobody
  BY DEF NewInv
<1> QED
  BY <1>1, <1>2, <1>3 DEF NewInv

\* What taking a result does to the set of known runners.
LEMMA TakeKnows ==
    ASSUME TypeOK, AccountInv, NewInv, TakeResult,
           NEW res, res = Head(results)
    PROVE  /\ res \in Answers /\ res \in Result /\ res.op \in operations
           /\ UNCHANGED <<vm, gh, pc>>
           /\ \/ /\ ~res.ok /\ inventoryStale' = TRUE
                 /\ UNCHANGED <<runners, created, busyRunners, fencedRunners>>
              \/ /\ res.ok /\ res.op.kind = "list" /\ runners' = res.runners
                 /\ Answers' = {}
                 /\ \A r \in Runner : created'[r] \in {created[r], -1}
                 /\ UNCHANGED busyRunners
              \/ /\ res.ok /\ res.op.kind = "create" /\ res.runner \in Runner
                 /\ runners' = [runners EXCEPT ![res.runner] = "provisioning"]
                 /\ created' = [created EXCEPT ![res.runner] = res.op.gen]
                 /\ UNCHANGED <<busyRunners, inventoryStale>>
              \/ /\ res.ok /\ res.op.kind = "fence"
                 /\ UNCHANGED <<runners, created, busyRunners, inventoryStale>>
              \/ /\ res.ok /\ res.op.kind = "delete" /\ res.op.runner \in Runner
                 /\ runners' = [runners EXCEPT ![res.op.runner] = "absent"]
                 /\ created' = [created EXCEPT ![res.op.runner] = -1]
                 /\ busyRunners' = busyRunners \ {res.op.runner}
                 /\ UNCHANGED inventoryStale
<1>1. /\ res \in Answers /\ res.op \in operations
  BY TakeAccounts
<1>2. res \in Result /\ res.op \in Operation
  BY <1>1, AnswerType
<1>3. apply(res.op, res) /\ UNCHANGED <<vm, gh, pc>>
  BY <1>1 DEF TakeResult, loopVars
<1>4. CASE ~res.ok
  BY <1>1, <1>2, <1>3, <1>4 DEF apply, ApplyFailure, recordFailure
<1>5. ASSUME res.ok, res.op.kind = "list", ApplyList(res.runners)
      PROVE  /\ Answers' = {} /\ runners' = res.runners /\ UNCHANGED busyRunners
             /\ \A r \in Runner : created'[r] \in {created[r], -1}
  <2>1. results # <<>>
    BY DEF TakeResult
  <2>2. operations \ {res.op} = {}
    BY <1>5, <2>1, ResultAccounted
  <2>3. Answers' = {}
    BY <2>2, TakeAnswers, AnswerType
  <2> QED
    BY <1>5, <2>3 DEF ApplyList
<1>6. res.op.kind = "create" /\ res.ok => res.runner \in Runner
  BY <1>1, <1>2 DEF NewInv, Result
<1>7. res.op.kind = "delete" => res.op.runner \in Runner
  BY <1>2 DEF Operation, Task
<1>8. CASE res.ok
  <2>1. \/ res.op.kind = "list" /\ ApplyList(res.runners)
        \/ res.op.kind = "create" /\ ApplyCreate(res.runner, res.op.gen)
        \/ res.op.kind = "fence" /\ ApplyFence(res.op.runner)
        \/ res.op.kind = "delete" /\ ApplyDelete(res.op.runner)
    BY <1>3, <1>8 DEF apply, ApplySuccess
  <2>2. CASE res.op.kind = "list" /\ ApplyList(res.runners)
    BY <1>1, <1>2, <1>3, <1>5, <1>8, <2>2
  <2>3. CASE res.op.kind = "create" /\ ApplyCreate(res.runner, res.op.gen)
    BY <1>1, <1>2, <1>3, <1>6, <1>8, <2>3 DEF ApplyCreate
  <2>4. CASE res.op.kind = "fence" /\ ApplyFence(res.op.runner)
    BY <1>1, <1>2, <1>3, <1>8, <2>4 DEF ApplyFence
  <2>5. CASE res.op.kind = "delete" /\ ApplyDelete(res.op.runner)
    BY <1>1, <1>2, <1>3, <1>7, <1>8, <2>5 DEF ApplyDelete
  <2> QED
    BY <2>1, <2>2, <2>3, <2>4, <2>5
<1> QED
  BY <1>4, <1>8

\* Run forgets and learns runners, but never one whose create is still to be
\* answered.
LEMMA NewMain == ASSUME TypeOK, AccountInv, NewInv, MainStep PROVE NewInv'
<1>1. CASE QuietMain
  BY <1>1, QuietAccounts, NewStutter DEF NewInv, stateVars
<1>2. CASE Scheduling
  <2>1. AccountInv' /\ Handed(operations) /\ Answers' = Answers
    BY <1>2, SchedulingAccounts
  <2>2. \A a \in Answers' : a.op.kind = "create" /\ a.runner # Nobody =>
          runners'[a.runner] = "absent"
    <3>1. CASE InitialInventory
      BY <2>1, <3>1, AnswerType DEF InitialInventory, AccountInv
    <3>2. CASE TakeDemand \/ Tick
      BY <2>1, <3>2 DEF TakeDemand, Tick, NewInv
    <3> QED
      BY <1>2, <3>1, <3>2 DEF Scheduling
  <2> QED
    BY <2>1, <2>2, NewStutter DEF Handed
<1>3. CASE TakeResult
  <2>1. PICK res : res = Head(results)
    OBVIOUS
  <2>2. /\ Answers' \subseteq Answers
        /\ \A a \in Answers' : a.op # res.op
        /\ Handed(operations \ {res.op})
    BY <1>3, <2>1, TakeAnswers, TakeAccounts
  <2>3. res \in Answers /\ res.op \in operations
    BY <1>3, <2>1, TakeAccounts
  <2>4. ASSUME NEW a \in Answers', a.op.kind = "create", a.runner # Nobody
        PROVE  runners'[a.runner] = "absent"
    <3>1. runners[a.runner] = "absent" /\ a.runner \in Runner
      BY <2>2, <2>4, AnswerType DEF NewInv, Result
    <3>2. res.op.kind = "create" => a.runner # res.runner
      BY <2>2, <2>3, <2>4 DEF NewInv
    <3>3. \/ UNCHANGED runners
          \/ Answers' = {}
          \/ /\ res.op.kind = "create"
             /\ runners' = [runners EXCEPT ![res.runner] = "provisioning"]
          \/ runners' = [runners EXCEPT ![res.op.runner] = "absent"]
      BY <1>3, <2>1, TakeKnows
    <3> QED
      BY <2>4, <3>1, <3>2, <3>3 DEF TypeOK
  <2> QED
    BY <2>2, <2>4, NewStutter DEF Handed
<1> QED
  BY <1>1, <1>2, <1>3 DEF MainStep, QuietMain, Scheduling

\* A create answers with a name nothing else knows.
LEMMA NewWorker ==
    ASSUME TypeOK, AccountInv, NewInv, NEW w \in Worker, WorkerStep(w) PROVE NewInv'
<1>1. UNCHANGED <<runners, operations>>
  BY WorkerAnswers DEF WorkerExits, WorkerSends, Answer, WorkerFrame, stateVars
<1>2. CASE WorkerExits(w) \/ WorkerSends(w)
  BY <1>1, <1>2, WorkerAccounts, NewStutter DEF NewInv
<1>3. ASSUME NEW ok, NEW r, NEW inventory, at[w] = "working",
             Answer(w, ok, r, inventory),
             item[w].kind = "create" =>
               \/ ~ok /\ r = Nobody
               \/ r \in Runner /\ FreshName(r)
      PROVE  NewInv'
  <2>1. PICK new : /\ new = [op |-> item[w], ok |-> ok, runner |-> r, runners |-> inventory]
                   /\ Answers' = Answers \cup {new}
    BY <1>3, AnswerAccounts
  <2>2. new.op = item[w] /\ new.ok = ok /\ new.runner = r
    BY <2>1
  <2>3. new.op.kind = "create" => \/ ~new.ok /\ new.runner = Nobody
                                  \/ new.runner \in Runner /\ FreshName(new.runner)
    BY <1>3, <2>2
  <2>4. new.op.kind = "create" /\ new.runner # Nobody =>
          /\ runners[new.runner] = "absent"
          /\ \A o \in operations : o.runner # new.runner
          /\ \A a \in Answers : a.runner # new.runner
    BY <2>3, FreshAnswers
  <2>5. new.op.kind = "create" /\ new.ok => new.runner # Nobody
    BY <2>3, RunnerAssumption
  <2> QED
    BY <1>1, <2>1, <2>4, <2>5 DEF NewInv
<1>4. CASE WorkerLists(w)
  <2>1. at[w] = "working" /\ item[w].kind = "list"
    BY <1>4 DEF WorkerLists, Executing
  <2>2. PICK ok \in BOOLEAN : \E inventory : Answer(w, ok, Nobody, inventory)
    BY <1>4 DEF WorkerLists
  <2> QED
    BY <1>3, <2>1, <2>2
<1>5. CASE WorkerCreates(w)
  <2>1. at[w] = "working"
    BY <1>5 DEF WorkerCreates, Executing
  <2>2. \/ \E r \in Runner, ok \in BOOLEAN : FreshName(r) /\ Answer(w, ok, r, Nothing)
        \/ Answer(w, FALSE, Nobody, Nothing)
    BY <1>5 DEF WorkerCreates
  <2> QED
    BY <1>3, <2>1, <2>2
<1>6. CASE WorkerFences(w) \/ WorkerDeletes(w)
  <2>1. at[w] = "working" /\ item[w].kind # "create"
    BY <1>6 DEF WorkerFences, WorkerDeletes, Executing
  <2>2. PICK ok \in BOOLEAN : Answer(w, ok, item[w].runner, Nothing)
    BY <1>6 DEF WorkerFences, WorkerDeletes
  <2> QED
    BY <1>3, <2>1, <2>2
<1> QED
  BY <1>2, <1>4, <1>5, <1>6 DEF WorkerStep

\* NewInv is inductive together with AccountInv.
LEMMA NewStep == TypeOK /\ AccountInv /\ NewInv /\ [Next]_vars => NewInv'
<1> SUFFICES ASSUME TypeOK, AccountInv, NewInv, [Next]_vars PROVE NewInv'
  OBVIOUS
<1>1. CASE MainStep
  BY <1>1, NewMain
<1>2. ASSUME NEW w \in Worker, WorkerStep(w) PROVE NewInv'
  BY <1>2, NewWorker
<1>3. ASSUME NEW k \in cooling, CooldownEnds(k) PROVE NewInv'
  BY <1>3 DEF CooldownEnds, NewInv, Answers, workVars
<1>4. CASE Restart
  BY <1>4 DEF Restart, NewInv, Answers
<1>5. CASE OpenSession \/ Message \/ Environment
  BY <1>5 DEF OpenSession, Message, Environment, SessionFrame, NewInv, Answers, stateVars,
              workVars
<1>6. CASE UNCHANGED vars
  BY <1>6 DEF vars, NewInv, Answers, stateVars, workVars
<1> QED
  BY <1>1, <1>2, <1>3, <1>4, <1>5, <1>6 DEF Next

\* NewInv is an invariant.
LEMMA NewInvariant == Spec => []NewInv
<1>1. Init => NewInv
  BY DEF Init, NewInv, Answers
<1> QED
  BY <1>1, TypeCorrect, AccountInvariant, NewStep, PTL DEF Spec

-----------------------------------------------------------------------------
(* No VM goes uncounted *)

\* A create that produced r has been answered.
Pending(r) == \E a \in Answers : a.op.kind = "create" /\ a.runner = r

\* The name of a VM that runs or may come to run.
Live(r) == vm[r] \in {"starting", "booting", "overdue", "ready"}

(***************************************************************************)
(* NoUncountedVM is not inductive: apply replaces what is known by what a  *)
(* listing saw earlier and forgets a runner whose delete ended earlier.    *)
(* The strengthening says that no listing on its way misses a VM that is   *)
(* live by now, that a deleted runner is not live again, and that a VM     *)
(* whose start nobody waits for is known as well.                          *)
(***************************************************************************)
KnownInv ==
    /\ pc = "select" /\ ~inventoryStale =>
         \A r \in Runner : Live(r) => runners[r] # "absent" \/ Pending(r)
    /\ \A a \in Answers : a.ok /\ a.op.kind = "list" =>
         \A r \in Runner : Live(r) => a.runners[r] # "absent"
    /\ \A a \in Answers : a.ok /\ a.op.kind = "delete" => ~Live(a.op.runner)

\* Behind the controller's back no VM comes to life that was not live before.
LEMMA GuestLives ==
    ASSUME FleetTypeOK, NEW q \in Runner, NEW r \in Runner,
           GuestStep(q) \/ FenceOK(q) \/ FenceFails(q) \/ DeleteOK(q) \/ DeleteFails(q),
           Live(r)'
    PROVE  Live(r)
  BY DEF FleetTypeOK, GuestStep, GuestReady, BootstrapExpires, AssignJob, FinishJob,
         GuestExit, ForgetRunner, LateCreate, LateStart, LateDelete, FenceOK, FenceFails,
         DeleteOK, DeleteFails, Set, fleetVars, Up, Owned, Live

\* A create brings only its own VM to life.
LEMMA CreateLives ==
    ASSUME FleetTypeOK, NEW q \in Runner, NEW r \in Runner \ {q},
           CreateOK(q) \/ CreateFails(q), Live(r)'
    PROVE  Live(r)
  BY DEF FleetTypeOK, CreateOK, CreateFails, Set, Live

\* A VM that was deleted is not live.
LEMMA DeletedNotLive ==
    ASSUME FleetTypeOK, NEW r \in Runner, DeleteOK(r) PROVE ~Live(r)'
  BY DEF FleetTypeOK, DeleteOK, Owned, Set, fleetVars, Live

\* A listing names every live VM.
LEMMA ListedLive ==
    ASSUME FleetTypeOK, NEW r \in Runner, Live(r) PROVE Snapshot[r] # "absent"
  BY DEF FleetTypeOK, Live, Snapshot

\* Steps that bring no VM to life and no answer, forget nothing and take nothing.
LEMMA KnownStutter ==
    ASSUME TypeOK, AccountInv, KnownInv,
           \A r \in Runner : Live(r)' => Live(r),
           Answers' = Answers,
           pc' = "select" => UNCHANGED <<pc, inventoryStale, runners>>
    PROVE  KnownInv'
<1>1. ASSUME NEW r \in Runner, pc' = "select", ~inventoryStale', Live(r)'
      PROVE  runners'[r] # "absent" \/ Pending(r)'
  BY <1>1 DEF KnownInv, Pending
<1>2. ASSUME NEW a \in Answers', a.ok, a.op.kind = "list", NEW r \in Runner, Live(r)'
      PROVE  a.runners[r] # "absent"
  BY <1>2 DEF KnownInv
<1>3. ASSUME NEW a \in Answers', a.ok, a.op.kind = "delete" PROVE ~Live(a.op.runner)'
  <2>1. PICK q : q = a.op.runner
    OBVIOUS
  <2>2. q \in Runner /\ ~Live(q)
    BY <1>3, <2>1, AnswerType DEF KnownInv, Operation, Task
  <2>3. ~Live(q)'
    BY <2>2
  <2> QED
    BY <2>1, <2>3 DEF Live
<1> QED
  BY <1>1, <1>2, <1>3 DEF KnownInv

\* Run knows every live VM, or that it does not know.
LEMMA KnownMain ==
    ASSUME TypeOK, AccountInv, NewInv, KnownInv, MainStep PROVE KnownInv'
<1>1. UNCHANGED vm
  BY DEF MainStep, InitialInventory, InvalidInventory, InventoryCanceled, TakeDemand,
         Tick, TakeResult, StopWork, WorkersDone, GraceExpires, HardTimeout, Stop
<1>2. \A r \in Runner : Live(r)' <=> Live(r)
  BY <1>1 DEF Live
<1>3. CASE QuietMain
  BY <1>2, <1>3, QuietAccounts, KnownStutter
<1>4. CASE TakeDemand \/ Tick
  <2>1. Answers' = Answers
    BY <1>4, SchedulingAccounts DEF Scheduling
  <2>2. UNCHANGED <<pc, inventoryStale, runners>>
    BY <1>4 DEF TakeDemand, Tick, loopVars
  <2> QED
    BY <1>2, <2>1, <2>2, KnownStutter
<1>5. CASE InitialInventory
  <2>1. Answers' = Answers /\ runners' = Snapshot
    BY <1>5, SchedulingAccounts DEF Scheduling, InitialInventory
  <2>2. \A r \in Runner : Live(r)' => runners'[r] # "absent"
    BY <1>2, <2>1, ListedLive DEF TypeOK
  <2>3. \A a \in Answers' : a.ok /\ a.op.kind = "list" =>
          \A r \in Runner : Live(r)' => a.runners[r] # "absent"
    BY <1>2, <2>1 DEF KnownInv
  <2>4. \A a \in Answers' : a.ok /\ a.op.kind = "delete" => ~Live(a.op.runner)'
    BY <1>1, <2>1 DEF KnownInv, Live
  <2> QED
    BY <2>2, <2>3, <2>4 DEF KnownInv
<1>6. CASE TakeResult
  <2>1. PICK res : res = Head(results)
    OBVIOUS
  <2>2. Answers' \subseteq Answers /\ Answers \subseteq Answers' \cup {res}
    BY <1>6, <2>1, TakeAnswers
  <2>3. \A a \in Answers' : a.ok /\ a.op.kind = "list" =>
          \A r \in Runner : Live(r)' => a.runners[r] # "absent"
    BY <1>2, <2>2 DEF KnownInv
  <2>4. \A a \in Answers' : a.ok /\ a.op.kind = "delete" => ~Live(a.op.runner)'
    BY <1>1, <2>2 DEF KnownInv, Live
  <2>5. ASSUME NEW r \in Runner, pc' = "select", ~inventoryStale', Live(r)'
        PROVE  runners'[r] # "absent" \/ Pending(r)'
    <3>1. Live(r)
      BY <1>2, <2>5
    <3>2. /\ res \in Answers /\ res \in Result /\ UNCHANGED pc
          /\ \/ ~res.ok /\ inventoryStale' = TRUE
             \/ res.ok /\ res.op.kind = "list" /\ runners' = res.runners
             \/ /\ res.ok /\ res.op.kind = "create" /\ res.runner \in Runner
                /\ runners' = [runners EXCEPT ![res.runner] = "provisioning"]
                /\ UNCHANGED inventoryStale
             \/ /\ res.ok /\ res.op.kind = "fence" /\ UNCHANGED <<runners, inventoryStale>>
             \/ /\ res.ok /\ res.op.kind = "delete" /\ res.op.runner \in Runner
                /\ runners' = [runners EXCEPT ![res.op.runner] = "absent"]
                /\ UNCHANGED inventoryStale
      BY <1>6, <2>1, TakeKnows
    <3>3. CASE res.op.kind = "list" /\ res.ok
      BY <3>1, <3>2, <3>3 DEF KnownInv
    <3>4. CASE res.op.kind = "create" /\ res.ok
      <4>1. CASE r = res.runner
        BY <3>2, <3>4, <4>1 DEF TypeOK
      <4>2. CASE r # res.runner
        <5>1. runners[r] # "absent" \/ Pending(r)
          BY <2>5, <3>1, <3>2, <3>4 DEF KnownInv
        <5>2. Pending(r) => Pending(r)'
          BY <2>2, <4>2 DEF Pending
        <5> QED
          BY <3>2, <3>4, <4>2, <5>1, <5>2 DEF TypeOK
      <4> QED
        BY <4>1, <4>2
    <3>5. CASE res.op.kind \in {"fence", "delete"} /\ res.ok
      <4>1. runners[r] # "absent" \/ Pending(r)
        BY <2>5, <3>1, <3>2, <3>5 DEF KnownInv
      <4>2. Pending(r) => Pending(r)'
        BY <2>2, <3>5 DEF Pending
      <4>3. res.op.kind = "delete" => r # res.op.runner
        BY <3>1, <3>2, <3>5 DEF KnownInv
      <4> QED
        BY <3>2, <3>5, <4>1, <4>2, <4>3 DEF TypeOK
    <3> QED
      BY <2>5, <3>2, <3>3, <3>4, <3>5
  <2> QED
    BY <2>3, <2>4, <2>5 DEF KnownInv
<1> QED
  BY <1>3, <1>4, <1>5, <1>6 DEF MainStep, QuietMain

\* A backend call returns, after which apply may learn of r and lose others.
LEMMA KnownAnswer ==
    ASSUME TypeOK, AccountInv, KnownInv, NEW w \in Worker, at[w] = "working",
           NEW ok, NEW r, NEW inventory, Answer(w, ok, r, inventory),
           \A q \in Runner : \/ Live(q)' => Live(q)
                             \/ item[w].kind = "create" /\ q = r /\ FreshName(q),
           ok /\ item[w].kind = "list" =>
             \A q \in Runner : Live(q)' => inventory[q] # "absent",
           ok /\ item[w].kind = "delete" => r = item[w].runner /\ ~Live(r)'
    PROVE  KnownInv'
<1>1. PICK new : /\ new = [op |-> item[w], ok |-> ok, runner |-> r, runners |-> inventory]
                 /\ Answers' = Answers \cup {new}
  BY AnswerAccounts
<1>2. new.op = item[w] /\ new.ok = ok /\ new.runner = r /\ new.runners = inventory
  BY <1>1
<1>3. UNCHANGED <<runners, inventoryStale, pc>> /\ item[w] \in operations
  BY AnswerAccounts DEF Answer, WorkerFrame, stateVars, loopVars
<1>4. ASSUME NEW q \in Runner, pc' = "select", ~inventoryStale', Live(q)'
      PROVE  runners'[q] # "absent" \/ Pending(q)'
  BY <1>1, <1>2, <1>3, <1>4 DEF KnownInv, Pending
<1>5. ASSUME NEW a \in Answers, a.ok, a.op.kind = "list", NEW q \in Runner, Live(q)'
      PROVE  a.runners[q] # "absent"
  <2>1. item[w] = a.op
    BY <1>3, <1>5, AnswerType DEF AccountInv, ListAlone
  <2>2. Live(q)
    BY <1>5, <2>1
  <2> QED
    BY <1>5, <2>2 DEF KnownInv
<1>6. ASSUME NEW a \in Answers, a.ok, a.op.kind = "delete" PROVE ~Live(a.op.runner)'
  <2>1. PICK q : q = a.op.runner
    OBVIOUS
  <2>2. q \in Runner /\ ~Live(q) /\ a.op \in operations
    BY <1>6, <2>1, AnswerType DEF KnownInv, Operation, Task
  <2>3. ~FreshName(q)
    BY <2>1, <2>2 DEF FreshName
  <2>4. ~Live(q)'
    BY <2>2, <2>3
  <2> QED
    BY <2>1, <2>4 DEF Live
<1>7. \A a \in Answers' : a.ok /\ a.op.kind = "list" =>
        \A q \in Runner : Live(q)' => a.runners[q] # "absent"
  BY <1>1, <1>2, <1>5
<1>8. \A a \in Answers' : a.ok /\ a.op.kind = "delete" => ~Live(a.op.runner)'
  <2>1. new.ok /\ new.op.kind = "delete" => ~Live(new.op.runner)'
    BY <1>2
  <2> QED
    BY <1>1, <1>6, <2>1 DEF Live
<1> QED
  BY <1>4, <1>7, <1>8 DEF KnownInv

\* A worker reveals a VM only through the answer it will send.
LEMMA KnownWorker ==
    ASSUME TypeOK, AccountInv, KnownInv, NEW w \in Worker, WorkerStep(w) PROVE KnownInv'
<1>1. CASE WorkerExits(w) \/ WorkerSends(w)
  <2>1. UNCHANGED <<vm, pc, inventoryStale, runners>>
    BY <1>1 DEF WorkerExits, WorkerSends, WorkerFrame, stateVars, loopVars
  <2>2. \A r \in Runner : Live(r)' => Live(r)
    BY <2>1 DEF Live
  <2> QED
    BY <1>1, <2>1, <2>2, WorkerAccounts, KnownStutter
<1>2. CASE WorkerLists(w)
  <2>1. at[w] = "working" /\ item[w].kind = "list" /\ UNCHANGED vm
    BY <1>2 DEF WorkerLists, Executing
  <2>2. \A r \in Runner : /\ Live(r)' => Live(r)
                          /\ Live(r)' => Snapshot[r] # "absent"
    BY <2>1, ListedLive DEF Live, TypeOK
  <2>3. \/ Answer(w, TRUE, Nobody, Snapshot)
        \/ Answer(w, FALSE, Nobody, Nothing)
    BY <1>2 DEF WorkerLists
  <2> QED
    BY <2>1, <2>2, <2>3, KnownAnswer
<1>3. CASE WorkerCreates(w)
  <2>1. at[w] = "working" /\ item[w].kind = "create"
    BY <1>3 DEF WorkerCreates, Executing
  <2>2. ASSUME NEW r \in Runner, NEW ok \in BOOLEAN, FreshName(r),
               CreateOK(r) \/ CreateFails(r), Answer(w, ok, r, Nothing)
        PROVE  KnownInv'
    <3>1. \A q \in Runner \ {r} : Live(q)' => Live(q)
      BY <2>2, CreateLives DEF TypeOK
    <3> QED
      BY <2>1, <2>2, <3>1, KnownAnswer
  <2>3. ASSUME UNCHANGED vm, Answer(w, FALSE, Nobody, Nothing) PROVE KnownInv'
    <3>1. \A q \in Runner : Live(q)' => Live(q)
      BY <2>3 DEF Live
    <3> QED
      BY <2>1, <2>3, <3>1, KnownAnswer
  <2> QED
    BY <1>3, <2>2, <2>3 DEF WorkerCreates
<1>4. CASE WorkerFences(w)
  <2>1. PICK r : r = item[w].runner
    OBVIOUS
  <2>2. at[w] = "working" /\ item[w].kind = "fence" /\ r \in Runner
    BY <1>4, <2>1 DEF WorkerFences, Executing, TypeOK, Operation, Task
  <2>3. FenceOK(r) \/ FenceFails(r)
    BY <1>4, <2>1 DEF WorkerFences
  <2>4. \A q \in Runner : Live(q)' => Live(q)
    BY <2>2, <2>3, GuestLives DEF TypeOK
  <2>5. PICK ok \in BOOLEAN : Answer(w, ok, r, Nothing)
    BY <1>4, <2>1 DEF WorkerFences
  <2> QED
    BY <2>2, <2>4, <2>5, KnownAnswer
<1>5. CASE WorkerDeletes(w)
  <2>1. PICK r : r = item[w].runner
    OBVIOUS
  <2>2. at[w] = "working" /\ item[w].kind = "delete" /\ r \in Runner
    BY <1>5, <2>1 DEF WorkerDeletes, Executing, TypeOK, Operation, Task
  <2>3. \/ DeleteOK(r) /\ Answer(w, TRUE, r, Nothing)
        \/ DeleteFails(r) /\ Answer(w, FALSE, r, Nothing)
    BY <1>5, <2>1 DEF WorkerDeletes
  <2>4. \A q \in Runner : Live(q)' => Live(q)
    BY <2>2, <2>3, GuestLives DEF TypeOK
  <2>5. DeleteOK(r) => ~Live(r)'
    BY <2>2, DeletedNotLive DEF TypeOK
  <2> QED
    BY <2>1, <2>2, <2>3, <2>4, <2>5, KnownAnswer
<1> QED
  BY <1>1, <1>2, <1>3, <1>4, <1>5 DEF WorkerStep

\* KnownInv is inductive together with AccountInv and NewInv.
LEMMA KnownStep == TypeOK /\ AccountInv /\ NewInv /\ KnownInv /\ [Next]_vars => KnownInv'
<1> SUFFICES ASSUME TypeOK, AccountInv, NewInv, KnownInv, [Next]_vars PROVE KnownInv'
  OBVIOUS
<1>1. CASE MainStep
  BY <1>1, KnownMain
<1>2. ASSUME NEW w \in Worker, WorkerStep(w) PROVE KnownInv'
  BY <1>2, KnownWorker
<1>3. ASSUME UNCHANGED <<vm, pc, inventoryStale, runners, at, out, results>>
      PROVE  KnownInv'
  BY <1>3, KnownStutter DEF Live, Answers
<1>4. ASSUME NEW k \in cooling, CooldownEnds(k) PROVE KnownInv'
  BY <1>3, <1>4 DEF CooldownEnds, workVars, loopVars
<1>5. CASE Restart
  BY <1>5 DEF Restart, KnownInv, Answers
<1>6. CASE OpenSession \/ Message
  BY <1>3, <1>6 DEF OpenSession, Message, SessionFrame, stateVars, workVars, loopVars
<1>7. CASE Environment
  <2>1. \A r \in Runner : Live(r)' => Live(r)
    BY <1>7, GuestLives DEF Environment, TypeOK
  <2> QED
    BY <1>7, <2>1, KnownStutter DEF Environment, Answers, stateVars, workVars, loopVars
<1>8. CASE UNCHANGED vars
  BY <1>3, <1>8 DEF vars, stateVars, workVars, loopVars
<1> QED
  BY <1>1, <1>2, <1>4, <1>5, <1>6, <1>7, <1>8 DEF Next

(***************************************************************************)
(* While the inventory is not stale, the reconciler knows every VM that is *)
(* up or still counts the create that made it, for any number of runners   *)
(* and workers, whatever failed before and whatever the listings raced     *)
(* with: recordFailure's stale mark and the listing that runs alone are    *)
(* enough.                                                                 *)
(***************************************************************************)
THEOREM NoVMUncounted == Spec => []NoUncountedVM
<1>1. ASSUME TypeOK, KnownInv PROVE NoUncountedVM
  <2>1. \A r \in Runner : Up(r) => Live(r)
    BY DEF Up, Live
  <2>2. \A r \in Runner : Pending(r) => CreatePending(r)
    BY DEF Pending, CreatePending, Answers
  <2> QED
    BY <1>1, <2>1, <2>2 DEF KnownInv, NoUncountedVM
<1>2. Init => KnownInv
  BY DEF Init, KnownInv, Answers
<1> QED
  BY <1>1, <1>2, TypeCorrect, AccountInvariant, NewInvariant, KnownStep, PTL DEF Spec

-----------------------------------------------------------------------------
(* Scale-down *)

\* r was created under generation g of this process, as far as it can tell.
Born(r, g) == \/ created[r] = g
              \/ \E a \in Answers : /\ a.op.kind = "create" /\ a.ok
                                    /\ a.runner = r /\ a.op.gen = g

\* The generations in use are those of sessions that have been opened.
GenInv == /\ generation <= session
          /\ \A d \in mailbox : d.gen <= session
          /\ \A o \in operations : o.gen <= session
          /\ \A r \in Runner : created[r] <= session

\* Announced jobs are running, in particular those of the demand in force.
ToldInv == /\ \A r \in told : gh[r] = "busy"
           /\ toldAt \subseteq told

(***************************************************************************)
(* ScaleDownAuthority is not inductive: the busy set in force comes from   *)
(* the handler of the message session by way of the mailbox.  Whatever     *)
(* was created under a generation and has an announced job is in the busy  *)
(* set of that generation's session, in a demand of that session that      *)
(* waits in the mailbox and, if the job was announced before the demand in *)
(* force, in busyRunners.                                                  *)
(***************************************************************************)
BornInv ==
    \A r \in told, g \in 0..MaxGeneration : Born(r, g) =>
      /\ g = session => r \in started
      /\ \A d \in mailbox : d.gen = g => r \in d.busy
      /\ r \in toldAt /\ g = generation => r \in busyRunners

\* Generations only grow, and a runner is created under one that exists.
LEMMA GenStep == TypeOK /\ AccountInv /\ NewInv /\ GenInv /\ [Next]_vars => GenInv'
<1> SUFFICES ASSUME TypeOK, AccountInv, NewInv, GenInv, [Next]_vars PROVE GenInv'
  OBVIOUS
<1>1. /\ session \in Nat /\ generation \in Nat
      /\ \A o \in operations : o.gen \in Nat
      /\ \A r \in Runner : created[r] \in Int
      /\ \A d \in mailbox : d.gen \in Nat
  <2>1. \A n \in -1..MaxGeneration : n \in Int
    BY BoundAssumption
  <2>2. \A n \in 0..MaxGeneration : n \in Nat
    BY BoundAssumption
  <2>3. \A n \in 1..MaxGeneration : n \in Nat
    BY BoundAssumption
  <2>4. \A o \in operations : o.gen \in 0..MaxGeneration
    BY DEF TypeOK, Operation
  <2>5. \A d \in mailbox : d.gen \in 1..MaxGeneration
    BY DEF TypeOK, Demand
  <2>6. \A r \in Runner : created[r] \in -1..MaxGeneration
    BY DEF TypeOK
  <2>7. session \in 0..MaxGeneration /\ generation \in 0..MaxGeneration
    BY DEF TypeOK
  <2> QED
    BY <2>1, <2>2, <2>3, <2>4, <2>5, <2>6, <2>7
<1>2. ASSUME UNCHANGED <<stateVars, demandVars>> PROVE GenInv'
  BY <1>2 DEF GenInv, stateVars, demandVars
<1>3. CASE QuietMain
  BY <1>2, <1>3, QuietAccounts
<1>4. CASE Scheduling
  <2>1. Handed(operations)
    BY <1>4, SchedulingAccounts
  <2>2. UNCHANGED <<session, created>> /\ mailbox' \subseteq mailbox
    BY <1>4 DEF Scheduling, InitialInventory, TakeDemand, Tick, demandVars
  <2>3. generation' \in Nat /\ generation' <= session
    BY <1>1, <1>4 DEF Scheduling, InitialInventory, TakeDemand, Tick, GenInv
  <2>4. \A o \in operations' : o.gen <= session
    BY <1>1, <2>1, <2>3 DEF Handed, GenInv
  <2> QED
    BY <2>2, <2>3, <2>4 DEF GenInv
<1>5. CASE TakeResult
  <2>1. PICK res : res = Head(results)
    OBVIOUS
  <2>2. Handed(operations \ {res.op}) /\ res.op \in operations
    BY <1>5, <2>1, TakeAccounts
  <2>3. UNCHANGED <<generation, session, mailbox>>
    BY <1>5 DEF TakeResult, demandVars
  <2>4. \A o \in operations' : o.gen <= session
    BY <1>1, <2>2, <2>3 DEF Handed, GenInv
  <2>5. \/ \A r \in Runner : created'[r] \in {created[r], -1}
        \/ created' = [created EXCEPT ![res.runner] = res.op.gen]
        \/ created' = [created EXCEPT ![res.op.runner] = -1]
    BY <1>5, <2>1, TakeKnows
  <2>6. ASSUME NEW r \in Runner PROVE created'[r] <= session
    <3>1. created'[r] \in {created[r], -1, res.op.gen}
      BY <2>5 DEF TypeOK
    <3>2. created[r] <= session /\ -1 <= session /\ res.op.gen <= session
      BY <1>1, <2>2 DEF GenInv
    <3> QED
      BY <3>1, <3>2
  <2> QED
    BY <2>3, <2>4, <2>6 DEF GenInv
<1>6. ASSUME NEW w \in Worker, WorkerStep(w) PROVE GenInv'
  BY <1>2, <1>6, WorkerAnswers DEF WorkerExits, WorkerSends, Answer, WorkerFrame
<1>7. ASSUME NEW k \in cooling, CooldownEnds(k) PROVE GenInv'
  BY <1>7 DEF CooldownEnds, GenInv, demandVars
<1>8. CASE Restart
  BY <1>8 DEF Restart, GenInv
<1>9. CASE OpenSession
  BY <1>1, <1>9 DEF OpenSession, Feed!OpenSession, SessionFrame, GenInv, stateVars
<1>10. CASE Message
  BY <1>1, <1>10 DEF Message, Feed!Message, SessionFrame, GenInv, stateVars
<1>11. CASE Environment \/ UNCHANGED vars
  BY <1>2, <1>11 DEF Environment, vars
<1> QED
  BY <1>3, <1>4, <1>5, <1>6, <1>7, <1>8, <1>9, <1>10, <1>11
     DEF Next, MainStep, QuietMain, Scheduling

\* No operation ends a job, and a new runner has none.
LEMMA OperationsSpareJobs ==
    ASSUME FleetTypeOK, NEW q \in Runner, NEW r \in Runner, gh[r] = "busy",
           \/ CreateOK(q) \/ CreateFails(q) \/ FenceOK(q) \/ FenceFails(q)
           \/ DeleteOK(q) \/ DeleteFails(q)
    PROVE  gh'[r] = "busy"
  BY DEF FleetTypeOK, CreateOK, CreateFails, FenceOK, FenceFails, DeleteOK, DeleteFails,
         Set, fleetVars

\* An announced job is over before it is forgotten.
LEMMA ToldStep == TypeOK /\ ToldInv /\ [Next]_vars => ToldInv'
<1> SUFFICES ASSUME TypeOK, ToldInv, [Next]_vars PROVE ToldInv'
  OBVIOUS
<1>1. ASSUME UNCHANGED <<gh, told, toldAt>> PROVE ToldInv'
  BY <1>1 DEF ToldInv
<1>2. CASE MainStep
  <2>1. CASE TakeDemand
    BY <2>1 DEF TakeDemand, ToldInv
  <2>2. CASE ~TakeDemand
    BY <1>1, <1>2, <2>2 DEF MainStep, InitialInventory, InvalidInventory, InventoryCanceled,
         Tick, TakeResult, StopWork, WorkersDone, GraceExpires, HardTimeout, Stop, ghostVars
  <2> QED
    BY <2>1, <2>2
<1>3. ASSUME NEW w \in Worker, WorkerStep(w) PROVE ToldInv'
  <2>1. UNCHANGED <<told, toldAt>>
    BY <1>3, WorkerAnswers DEF WorkerExits, WorkerSends, Answer, ghostVars
  <2>2. CASE UNCHANGED gh
    BY <1>1, <2>1, <2>2
  <2>3. CASE \E q \in Runner : \/ CreateOK(q) \/ CreateFails(q) \/ FenceOK(q)
                               \/ FenceFails(q) \/ DeleteOK(q) \/ DeleteFails(q)
    BY <2>1, <2>3, OperationsSpareJobs DEF ToldInv, TypeOK
  <2>4. CASE WorkerExits(w) \/ WorkerSends(w) \/ WorkerLists(w)
    BY <2>2, <2>4 DEF WorkerExits, WorkerSends, WorkerLists
  <2>5. CASE WorkerCreates(w)
    BY <2>2, <2>3, <2>5 DEF WorkerCreates
  <2>6. CASE WorkerFences(w) \/ WorkerDeletes(w)
    <3>1. item[w].runner \in Runner
      BY <2>6 DEF WorkerFences, WorkerDeletes, Executing, TypeOK, Operation, Task
    <3> QED
      BY <2>3, <2>6, <3>1 DEF WorkerFences, WorkerDeletes
  <2> QED
    BY <1>3, <2>4, <2>5, <2>6 DEF WorkerStep
<1>4. ASSUME NEW k \in cooling, CooldownEnds(k) PROVE ToldInv'
  BY <1>1, <1>4 DEF CooldownEnds, ghostVars
<1>5. CASE Restart
  BY <1>5 DEF Restart, ToldInv
<1>6. CASE OpenSession
  BY <1>1, <1>6 DEF OpenSession, SessionFrame
<1>7. CASE Message
  BY <1>7 DEF Message, Feed!AtMostOne, SessionFrame, ToldInv
<1>8. CASE Environment
  BY <1>8 DEF Environment, ToldInv
<1>9. CASE UNCHANGED vars
  BY <1>1, <1>9 DEF vars, ghostVars
<1> QED
  BY <1>2, <1>3, <1>4, <1>5, <1>6, <1>7, <1>8, <1>9 DEF Next

\* Steps that leave the demand side alone and give no announced job a new runner.
LEMMA BornStutter ==
    ASSUME TypeOK, BornInv,
           told' \subseteq told, toldAt' \subseteq toldAt,
           UNCHANGED <<session, started, mailbox, generation>>,
           \A r \in told', g \in 0..MaxGeneration : Born(r, g)' =>
             Born(r, g) /\ (r \in busyRunners => r \in busyRunners')
    PROVE  BornInv'
<1> SUFFICES ASSUME NEW r \in told', NEW g \in 0..MaxGeneration, Born(r, g)'
             PROVE  /\ g = session' => r \in started'
                    /\ \A d \in mailbox' : d.gen = g => r \in d.busy
                    /\ r \in toldAt' /\ g = generation' => r \in busyRunners'
  BY DEF BornInv
<1>1. Born(r, g) /\ r \in told /\ (r \in busyRunners => r \in busyRunners')
  OBVIOUS
<1> QED
  BY <1>1 DEF BornInv

\* Run gives no runner with an announced job to another generation.
LEMMA BornMain ==
    ASSUME TypeOK, AccountInv, NewInv, ToldInv, BornInv, MainStep PROVE BornInv'
<1>1. CASE QuietMain
  BY <1>1, QuietAccounts, BornStutter DEF Born, stateVars, demandVars
<1>2. CASE InitialInventory \/ Tick
  <2>1. Answers' = Answers
    BY <1>2, SchedulingAccounts DEF Scheduling
  <2>2. UNCHANGED <<created, busyRunners, session, started, mailbox, generation, told, toldAt>>
    BY <1>2 DEF InitialInventory, Tick, demandVars, ghostVars
  <2> QED
    BY <2>1, <2>2, BornStutter DEF Born
<1>3. CASE TakeDemand
  <2>1. Answers' = Answers
    BY <1>3, SchedulingAccounts DEF Scheduling
  <2>2. /\ UNCHANGED <<created, session, started, told>>
        /\ mailbox' = {} /\ toldAt' = told
        /\ \E d \in mailbox : generation' = d.gen /\ busyRunners' = d.busy
    BY <1>3 DEF TakeDemand
  <2>3. \A r, g : Born(r, g)' <=> Born(r, g)
    BY <2>1, <2>2 DEF Born
  <2> QED
    BY <2>2, <2>3 DEF BornInv
<1>4. CASE TakeResult
  <2>1. PICK res : res = Head(results)
    OBVIOUS
  <2>2. Answers' \subseteq Answers /\ \A a \in Answers' : a.op # res.op
    BY <1>4, <2>1, TakeAnswers
  <2>3. UNCHANGED <<session, started, mailbox, generation, told, toldAt>>
    BY <1>4 DEF TakeResult, demandVars
  <2>4. /\ res \in Answers /\ res.op \in operations /\ res \in Result
        /\ \/ /\ UNCHANGED <<created, busyRunners>>
           \/ /\ \A r \in Runner : created'[r] \in {created[r], -1}
              /\ UNCHANGED busyRunners
           \/ /\ res.ok /\ res.op.kind = "create" /\ res.runner \in Runner
              /\ created' = [created EXCEPT ![res.runner] = res.op.gen]
              /\ UNCHANGED busyRunners
           \/ /\ res.op.runner \in Runner
              /\ created' = [created EXCEPT ![res.op.runner] = -1]
              /\ busyRunners' = busyRunners \ {res.op.runner}
    BY <1>4, <2>1, TakeKnows
  <2>5. ASSUME NEW r \in told', NEW g \in 0..MaxGeneration, Born(r, g)'
        PROVE  Born(r, g) /\ (r \in busyRunners => r \in busyRunners')
    <3>1. r \in Runner /\ g # -1
      BY <2>3 DEF TypeOK
    <3>2. CASE \E a \in Answers' : a.op.kind = "create" /\ a.ok /\ a.runner = r /\ a.op.gen = g
      <4>1. Born(r, g)
        BY <2>2, <3>2 DEF Born
      <4>2. r # res.op.runner
        BY <2>2, <2>4, <3>1, <3>2, RunnerAssumption DEF NewInv
      <4> QED
        BY <2>4, <4>1, <4>2
    <3>3. CASE created'[r] = g
      <4>1. CASE UNCHANGED busyRunners
        BY <2>4, <3>1, <3>3, <4>1 DEF Born, TypeOK
      <4>2. CASE /\ res.op.runner \in Runner
                 /\ created' = [created EXCEPT ![res.op.runner] = -1]
                 /\ busyRunners' = busyRunners \ {res.op.runner}
        BY <3>1, <3>3, <4>2 DEF Born, TypeOK
      <4> QED
        BY <2>4, <4>1, <4>2
    <3> QED
      BY <2>5, <3>2, <3>3 DEF Born
  <2> QED
    BY <2>3, <2>5, BornStutter
<1> QED
  BY <1>1, <1>2, <1>3, <1>4 DEF MainStep, QuietMain

\* A runner that a create answers with has no announced job.
LEMMA BornWorker ==
    ASSUME TypeOK, AccountInv, ToldInv, BornInv, NEW w \in Worker, WorkerStep(w)
    PROVE  BornInv'
<1>1. UNCHANGED <<created, busyRunners, session, started, mailbox, generation, told, toldAt>>
  BY WorkerAnswers DEF WorkerExits, WorkerSends, Answer, WorkerFrame, stateVars, demandVars,
                       ghostVars
<1>2. CASE WorkerExits(w) \/ WorkerSends(w)
  BY <1>1, <1>2, WorkerAccounts, BornStutter DEF Born
<1>3. ASSUME NEW ok, NEW r, NEW inventory, at[w] = "working",
             Answer(w, ok, r, inventory),
             item[w].kind = "create" /\ ok => r \in Runner /\ FreshName(r)
      PROVE  BornInv'
  <2>1. PICK new : /\ new = [op |-> item[w], ok |-> ok, runner |-> r, runners |-> inventory]
                   /\ Answers' = Answers \cup {new}
    BY <1>3, AnswerAccounts
  <2>2. new.op = item[w] /\ new.ok = ok /\ new.runner = r
    BY <2>1
  <2>3. new.op.kind = "create" /\ new.ok => new.runner \notin told
    BY <1>3, <2>2 DEF FreshName, ToldInv
  <2>4. ASSUME NEW q \in told', NEW g \in 0..MaxGeneration, Born(q, g)'
        PROVE  Born(q, g) /\ (q \in busyRunners => q \in busyRunners')
    BY <1>1, <2>1, <2>3, <2>4 DEF Born
  <2> QED
    BY <1>1, <2>4, BornStutter
<1>4. CASE WorkerLists(w)
  <2>1. at[w] = "working" /\ item[w].kind = "list"
    BY <1>4 DEF WorkerLists, Executing
  <2>2. PICK ok \in BOOLEAN : \E inventory : Answer(w, ok, Nobody, inventory)
    BY <1>4 DEF WorkerLists
  <2> QED
    BY <1>3, <2>1, <2>2
<1>5. CASE WorkerCreates(w)
  <2>1. at[w] = "working"
    BY <1>5 DEF WorkerCreates, Executing
  <2>2. \/ \E r \in Runner, ok \in BOOLEAN : FreshName(r) /\ Answer(w, ok, r, Nothing)
        \/ Answer(w, FALSE, Nobody, Nothing)
    BY <1>5 DEF WorkerCreates
  <2> QED
    BY <1>3, <2>1, <2>2
<1>6. CASE WorkerFences(w) \/ WorkerDeletes(w)
  <2>1. at[w] = "working" /\ item[w].kind # "create"
    BY <1>6 DEF WorkerFences, WorkerDeletes, Executing
  <2>2. PICK ok \in BOOLEAN : Answer(w, ok, item[w].runner, Nothing)
    BY <1>6 DEF WorkerFences, WorkerDeletes
  <2> QED
    BY <1>3, <2>1, <2>2
<1> QED
  BY <1>2, <1>4, <1>5, <1>6 DEF WorkerStep

\* BornInv is inductive together with the invariants above.
LEMMA BornStep ==
    TypeOK /\ AccountInv /\ NewInv /\ GenInv /\ ToldInv /\ BornInv /\ [Next]_vars => BornInv'
<1> SUFFICES ASSUME TypeOK, AccountInv, NewInv, GenInv, ToldInv, BornInv, [Next]_vars
             PROVE  BornInv'
  OBVIOUS
<1>1. CASE MainStep
  BY <1>1, BornMain
<1>2. ASSUME NEW w \in Worker, WorkerStep(w) PROVE BornInv'
  BY <1>2, BornWorker
<1>3. ASSUME UNCHANGED <<created, busyRunners, generation, at, out, results, demandVars>>,
             told' \subseteq told, toldAt' \subseteq toldAt
      PROVE  BornInv'
  BY <1>3, BornStutter DEF Born, Answers, demandVars
<1>4. ASSUME NEW k \in cooling, CooldownEnds(k) PROVE BornInv'
  BY <1>3, <1>4 DEF CooldownEnds, workVars, ghostVars
<1>5. CASE Restart
  <2>1. Answers' = {}
    BY <1>5 DEF Restart, Answers
  <2>2. \A r \in told' : created'[r] = -1
    BY <1>5 DEF Restart, TypeOK
  <2>3. \A g \in 0..MaxGeneration : g # -1
    OBVIOUS
  <2> QED
    BY <2>1, <2>2, <2>3 DEF BornInv, Born
<1>6. CASE OpenSession \/ Message
  <2>1. UNCHANGED <<created, generation, busyRunners, at, out, results, gh, toldAt>>
    BY <1>6 DEF OpenSession, Message, SessionFrame, stateVars, workVars
  <2>2. \A r, g : Born(r, g)' <=> Born(r, g)
    BY <2>1 DEF Born, Answers
  <2>3. CASE OpenSession
    <3>1. /\ session' = session + 1 /\ UNCHANGED <<mailbox, told>>
      BY <2>3 DEF OpenSession, Feed!OpenSession
    <3>2. ASSUME NEW r \in told, NEW g \in 0..MaxGeneration, Born(r, g)
          PROVE  g # session + 1
      <4>1. g <= session
        BY <3>2, AnswerType DEF Born, GenInv, TypeOK
      <4>2. session \in Int /\ g \in Int
        BY DEF TypeOK
      <4> QED
        BY <4>1, <4>2
    <3> QED
      BY <2>1, <2>2, <3>1, <3>2 DEF BornInv
  <2>4. CASE Message
    <3>1. PICK n \in 0..MaxAssigned,
               begun \in Feed!AtMostOne({q \in Runner : gh[q] = "busy"}),
               over \in Feed!AtMostOne({q \in started : gh[q] # "busy"}) :
            /\ started' = (started \cup begun) \ over
            /\ mailbox' = {[jobs |-> n, gen |-> session, busy |-> started']}
            /\ UNCHANGED session
            /\ told' = told \cup begun
      BY <2>4 DEF Message, Feed!Message
    <3>2. /\ \A q \in begun : gh[q] = "busy"
          /\ \A q \in over : gh[q] # "busy"
      BY DEF Feed!AtMostOne
    <3>3. \A d \in mailbox' : d.gen = session /\ d.busy = started'
      BY <3>1
    <3> SUFFICES ASSUME NEW r \in told', NEW g \in 0..MaxGeneration, Born(r, g)
                 PROVE  /\ g = session' => r \in started'
                        /\ \A d \in mailbox' : d.gen = g => r \in d.busy
                        /\ r \in toldAt' /\ g = generation' => r \in busyRunners'
      BY <2>2 DEF BornInv
    <3>4. g = session => r \in started'
      BY <3>1, <3>2 DEF BornInv, ToldInv
    <3>5. r \in toldAt' /\ g = generation' => r \in busyRunners'
      BY <2>1 DEF BornInv, ToldInv
    <3> QED
      BY <3>1, <3>3, <3>4, <3>5
  <2> QED
    BY <1>6, <2>3, <2>4
<1>7. CASE Environment
  BY <1>3, <1>7 DEF Environment, stateVars, workVars
<1>8. CASE UNCHANGED vars
  BY <1>3, <1>8 DEF vars, stateVars, workVars, ghostVars
<1> QED
  BY <1>1, <1>2, <1>4, <1>5, <1>6, <1>7, <1>8 DEF Next

(***************************************************************************)
(* idleRunner never selects a runner whose running job had been announced  *)
(* before the demand in force was published, for any number of runners,    *)
(* workers, message sessions and restarts: the generation a create carries *)
(* through the work and results channels is what makes the busy set of the *)
(* session complete for the runners idleRunner looks at.                   *)
(***************************************************************************)
THEOREM ScaleDownIsAuthorised == Spec => []ScaleDownAuthority
<1>1. ASSUME TypeOK, ToldInv, BornInv PROVE ScaleDownAuthority
  <2> SUFFICES ASSUME NEW r \in idleRunners(runners, busyRunners, created, generation,
                                            fencedRunners, runnerOps),
                      r \in toldAt
               PROVE  FALSE
    BY DEF ScaleDownAuthority
  <2>1. r \notin busyRunners /\ created[r] = generation
    BY DEF idleRunners
  <2>2. generation \in 0..MaxGeneration /\ r \in told
    BY <1>1 DEF TypeOK, ToldInv
  <2>3. Born(r, generation)
    BY <2>1 DEF Born
  <2> QED
    BY <1>1, <2>1, <2>2, <2>3 DEF BornInv
<1>2. Init => GenInv /\ ToldInv /\ BornInv
  BY DEF Init, GenInv, ToldInv, BornInv
<1> QED
  BY <1>1, <1>2, TypeCorrect, AccountInvariant, NewInvariant, GenStep, ToldStep, BornStep, PTL
     DEF Spec

-----------------------------------------------------------------------------
(* The ceiling *)

\* A listing on its way reports r as one that counts.
Seen(r) == \E a \in Answers : /\ a.ok /\ a.op.kind = "list"
                              /\ a.runners[r] \in {"provisioning", "ready"}

\* Operations are about known runners.
SubjectInv == \A o \in operations : o.runner # Nobody => runners[o.runner] # "absent"

(***************************************************************************)
(* What is listed as terminal and may come up, or has come up since, is    *)
(* contested.                                                              *)
(***************************************************************************)
ReviveInv ==
    /\ \A r \in Runner : vm[r] \in {"starting", "overdue"} => r \in contested
    /\ \A r \in Runner : vm[r] \in {"booting", "ready"} /\ runners[r] = "terminal"
                           => r \in contested
    /\ \A a \in Answers : a.ok /\ a.op.kind = "list" =>
         \A r \in Runner : vm[r] \in {"booting", "ready"} /\ a.runners[r] = "terminal"
                             => r \in contested

(***************************************************************************)
(* The runners that use up capacity besides the creates in flight: those   *)
(* that count, those that will once a listing is applied, and, contested   *)
(* or not, those a failed create left behind unknown.                      *)
(***************************************************************************)
Charge(r) ==
    /\ r \notin runnerOps /\ r \notin fencedRunners /\ ~Pending(r)
    /\ \/ r \notin contested /\ runners[r] \in {"provisioning", "ready"}
       \/ r \notin contested /\ vm[r] \in {"booting", "ready"}
       \/ pc = "select" /\ r \notin contested /\ Seen(r)
       \/ pc = "select" /\ runners[r] = "absent" /\ (Live(r) \/ Seen(r))
Charged == {r \in Runner : Charge(r)}

CeilingInv == Cardinality(Charged) + Cardinality(CreatesOf(operations)) <= MaxRunners

-----------------------------------------------------------------------------
(* Counting *)

\* The image of a finite set under a function is finite and no larger.
LEMMA ImageSize ==
    ASSUME NEW S, IsFiniteSet(S), NEW f, DOMAIN f = S, f = [x \in S |-> f[x]]
    PROVE  /\ IsFiniteSet({f[x] : x \in S})
           /\ Cardinality({f[x] : x \in S}) <= Cardinality(S)
<1>1. f \in Surjection(S, {f[x] : x \in S})
  BY DEF Surjection
<1> QED
  BY <1>1, FS_Surjection

\* Every operation is with a worker or in the results channel: there are
\* finitely many.
LEMMA OperationsFinite == TypeOK /\ AccountInv => IsFiniteSet(operations)
<1> SUFFICES ASSUME TypeOK, AccountInv PROVE IsFiniteSet(operations)
  OBVIOUS
<1> DEFINE f == [w \in Worker |-> item[w]]
<1> DEFINE g == [w \in Worker |-> out[w].op]
<1> DEFINE h == [n \in 1..Len(results) |-> results[n].op]
<1> DEFINE A == {f[w] : w \in Worker}
<1> DEFINE B == {g[w] : w \in Worker}
<1> DEFINE C == {h[n] : n \in 1..Len(results)}
<1>1. IsFiniteSet(A) /\ IsFiniteSet(B)
  BY ImageSize, WorkerAssumption
<1>2. IsFiniteSet(C)
  <2>1. Len(results) \in Nat
    BY DEF TypeOK
  <2>2. IsFiniteSet(1..Len(results))
    BY <2>1, FS_Interval
  <2> QED
    BY <2>2, ImageSize
<1>3. operations \subseteq A \cup B \cup C
  <2> SUFFICES ASSUME NEW o \in operations PROVE o \in A \cup B \cup C
    OBVIOUS
  <2>1. DOMAIN results = 1..Len(results)
    BY DEF TypeOK
  <2>2. \/ \E w \in Worker : item[w] = o
        \/ \E w \in Worker : out[w].op = o
        \/ \E n \in 1..Len(results) : results[n].op = o
    BY <2>1 DEF AccountInv, Accounted
  <2> QED
    BY <2>2
<1> HIDE DEF A, B, C
<1>4. IsFiniteSet(A \cup B \cup C)
  BY <1>1, <1>2, FS_Union
<1> QED
  BY <1>3, <1>4, FS_Subset

\* An operation has at most one answer.
LEMMA AnswerUnique ==
    ASSUME TypeOK, AccountInv, NEW a \in Answers, NEW b \in Answers, a.op = b.op
    PROVE  a = b
<1>1. /\ \A w \in Worker : at[w] = "sending" => out[w].op.worker = w
      /\ \A n, m \in DOMAIN results : results[n].op = results[m].op => n = m
      /\ \A n \in DOMAIN results, w \in Worker : at[w] = "sending" =>
           out[w].op # results[n].op
  BY DEF AccountInv, Accounted
<1>2. CASE \E w \in Worker : at[w] = "sending" /\ a = out[w]
  BY <1>1, <1>2 DEF Answers
<1>3. CASE \E n \in DOMAIN results : a = results[n]
  BY <1>1, <1>3 DEF Answers
<1> QED
  BY <1>2, <1>3 DEF Answers

\* A runner that comes out of a create takes up one create in flight.
LEMMA PendingCreates ==
    ASSUME TypeOK, AccountInv, NewInv
    PROVE  /\ IsFiniteSet({r \in Runner : Pending(r)})
           /\ Cardinality({r \in Runner : Pending(r)}) <= Cardinality(CreatesOf(operations))
<1> DEFINE P == {r \in Runner : Pending(r)}
<1> DEFINE K == CreatesOf(operations)
<1> DEFINE f == [r \in P |-> CHOOSE o \in K : \E a \in Answers : a.op = o /\ a.runner = r]
<1>1. ASSUME NEW r \in P PROVE \E o \in K : \E a \in Answers : a.op = o /\ a.runner = r
  BY AnswerType DEF Pending, CreatesOf
<1>2. ASSUME NEW r \in P PROVE f[r] \in K /\ \E a \in Answers : a.op = f[r] /\ a.runner = r
  BY <1>1
<1>3. f \in [P -> K]
  BY <1>2
<1>4. \A r, q \in P : f[r] = f[q] => r = q
  <2> SUFFICES ASSUME NEW r \in P, NEW q \in P, f[r] = f[q] PROVE r = q
    OBVIOUS
  <2>1. PICK a \in Answers : a.op = f[r] /\ a.runner = r
    BY <1>2
  <2>2. PICK b \in Answers : b.op = f[q] /\ b.runner = q
    BY <1>2
  <2> HIDE DEF f
  <2> QED
    BY <2>1, <2>2, AnswerUnique
<1>5. IsFiniteSet(K)
  BY OperationsFinite, FS_Subset DEF CreatesOf
<1>6. f \in Injection(P, K)
  BY <1>3, <1>4 DEF Injection, IsInjective
<1> HIDE DEF f, P, K
<1>7. IsFiniteSet(P) /\ Cardinality(P) <= Cardinality(K)
  BY <1>5, <1>6, FS_Injection
<1> QED
  BY <1>7 DEF P, K

\* What reconcile adds to the creates in flight stays below the target.
LEMMA ReconcileCreates ==
    ASSUME TypeOK, NEW ops \in SUBSET Operation, IsFiniteSet(ops),
           NEW flying \in SUBSET Runner, target' \in Nat, reconcile(ops, flying)
    PROVE  \/ CreatesOf(operations') = CreatesOf(ops)
           \/ /\ ~inventoryStale' /\ ~inventorying(operations')
              /\ flying \subseteq runnerOps'
              /\ Cardinality({r \in Runner : Counted(r, runners', flying, fencedRunners')})
                   + Cardinality(CreatesOf(operations')) <= target'
<1>1. CASE inventoryStale' \/ inventorying(ops)
  BY <1>1 DEF reconcile
<1>2. CASE ~(inventoryStale' \/ inventorying(ops))
  <2> DEFINE D == {r \in Runner \ flying : /\ runners'[r] = "terminal"
                                          /\ keyFor("delete", r) \notin cooling'}
  <2> DEFINE N == keyFor("create", Nobody) \notin cooling'
  <2> DEFINE L == liveCapacity(runners', flying, fencedRunners', ops)
  <2> DEFINE F == {r \in idleRunners(runners', busyRunners', created', generation',
                                     fencedRunners', flying) :
                     keyFor("fence", r) \notin cooling'}
  <2>1. PICK take \in Assignments(ops, D, N, Above(target', L), F, Above(L, target')) :
          Hand(ops, flying, take, generation')
    BY <1>2 DEF reconcile
  <2> DEFINE C == {w \in Takers(ops) : take[w][1] = "create"}
  <2> DEFINE T == {w \in DOMAIN take : take[w] # NoTask}
  <2> DEFINE made == [w \in T |-> NewOp(w, ops, take[w],
                                  IF take[w][1] = "create" THEN generation' ELSE 0)]
  <2>2. DOMAIN take = Takers(ops) /\ Cardinality(C) <= Above(target', L)
    BY DEF Assignments
  <2>3. operations' = ops \cup {made[w] : w \in T}
    BY <2>1 DEF Hand
  <2>4. \A w \in C : w \in T
    BY <2>2 DEF NoTask
  <2>5. ASSUME NEW w \in T PROVE made[w].kind = take[w][1]
    <3>1. FreeSlots(w, ops) # {}
      BY <2>2 DEF Takers
    <3> DEFINE g == IF take[w][1] = "create" THEN generation' ELSE 0
    <3>2. made[w] = NewOp(w, ops, take[w], g)
      OBVIOUS
    <3> HIDE DEF made, T, g
    <3> QED
      BY <3>1, <3>2, NewOpFields
  <2> DEFINE new == [w \in C |-> made[w]]
  <2>6. CreatesOf(operations') = CreatesOf(ops) \cup {new[w] : w \in C}
    <3> HIDE DEF made
    <3>1. \A w \in T : w \in C <=> made[w].kind = "create"
      BY <2>2, <2>5
    <3> HIDE DEF C, T
    <3> QED
      BY <2>3, <2>4, <3>1 DEF CreatesOf
  <2>13. ~inventorying(operations')
    <3>1. take \in [Takers(ops) -> {NoTask} \cup {keyFor("delete", r) : r \in D}
                            \cup (IF N THEN {keyFor("create", Nobody)} ELSE {})
                            \cup {keyFor("fence", r) : r \in F}]
      BY DEF Assignments
    <3> HIDE DEF D, N, F, made
    <3>2. \A w \in T : take[w][1] # "list"
      BY <2>2, <3>1 DEF NoTask, keyFor
    <3> HIDE DEF T
    <3> QED
      BY <1>2, <2>3, <2>5, <3>2 DEF inventorying
  <2>14. flying \subseteq runnerOps'
    BY <2>1 DEF Hand
  <2> DEFINE K == Cardinality({r \in Runner : Counted(r, runners', flying, fencedRunners')})
  <2>7. K \in Nat /\ L = K + Cardinality(CreatesOf(ops))
    BY FiniteAssumption, FS_Subset, FS_CardinalityType DEF liveCapacity
  <2>8. IsFiniteSet(CreatesOf(ops)) /\ IsFiniteSet(C)
    BY WorkerAssumption, FS_Subset DEF CreatesOf, Takers
  <2>9. /\ IsFiniteSet({new[w] : w \in C})
        /\ Cardinality({new[w] : w \in C}) <= Cardinality(C)
    <3> HIDE DEF C, made
    <3> QED
      BY <2>8, ImageSize
  <2> HIDE DEF D, N, L, F, C, T, made, new, K
  <2>10. /\ Cardinality(CreatesOf(ops)) \in Nat /\ Cardinality(C) \in Nat
         /\ Cardinality({new[w] : w \in C}) \in Nat
    BY <2>8, <2>9, FS_CardinalityType
  <2>11. CASE L >= target'
    <3>1. Cardinality(C) = 0
      BY <2>2, <2>7, <2>10, <2>11 DEF Above
    <3>2. C = {}
      BY <2>8, <3>1, FS_EmptySet
    <3> QED
      BY <2>6, <3>2
  <2>12. CASE L < target'
    <3>1. Cardinality({new[w] : w \in C}) <= target' - L
      BY <2>2, <2>7, <2>9, <2>10, <2>12 DEF Above
    <3> DEFINE X == CreatesOf(ops)
    <3> DEFINE Y == {new[w] : w \in C}
    <3>2. /\ Cardinality(X \cup Y) = Cardinality(X) + Cardinality(Y) - Cardinality(X \cap Y)
          /\ IsFiniteSet(X \cap Y)
      <4> HIDE DEF X, Y
      <4>1. IsFiniteSet(X) /\ IsFiniteSet(Y)
        BY <2>8, <2>9 DEF X, Y
      <4> QED
        BY <4>1, FS_Union, FS_Intersection
    <3>3. Cardinality(X \cap Y) \in Nat
      BY <3>2, FS_CardinalityType
    <3>4. Cardinality(CreatesOf(operations')) <= Cardinality(X) + target' - L
      BY <2>6, <2>7, <2>10, <3>1, <3>2, <3>3
    <3>5. Cardinality(CreatesOf(operations')) \in Int
      BY <2>6, <2>10, <3>2, <3>3
    <3>6. K + Cardinality(CreatesOf(operations')) <= target'
      BY <2>7, <2>10, <3>4, <3>5
    <3> QED
      BY <1>2, <2>13, <2>14, <3>6 DEF K
  <2> QED
    BY <2>7, <2>10, <2>11, <2>12
<1> QED
  BY <1>1, <1>2


-----------------------------------------------------------------------------
(* What is contested *)

\* What taking a result does to the runners that do not count.
LEMMA TakeDiscounts ==
    ASSUME TypeOK, AccountInv, TakeResult, NEW res, res = Head(results)
    PROVE  \/ /\ ~res.ok /\ operations' = operations \ {res.op}
              /\ runnerOps' = runnerOps \ {res.op.runner}
              /\ Contest({res.op.runner} \cap Runner)
              /\ UNCHANGED fencedRunners
           \/ /\ res.ok /\ UNCHANGED contested
              /\ reconcile(operations \ {res.op}, runnerOps \ {res.op.runner})
              /\ \/ /\ res.op.kind = "list" /\ ApplyList(res.runners)
                 \/ /\ res.op.kind = "create" /\ ApplyCreate(res.runner, res.op.gen)
                 \/ /\ res.op.kind = "fence" /\ ApplyFence(res.op.runner)
                 \/ /\ res.op.kind = "delete" /\ ApplyDelete(res.op.runner)
<1>1. res.op \in operations
  BY TakeAccounts
<1>2. apply(res.op, res)
  BY <1>1 DEF TakeResult
<1> QED
  BY <1>2 DEF apply, ApplyFailure, ApplySuccess, recordFailure

\* An operation is handed out about a known runner, and only its own result makes
\* the runner unknown.
LEMMA SubjectStep ==
    TypeOK /\ AccountInv /\ NewInv /\ SubjectInv /\ [Next]_vars => SubjectInv'
<1> SUFFICES ASSUME TypeOK, AccountInv, NewInv, SubjectInv, [Next]_vars PROVE SubjectInv'
  OBVIOUS
<1>1. ASSUME UNCHANGED <<operations, runners>> PROVE SubjectInv'
  BY <1>1 DEF SubjectInv
<1>2. CASE QuietMain
  BY <1>1, <1>2, QuietAccounts DEF stateVars
<1>3. CASE Scheduling
  <2>1. Handed(operations)
    BY <1>3, SchedulingAccounts
  <2>2. InitialInventory => operations = {}
    BY DEF InitialInventory, AccountInv
  <2>3. TakeDemand \/ Tick => UNCHANGED runners
    BY DEF TakeDemand, Tick
  <2> QED
    BY <1>3, <2>1, <2>2, <2>3 DEF Scheduling, Handed, SubjectInv
<1>4. CASE TakeResult
  <2>1. PICK res : res = Head(results)
    OBVIOUS
  <2>2. Handed(operations \ {res.op}) /\ res.op \in operations
    BY <1>4, <2>1, TakeAccounts
  <2>3. ASSUME NEW o \in operations, o # res.op, o.runner # Nobody
        PROVE  runners'[o.runner] # "absent"
    <3>1. runners[o.runner] # "absent" /\ o.runner \in Runner
      BY <2>3 DEF SubjectInv, TypeOK, Operation
    <3>2. o.runner # res.op.runner
      BY <2>2, <2>3 DEF AccountInv, Accounted
    <3>3. res.op.kind = "list" => o = res.op
      BY <2>2 DEF AccountInv, ListAlone
    <3>4. \/ UNCHANGED runners
          \/ res.op.kind = "list"
          \/ runners' = [runners EXCEPT ![res.runner] = "provisioning"]
          \/ runners' = [runners EXCEPT ![res.op.runner] = "absent"]
      BY <1>4, <2>1, TakeKnows
    <3> QED
      BY <2>3, <3>1, <3>2, <3>3, <3>4 DEF TypeOK
  <2> QED
    BY <2>2, <2>3 DEF Handed, SubjectInv
<1>5. ASSUME NEW w \in Worker, WorkerStep(w) PROVE SubjectInv'
  BY <1>1, <1>5 DEF WorkerStep, WorkerExits, WorkerLists, WorkerCreates, WorkerFences,
     WorkerDeletes, WorkerSends, Answer, WorkerFrame, stateVars
<1>6. ASSUME NEW k \in cooling, CooldownEnds(k) PROVE SubjectInv'
  BY <1>1, <1>6 DEF CooldownEnds
<1>7. CASE Restart
  BY <1>7 DEF Restart, SubjectInv
<1>8. CASE OpenSession \/ Message \/ Environment \/ UNCHANGED vars
  BY <1>1, <1>8 DEF OpenSession, Message, Environment, SessionFrame, stateVars, vars
<1> QED
  BY <1>2, <1>3, <1>4, <1>5, <1>6, <1>7, <1>8 DEF Next, MainStep, QuietMain, Scheduling

\* How a VM changes that no create has just made.
LEMMA FleetRevives ==
    ASSUME FleetTypeOK, NEW q \in Runner, NEW r \in Runner,
           GuestStep(q) \/ FenceOK(q) \/ FenceFails(q) \/ DeleteOK(q) \/ DeleteFails(q)
    PROVE  vm'[r] \in {"booting", "ready"} => vm[r] \in {"starting", "overdue", "booting", "ready"}
  BY DEF FleetTypeOK, GuestStep, GuestReady, BootstrapExpires, AssignJob, FinishJob,
     GuestExit, ForgetRunner, LateCreate, LateStart, LateDelete, FenceOK, FenceFails,
     DeleteOK, DeleteFails, Set, Up, Owned, fleetVars

\* Contest keeps who is contested and has a VM, and adds who may come up again.
LEMMA ContestKeeps ==
    ASSUME TypeOK, NEW rs \in SUBSET Runner, Contest(rs), NEW r \in Runner
    PROVE  /\ vm'[r] # "absent" /\ r \in contested \cup rs => r \in contested'
           /\ vm'[r] \in {"starting", "overdue"} => r \in contested'
           /\ r \in contested' => r \in contested \cup rs \/ vm'[r] \in {"starting", "overdue"}
           /\ runners[r] # "absent" /\ r \in contested \cup rs => r \in contested'
  BY DEF Contest, MayRevive

\* Steps after which nothing is listed as terminal that was not before.
LEMMA ReviveStutter ==
    ASSUME TypeOK, ReviveInv,
           Answers' \subseteq Answers,
           \A r \in Runner : vm'[r] \in {"starting", "overdue"} => r \in contested',
           \A r \in Runner : vm'[r] # "absent" /\ r \in contested => r \in contested',
           \A r \in Runner : vm'[r] \in {"booting", "ready"} =>
             vm[r] \in {"starting", "overdue", "booting", "ready"},
           \A r \in Runner : runners'[r] = "terminal" =>
             \/ runners[r] = "terminal"
             \/ vm'[r] \notin {"booting", "ready"}
             \/ \E a \in Answers : a.ok /\ a.op.kind = "list" /\ a.runners[r] = "terminal"
    PROVE  ReviveInv'
<1>1. \A r \in Runner : vm'[r] \in {"starting", "overdue"} => r \in contested'
  OBVIOUS
<1>2. ASSUME NEW r \in Runner, vm'[r] \in {"booting", "ready"}, runners'[r] = "terminal"
      PROVE  r \in contested'
  <2>1. vm[r] \in {"starting", "overdue"} => r \in contested
    BY DEF ReviveInv
  <2>2. vm[r] \in {"booting", "ready"} => r \in contested
    BY <1>2 DEF ReviveInv
  <2> QED
    BY <1>2, <2>1, <2>2
<1>3. ASSUME NEW a \in Answers', a.ok, a.op.kind = "list", NEW r \in Runner,
             vm'[r] \in {"booting", "ready"}, a.runners[r] = "terminal"
      PROVE  r \in contested'
  <2>1. vm[r] \in {"starting", "overdue"} => r \in contested
    BY DEF ReviveInv
  <2>2. vm[r] \in {"booting", "ready"} => r \in contested
    BY <1>3 DEF ReviveInv
  <2> QED
    BY <1>3, <2>1, <2>2
<1> QED
  BY <1>1, <1>2, <1>3 DEF ReviveInv


\* A listing reports as terminal what may come up again, and it is contested.
LEMMA ReviveAnswer ==
    ASSUME TypeOK, AccountInv, ReviveInv, NEW w \in Worker, at[w] = "working",
           NEW ok, NEW r, NEW inventory, Answer(w, ok, r, inventory),
           \A q \in Runner : vm'[q] \in {"starting", "overdue"} => q \in contested',
           \A q \in Runner : \/ /\ vm'[q] # "absent" /\ q \in contested => q \in contested'
                                /\ vm'[q] \in {"booting", "ready"} =>
                                     vm[q] \in {"starting", "overdue", "booting", "ready"}
                             \/ FreshName(q),
           ok /\ item[w].kind = "list" => UNCHANGED vm /\ inventory = Snapshot
    PROVE  ReviveInv'
<1>1. /\ Answers' = Answers \cup {[op |-> item[w], ok |-> ok, runner |-> r,
                                   runners |-> inventory]}
      /\ UNCHANGED runners
  BY AnswerAccounts DEF Answer, WorkerFrame, stateVars
<1>2. PICK new : new = [op |-> item[w], ok |-> ok, runner |-> r, runners |-> inventory]
  OBVIOUS
<1>3. new.op = item[w] /\ new.ok = ok /\ new.runners = inventory
  BY <1>2
<1>4. ASSUME NEW q \in Runner, vm'[q] \in {"booting", "ready"},
             \/ runners[q] = "terminal"
             \/ \E a \in Answers : a.ok /\ a.op.kind = "list" /\ a.runners[q] = "terminal"
      PROVE  q \in contested'
  <2>1. ~FreshName(q)
    BY <1>4, FreshAnswers
  <2>2. vm[q] \in {"starting", "overdue", "booting", "ready"}
    BY <1>4, <2>1
  <2>3. q \in contested
    BY <1>4, <2>2 DEF ReviveInv
  <2> QED
    BY <1>4, <2>1, <2>3
<1>5. ASSUME NEW q \in Runner, vm'[q] \in {"booting", "ready"}, new.ok,
             new.op.kind = "list", new.runners[q] = "terminal"
      PROVE  FALSE
  BY <1>3, <1>5 DEF Snapshot
<1>6. ASSUME NEW a \in Answers', a.ok, a.op.kind = "list", NEW q \in Runner,
             vm'[q] \in {"booting", "ready"}, a.runners[q] = "terminal"
      PROVE  q \in contested'
  BY <1>1, <1>2, <1>4, <1>5, <1>6
<1>7. \A q \in Runner : vm'[q] \in {"booting", "ready"} /\ runners'[q] = "terminal" =>
        q \in contested'
  BY <1>1, <1>4
<1> QED
  BY <1>6, <1>7 DEF ReviveInv

\* ReviveInv holds after every step of a worker.
LEMMA ReviveWorker ==
    ASSUME TypeOK, AccountInv, ReviveInv, NEW w \in Worker, WorkerStep(w) PROVE ReviveInv'
<1>1. CASE WorkerExits(w) \/ WorkerSends(w)
  <2>1. UNCHANGED <<vm, runners, contested>>
    BY <1>1 DEF WorkerExits, WorkerSends, WorkerFrame, stateVars, ghostVars
  <2> QED
    BY <1>1, <2>1, WorkerAccounts, ReviveStutter DEF ReviveInv
<1>2. CASE WorkerLists(w)
  <2>1. at[w] = "working" /\ UNCHANGED <<vm, contested>>
    BY <1>2 DEF WorkerLists, Executing
  <2>2. \/ Answer(w, TRUE, Nobody, Snapshot) \/ Answer(w, FALSE, Nobody, Nothing)
    BY <1>2 DEF WorkerLists
  <2>3. \A q \in Runner : vm'[q] \in {"starting", "overdue"} => q \in contested'
    BY <2>1 DEF ReviveInv
  <2>4. \A q \in Runner : /\ vm'[q] # "absent" /\ q \in contested => q \in contested'
                          /\ vm'[q] \in {"booting", "ready"} =>
                               vm[q] \in {"starting", "overdue", "booting", "ready"}
    BY <2>1
  <2> QED
    BY <2>1, <2>2, <2>3, <2>4, ReviveAnswer
<1>3. CASE WorkerCreates(w)
  <2>1. at[w] = "working" /\ item[w].kind = "create"
    BY <1>3 DEF WorkerCreates, Executing
  <2>2. ASSUME NEW r \in Runner, NEW ok \in BOOLEAN, FreshName(r),
               CreateOK(r) \/ CreateFails(r), Answer(w, ok, r, Nothing),
               contested' = (contested \ {r}) \cup MayRevive
        PROVE  ReviveInv'
    <3>1. \A q \in Runner : vm'[q] \in {"starting", "overdue"} => q \in contested'
      BY <2>2 DEF MayRevive
    <3>2. \A q \in Runner \ {r} : vm'[q] = vm[q] /\ (q \in contested => q \in contested')
      BY <2>2 DEF CreateOK, CreateFails, Set, TypeOK, FleetTypeOK
    <3> QED
      BY <2>1, <2>2, <3>1, <3>2, ReviveAnswer
  <2>3. ASSUME UNCHANGED <<vm, contested>>, Answer(w, FALSE, Nobody, Nothing)
        PROVE  ReviveInv'
    <3>1. \A q \in Runner : vm'[q] \in {"starting", "overdue"} => q \in contested'
      BY <2>3 DEF ReviveInv
    <3>2. \A q \in Runner : /\ vm'[q] # "absent" /\ q \in contested => q \in contested'
                            /\ vm'[q] \in {"booting", "ready"} =>
                                 vm[q] \in {"starting", "overdue", "booting", "ready"}
      BY <2>3
    <3> QED
      BY <2>1, <2>3, <3>1, <3>2, ReviveAnswer
  <2> QED
    BY <1>3, <2>2, <2>3 DEF WorkerCreates
<1>4. CASE WorkerFences(w)
  <2>1. PICK r : r = item[w].runner
    OBVIOUS
  <2>2. at[w] = "working" /\ item[w].kind = "fence" /\ r \in Runner
    BY <1>4, <2>1 DEF WorkerFences, Executing, TypeOK, Operation, Task
  <2>3. FenceOK(r) \/ FenceFails(r)
    BY <1>4, <2>1 DEF WorkerFences
  <2>4. UNCHANGED <<vm, contested>>
    BY <1>4, <2>2, <2>3 DEF WorkerFences, FenceOK, FenceFails, Set, fleetVars, TypeOK,
       FleetTypeOK
  <2>5. PICK ok \in BOOLEAN : Answer(w, ok, r, Nothing)
    BY <1>4, <2>1 DEF WorkerFences
  <2>6. \A q \in Runner : vm'[q] \in {"starting", "overdue"} => q \in contested'
    BY <2>4 DEF ReviveInv
  <2>7. \A q \in Runner : /\ vm'[q] # "absent" /\ q \in contested => q \in contested'
                          /\ vm'[q] \in {"booting", "ready"} =>
                               vm[q] \in {"starting", "overdue", "booting", "ready"}
    BY <2>4
  <2> QED
    BY <2>2, <2>5, <2>6, <2>7, ReviveAnswer
<1>5. CASE WorkerDeletes(w)
  <2>1. PICK r : r = item[w].runner
    OBVIOUS
  <2>2. at[w] = "working" /\ item[w].kind = "delete" /\ r \in Runner /\ Contest({})
    BY <1>5, <2>1 DEF WorkerDeletes, Executing, TypeOK, Operation, Task
  <2>3. DeleteOK(r) \/ DeleteFails(r)
    BY <1>5, <2>1 DEF WorkerDeletes
  <2>4. PICK ok \in BOOLEAN : Answer(w, ok, r, Nothing)
    BY <1>5, <2>1 DEF WorkerDeletes
  <2>5. \A q \in Runner : vm'[q] \in {"starting", "overdue"} => q \in contested'
    BY <2>2, ContestKeeps
  <2>6. \A q \in Runner : /\ vm'[q] # "absent" /\ q \in contested => q \in contested'
                          /\ vm'[q] \in {"booting", "ready"} =>
                               vm[q] \in {"starting", "overdue", "booting", "ready"}
    BY <2>2, <2>3, ContestKeeps, FleetRevives DEF TypeOK
  <2> QED
    BY <2>2, <2>4, <2>5, <2>6, ReviveAnswer
<1> QED
  BY <1>1, <1>2, <1>3, <1>4, <1>5 DEF WorkerStep

\* ReviveInv is inductive together with the invariants above.
LEMMA ReviveStep ==
    TypeOK /\ AccountInv /\ NewInv /\ ReviveInv /\ [Next]_vars => ReviveInv'
<1> SUFFICES ASSUME TypeOK, AccountInv, NewInv, ReviveInv, [Next]_vars PROVE ReviveInv'
  OBVIOUS
<1>1. ASSUME UNCHANGED <<vm, contested>>, Answers' \subseteq Answers,
             \A r \in Runner : runners'[r] = "terminal" =>
               \/ runners[r] = "terminal"
               \/ vm'[r] \notin {"booting", "ready"}
               \/ \E a \in Answers : a.ok /\ a.op.kind = "list" /\ a.runners[r] = "terminal"
      PROVE  ReviveInv'
  <2>1. \A r \in Runner : vm'[r] \in {"starting", "overdue"} => r \in contested'
    BY <1>1 DEF ReviveInv
  <2>2. \A r \in Runner : vm'[r] # "absent" /\ r \in contested => r \in contested'
    BY <1>1
  <2>3. \A r \in Runner : vm'[r] \in {"booting", "ready"} =>
          vm[r] \in {"starting", "overdue", "booting", "ready"}
    BY <1>1
  <2> QED
    BY <1>1, <2>1, <2>2, <2>3, ReviveStutter
<1>2. CASE QuietMain
  <2>1. UNCHANGED contested
    BY <1>2 DEF QuietMain, InvalidInventory, InventoryCanceled, WorkersDone, HardTimeout,
       StopWork, GraceExpires, Stop, ghostVars
  <2> QED
    BY <1>1, <1>2, <2>1, QuietAccounts DEF stateVars
<1>3. CASE Scheduling
  <2>1. Answers' = Answers
    BY <1>3, SchedulingAccounts
  <2>2. CASE InitialInventory
    <3>1. UNCHANGED <<vm, contested>> /\ runners' = Snapshot
      BY <2>2 DEF InitialInventory, ghostVars
    <3>2. \A r \in Runner : Snapshot[r] = "terminal" => vm[r] \notin {"booting", "ready"}
      BY DEF Snapshot
    <3> QED
      BY <1>1, <2>1, <3>1, <3>2
  <2>3. CASE TakeDemand \/ Tick
    BY <1>1, <2>1, <2>3 DEF TakeDemand, Tick, ghostVars
  <2> QED
    BY <1>3, <2>2, <2>3 DEF Scheduling
<1>4. CASE TakeResult
  <2>1. PICK res : res = Head(results)
    OBVIOUS
  <2>2. Answers' \subseteq Answers /\ res \in Answers /\ res \in Result /\ UNCHANGED vm
    BY <1>4, <2>1, TakeAnswers, TakeKnows
  <2>3. ASSUME NEW r \in Runner, runners'[r] = "terminal"
        PROVE  \/ runners[r] = "terminal"
               \/ res.ok /\ res.op.kind = "list" /\ res.runners[r] = "terminal"
    <3>1. \/ UNCHANGED runners
          \/ res.ok /\ res.op.kind = "list" /\ runners' = res.runners
          \/ runners' = [runners EXCEPT ![res.runner] = "provisioning"]
          \/ runners' = [runners EXCEPT ![res.op.runner] = "absent"]
      BY <1>4, <2>1, TakeKnows
    <3> QED
      BY <2>3, <3>1 DEF TypeOK
  <2>4. CASE UNCHANGED contested
    BY <1>1, <2>2, <2>3, <2>4
  <2>5. CASE ~res.ok /\ Contest({res.op.runner} \cap Runner)
    <3>1. \A r \in Runner : /\ vm'[r] # "absent" /\ r \in contested => r \in contested'
                            /\ vm'[r] \in {"starting", "overdue"} => r \in contested'
      BY <2>5, ContestKeeps
    <3>2. \A r \in Runner : vm'[r] \in {"booting", "ready"} =>
            vm[r] \in {"starting", "overdue", "booting", "ready"}
      BY <2>2
    <3> QED
      BY <2>2, <2>3, <2>5, <3>1, <3>2, ReviveStutter
  <2> QED
    BY <1>4, <2>1, <2>4, <2>5, TakeDiscounts
<1>5. ASSUME NEW w \in Worker, WorkerStep(w) PROVE ReviveInv'
  BY <1>5, ReviveWorker
<1>6. ASSUME UNCHANGED <<vm, contested, runners, at, out, results>> PROVE ReviveInv'
  BY <1>1, <1>6 DEF Answers
<1>7. ASSUME NEW k \in cooling, CooldownEnds(k) PROVE ReviveInv'
  BY <1>6, <1>7 DEF CooldownEnds, workVars, ghostVars
<1>8. CASE Restart
  <2>1. Contest(fencedRunners \cup runnerOps) /\ UNCHANGED vm
    BY <1>8 DEF Restart
  <2>2. fencedRunners \cup runnerOps \in SUBSET Runner
    BY DEF TypeOK
  <2>3. \A r \in Runner : vm'[r] \in {"starting", "overdue"} => r \in contested'
    BY <2>1, <2>2, ContestKeeps
  <2>4. Answers' = {} /\ \A r \in Runner : runners'[r] = "absent"
    BY <1>8 DEF Restart, Answers, Nothing
  <2> QED
    BY <2>3, <2>4 DEF ReviveInv
<1>9. CASE OpenSession \/ Message \/ UNCHANGED vars
  BY <1>6, <1>9 DEF OpenSession, Message, SessionFrame, stateVars, workVars, ghostVars, vars
<1>10. CASE Environment
  <2>1. /\ Contest({}) /\ UNCHANGED <<runners, at, out, results>>
        /\ \E r \in Runner : GuestStep(r)
    BY <1>10 DEF Environment, stateVars, workVars
  <2>2. Answers' = Answers
    BY <2>1 DEF Answers
  <2>3. \A r \in Runner : /\ vm'[r] # "absent" /\ r \in contested => r \in contested'
                          /\ vm'[r] \in {"starting", "overdue"} => r \in contested'
    BY <2>1, ContestKeeps
  <2>4. \A r \in Runner : vm'[r] \in {"booting", "ready"} =>
          vm[r] \in {"starting", "overdue", "booting", "ready"}
    BY <2>1, FleetRevives DEF TypeOK
  <2> QED
    BY <2>1, <2>2, <2>3, <2>4, ReviveStutter
<1> QED
  BY <1>2, <1>3, <1>4, <1>5, <1>7, <1>8, <1>9, <1>10 DEF Next, MainStep, QuietMain, Scheduling


-----------------------------------------------------------------------------
(* The ceiling is kept *)

\* Fewer runners and no more creates.
LEMMA CeilingKept ==
    ASSUME TypeOK, AccountInv, CeilingInv, Charged' \subseteq Charged,
           CreatesOf(operations') \subseteq CreatesOf(operations)
    PROVE  CeilingInv'
<1>1. IsFiniteSet(Charged) /\ IsFiniteSet(CreatesOf(operations))
  BY FiniteAssumption, OperationsFinite, FS_Subset DEF Charged, CreatesOf
<1>2. /\ Cardinality(Charged') <= Cardinality(Charged)
      /\ Cardinality(CreatesOf(operations')) <= Cardinality(CreatesOf(operations))
      /\ IsFiniteSet(Charged') /\ IsFiniteSet(CreatesOf(operations'))
  BY <1>1, FS_Subset
<1>3. /\ Cardinality(Charged) \in Nat /\ Cardinality(CreatesOf(operations)) \in Nat
      /\ Cardinality(Charged') \in Nat /\ Cardinality(CreatesOf(operations')) \in Nat
  BY <1>1, <1>2, FS_CardinalityType
<1> QED
  BY <1>2, <1>3, CapacityAssumption DEF CeilingInv

\* With a fresh inventory and no listing on its way, what is charged is what
\* liveCapacity counts.
LEMMA ChargedCounts ==
    ASSUME TypeOK', AccountInv', KnownInv', ReviveInv', pc' = "select",
           ~inventoryStale', ~inventorying(operations'), NEW r \in Charged'
    PROVE  Counted(r, runners', runnerOps', fencedRunners')
<1>1. r \in Runner /\ Charge(r)'
  BY DEF Charged
<1>2. ~Seen(r)'
  <2>1. \A a \in Answers' : a.op \in operations'
    BY DEF AccountInv, Accounted, Answers
  <2> QED
    BY <2>1 DEF Seen, inventorying
<1>3. Live(r)' => runners'[r] # "absent"
  BY <1>1 DEF KnownInv, Charge
<1>4. vm'[r] \in {"booting", "ready"} => Live(r)'
  BY DEF Live
<1>5. vm'[r] \in {"booting", "ready"} /\ runners'[r] = "terminal" => r \in contested'
  BY <1>1 DEF ReviveInv
<1> QED
  BY <1>1, <1>2, <1>3, <1>4, <1>5 DEF Charge, Counted

\* reconcile keeps below the ceiling what was below it before.
LEMMA CeilingReconciled ==
    ASSUME TypeOK, TypeOK', AccountInv', KnownInv', ReviveInv', pc' = "select",
           NEW ops \in SUBSET Operation, IsFiniteSet(ops), NEW flying \in SUBSET Runner,
           reconcile(ops, flying),
           Cardinality(Charged') + Cardinality(CreatesOf(ops)) <= MaxRunners
    PROVE  CeilingInv'
<1>1. target' \in Nat /\ target' <= MaxRunners /\ MaxRunners \in Nat
  BY CapacityAssumption DEF TypeOK
<1>2. CASE CreatesOf(operations') = CreatesOf(ops)
  BY <1>2 DEF CeilingInv
<1>3. ASSUME ~inventoryStale', ~inventorying(operations'), flying \subseteq runnerOps',
             Cardinality({r \in Runner : Counted(r, runners', flying, fencedRunners')})
               + Cardinality(CreatesOf(operations')) <= target'
      PROVE  CeilingInv'
  <2> DEFINE K == {r \in Runner : Counted(r, runners', flying, fencedRunners')}
  <2>1. \A r \in Charged' : r \in Runner /\ Counted(r, runners', runnerOps', fencedRunners')
    BY <1>3, ChargedCounts DEF Charged
  <2>2. Charged' \subseteq K
    BY <1>3, <2>1 DEF Counted
  <2>3. IsFiniteSet(K)
    BY FiniteAssumption, FS_Subset
  <2> HIDE DEF K
  <2>4. /\ Cardinality(Charged') <= Cardinality(K)
        /\ IsFiniteSet(Charged')
    BY <2>2, <2>3, FS_Subset
  <2>5. /\ Cardinality(Charged') \in Nat /\ Cardinality(K) \in Nat
    BY <2>3, <2>4, FS_CardinalityType
  <2>6. Cardinality(CreatesOf(operations')) \in Nat
    <3>1. IsFiniteSet(operations)'
      BY OperationsFinite, PTL
    <3> QED
      BY <3>1, FS_Subset, FS_CardinalityType DEF CreatesOf
  <2>7. Cardinality(K) + Cardinality(CreatesOf(operations')) <= target'
    BY <1>3 DEF K
  <2> QED
    BY <1>1, <2>4, <2>5, <2>6, <2>7 DEF CeilingInv
<1> QED
  BY <1>1, <1>2, <1>3, ReconcileCreates

\* reconcile forgets no operation in flight.
LEMMA ReconcileFlying ==
    ASSUME NEW ops, NEW flying, reconcile(ops, flying) PROVE flying \subseteq runnerOps'
  BY DEF reconcile, Hand

\* Steps of Run that schedule work and take no result.
LEMMA CeilingScheduling ==
    ASSUME TypeOK, AccountInv, KnownInv, CeilingInv, Scheduling,
           TypeOK', AccountInv', KnownInv', ReviveInv'
    PROVE  CeilingInv'
<1>1. Answers' = Answers /\ pc' = "select"
  BY SchedulingAccounts DEF Scheduling, InitialInventory, TakeDemand, Tick, loopVars
<1>2. IsFiniteSet(operations) /\ operations \in SUBSET Operation /\ runnerOps \in SUBSET Runner
  BY OperationsFinite DEF TypeOK
<1>3. \A r \in Runner : Pending(r)' <=> Pending(r)
  BY <1>1 DEF Pending
<1>4. \A r \in Runner : Seen(r)' <=> Seen(r)
  BY <1>1 DEF Seen
<1>5. ASSUME Charged' \subseteq Charged, reconcile(operations, runnerOps) PROVE CeilingInv'
  <2>1. IsFiniteSet(Charged)
    BY FiniteAssumption, FS_Subset DEF Charged
  <2>2. /\ Cardinality(Charged') <= Cardinality(Charged)
        /\ IsFiniteSet(Charged')
    BY <1>5, <2>1, FS_Subset
  <2>3. /\ Cardinality(Charged') \in Nat /\ Cardinality(Charged) \in Nat
        /\ Cardinality(CreatesOf(operations)) \in Nat
    BY <1>2, <2>1, <2>2, FS_CardinalityType, FS_Subset DEF CreatesOf
  <2>4. Cardinality(Charged') + Cardinality(CreatesOf(operations)) <= MaxRunners
    BY <2>2, <2>3, CapacityAssumption DEF CeilingInv
  <2> QED
    BY <1>1, <1>2, <1>5, <2>4, CeilingReconciled
<1>6. CASE InitialInventory
  <2>1. /\ pc = "inventory" /\ runners' = Snapshot /\ reconcile(operations, runnerOps)
        /\ UNCHANGED <<vm, fencedRunners, contested>>
    BY <1>6 DEF InitialInventory, ghostVars
  <2>2. runnerOps \subseteq runnerOps'
    BY <2>1, ReconcileFlying
  <2>3. Answers = {}
    BY <2>1, AnswerType DEF AccountInv
  <2>4. ASSUME NEW r \in Runner, Charge(r)' PROVE Charge(r)
    <3>1. ~Seen(r)' /\ (Live(r)' <=> Live(r))
      BY <1>4, <2>1, <2>3 DEF Seen, Live
    <3>2. Live(r) => Snapshot[r] # "absent"
      BY ListedLive DEF TypeOK
    <3>3. Snapshot[r] \in {"provisioning", "ready"} => vm[r] \in {"booting", "ready"}
      BY DEF Snapshot
    <3> QED
      BY <1>3, <2>1, <2>2, <2>4, <3>1, <3>2, <3>3 DEF Charge
  <2> QED
    BY <1>5, <2>1, <2>4 DEF Charged
<1>7. CASE TakeDemand \/ Tick
  <2>1. UNCHANGED <<vm, runners, fencedRunners, contested, pc>>
    BY <1>7 DEF TakeDemand, Tick, ghostVars, loopVars
  <2>2. ASSUME runnerOps \subseteq runnerOps' PROVE Charged' \subseteq Charged
    <3>1. ASSUME NEW r \in Runner, Charge(r)' PROVE Charge(r)
      <4>1. Live(r)' <=> Live(r)
        BY <2>1 DEF Live
      <4> QED
        BY <1>3, <1>4, <2>1, <2>2, <3>1, <4>1 DEF Charge
    <3> QED
      BY <3>1 DEF Charged
  <2>3. CASE reconcile(operations, runnerOps)
    BY <1>5, <2>2, <2>3, ReconcileFlying
  <2>4. ASSUME NEW w \in Worker, Refresh(w) PROVE CeilingInv'
    <3>1. runnerOps \subseteq runnerOps'
      BY <2>4 DEF Refresh, Hand
    <3>2. operations = {} /\ FreeSlots(w, {}) # {}
      BY <2>4 DEF Refresh, Takers
    <3>3. \A o \in operations' : o = NewOp(w, {}, keyFor("list", Nobody), 0)
      BY <2>4 DEF Refresh, Hand, keyFor
    <3>4. NewOp(w, {}, keyFor("list", Nobody), 0).kind = "list"
      BY <3>2, NewOpFields DEF keyFor
    <3>5. CreatesOf(operations') \subseteq CreatesOf(operations)
      BY <3>3, <3>4 DEF CreatesOf
    <3> QED
      BY <2>2, <3>1, <3>5, CeilingKept
  <2> QED
    BY <1>7, <2>3, <2>4 DEF TakeDemand, Tick
<1> QED
  BY <1>6, <1>7 DEF Scheduling


\* apply charges nobody anew but the runner of the create it takes the result of.
LEMMA TakeCharges ==
    ASSUME TypeOK, AccountInv, NewInv, KnownInv, SubjectInv, TakeResult,
           NEW res, res = Head(results), NEW r \in Runner, Charge(r)',
           res.op.kind = "create" => r # res.runner
    PROVE  Charge(r)
<1>1. /\ res \in Answers /\ res \in Result /\ res.op \in operations /\ res.op \in Operation
      /\ UNCHANGED <<vm, pc>> /\ pc = "select"
  BY TakeKnows, AnswerType DEF TakeResult
<1>2. /\ Answers' \subseteq Answers
      /\ Answers \subseteq Answers' \cup {res}
      /\ \A a \in Answers' : a.op # res.op
  BY TakeAnswers
<1>3. \A a \in Answers : a.op \in operations
  BY AnswerType
<1>4. ~Seen(r)'
  BY <1>1, <1>2, <1>3 DEF Seen, AccountInv, ListAlone
<1>5. Pending(r) => Pending(r)'
  BY <1>2 DEF Pending
<1>6. Live(r)' <=> Live(r)
  BY <1>1 DEF Live
<1>7. vm[r] \in {"booting", "ready"} => Live(r) /\ vm[r] # "absent"
  BY DEF Live
<1>8. CASE /\ ~res.ok /\ runnerOps' = runnerOps \ {res.op.runner}
           /\ Contest({res.op.runner} \cap Runner)
           /\ UNCHANGED fencedRunners
  <2>1. UNCHANGED runners
    BY <1>8, TakeKnows
  <2>2. /\ vm'[r] # "absent" /\ r \in contested => r \in contested'
        /\ runners[r] # "absent" /\ r \in contested \cup ({res.op.runner} \cap Runner) =>
             r \in contested'
    BY <1>8, ContestKeeps
  <2>3. r # res.op.runner
    <3>1. r = res.op.runner => runners[r] # "absent"
      BY <1>1, RunnerAssumption DEF SubjectInv
    <3> QED
      BY <1>4, <2>1, <2>2, <3>1 DEF Charge
  <2> QED
    BY <1>1, <1>4, <1>5, <1>6, <1>7, <1>8, <2>1, <2>2, <2>3 DEF Charge
<1>9. ASSUME res.ok, UNCHANGED contested, runnerOps \ {res.op.runner} \subseteq runnerOps'
      PROVE  Charge(r) \/ ~( \/ res.op.kind = "list" /\ ApplyList(res.runners)
                             \/ res.op.kind = "create" /\ ApplyCreate(res.runner, res.op.gen)
                             \/ res.op.kind = "fence" /\ ApplyFence(res.op.runner)
                             \/ res.op.kind = "delete" /\ ApplyDelete(res.op.runner))
  <2>1. CASE res.op.kind = "list" /\ ApplyList(res.runners)
    <3>1. ~Pending(r)
      BY <1>1, <1>3, <2>1 DEF Pending, AccountInv, ListAlone
    <3>2. r \notin runnerOps
      <4>1. r \in runnerOps => \E o \in operations : o.runner = r
        BY DEF AccountInv, Accounted
      <4>2. \A o \in operations : o = res.op
        BY <1>1, <2>1 DEF AccountInv, ListAlone
      <4>3. res.op.runner = Nobody
        BY <1>1, <2>1 DEF Operation, Task
      <4> QED
        BY <4>1, <4>2, <4>3, RunnerAssumption
    <3>3. Live(r) => res.runners[r] # "absent"
      BY <1>1, <1>9, <2>1 DEF KnownInv
    <3>4. runners' = res.runners /\ fencedRunners' = {q \in fencedRunners : res.runners[q] # "absent"}
      BY <2>1 DEF ApplyList
    <3>5. res.runners[r] \in {"provisioning", "ready"} => Seen(r)
      BY <1>1, <1>9, <2>1 DEF Seen
    <3> QED
      BY <1>1, <1>4, <1>6, <1>7, <1>9, <3>1, <3>2, <3>3, <3>4, <3>5 DEF Charge
  <2>2. CASE res.op.kind = "create" /\ ApplyCreate(res.runner, res.op.gen)
    <3>1. res.op.runner = Nobody
      BY <1>1, <2>2 DEF Operation, Task
    <3>2. runners'[r] = runners[r] /\ UNCHANGED fencedRunners
      BY <2>2 DEF ApplyCreate, TypeOK
    <3> QED
      BY <1>1, <1>4, <1>5, <1>6, <1>9, <2>2, <3>1, <3>2, RunnerAssumption DEF Charge
  <2>3. CASE res.op.kind = "fence" /\ ApplyFence(res.op.runner)
    BY <1>1, <1>4, <1>5, <1>6, <1>9, <2>3 DEF ApplyFence, Charge
  <2>4. CASE res.op.kind = "delete" /\ ApplyDelete(res.op.runner)
    <3>1. r = res.op.runner => ~Live(r) /\ runners'[r] = "absent"
      BY <1>1, <1>9, <2>4 DEF KnownInv, ApplyDelete, TypeOK
    <3>2. r # res.op.runner
      BY <1>1, <1>4, <1>6, <1>7, <3>1 DEF Charge
    <3>3. runners'[r] = runners[r] /\ fencedRunners' = fencedRunners \ {res.op.runner}
      BY <2>4, <3>2 DEF ApplyDelete, TypeOK
    <3> QED
      BY <1>1, <1>4, <1>5, <1>6, <1>9, <2>4, <3>2, <3>3 DEF Charge
  <2> QED
    BY <2>1, <2>2, <2>3, <2>4
<1> QED
  BY <1>8, <1>9, TakeDiscounts, ReconcileFlying

\* A runner may take the place of the create that made it.
LEMMA TakeCounts ==
    ASSUME TypeOK, AccountInv, NewInv, KnownInv, SubjectInv, CeilingInv, TakeResult,
           NEW res, res = Head(results)
    PROVE  /\ res.op \in operations
           /\ Cardinality(Charged') + Cardinality(CreatesOf(operations \ {res.op})) <= MaxRunners
<1>1. res.op \in operations
  BY TakeAccounts
<1>2. \A r \in Charged' : r \in Charged \/ (res.op.kind = "create" /\ r = res.runner)
  BY TakeCharges DEF Charged
<1> DEFINE K == CreatesOf(operations)
<1>3. IsFiniteSet(Charged) /\ IsFiniteSet(K)
  BY FiniteAssumption, OperationsFinite, FS_Subset DEF Charged, CreatesOf
<1>4. Cardinality(Charged) \in Nat /\ Cardinality(K) \in Nat
  BY <1>3, FS_CardinalityType
<1>5. Cardinality(Charged) + Cardinality(K) <= MaxRunners
  BY DEF CeilingInv
<1>6. CASE res.op.kind = "create"
  <2>1. CreatesOf(operations \ {res.op}) = K \ {res.op} /\ res.op \in K
    BY <1>1, <1>6 DEF CreatesOf
  <2> HIDE DEF K
  <2>2. Cardinality(K \ {res.op}) = Cardinality(K) - 1
    BY <1>3, <2>1, FS_RemoveElement
  <2>3. /\ IsFiniteSet(Charged \cup {res.runner})
        /\ Cardinality(Charged \cup {res.runner}) \in Nat
        /\ Cardinality(Charged \cup {res.runner}) <= Cardinality(Charged) + 1
    BY <1>3, <1>4, FS_AddElement, FS_CardinalityType
  <2>4. Charged' \subseteq Charged \cup {res.runner}
    BY <1>2
  <2>5. /\ Cardinality(Charged') <= Cardinality(Charged \cup {res.runner})
        /\ IsFiniteSet(Charged')
    BY <2>3, <2>4, FS_Subset
  <2>6. Cardinality(Charged') \in Nat
    BY <2>5, FS_CardinalityType
  <2>7. Cardinality(Charged') + Cardinality(K \ {res.op}) <= MaxRunners
    BY <1>4, <1>5, <2>2, <2>3, <2>5, <2>6, CapacityAssumption
  <2> QED
    BY <1>1, <2>1, <2>7
<1>7. CASE res.op.kind # "create"
  <2>1. CreatesOf(operations \ {res.op}) = K
    BY <1>1, <1>7 DEF CreatesOf
  <2> HIDE DEF K
  <2>2. Charged' \subseteq Charged
    BY <1>2, <1>7
  <2>3. Cardinality(Charged') <= Cardinality(Charged) /\ IsFiniteSet(Charged')
    BY <1>3, <2>2, FS_Subset
  <2>4. Cardinality(Charged') \in Nat
    BY <2>3, FS_CardinalityType
  <2> QED
    BY <1>1, <1>4, <1>5, <2>1, <2>3, <2>4, CapacityAssumption
<1> QED
  BY <1>6, <1>7

\* A result is taken: the ceiling holds for what apply leaves, then reconcile
\* keeps it.
LEMMA CeilingTake ==
    ASSUME TypeOK, AccountInv, NewInv, KnownInv, SubjectInv, CeilingInv, TakeResult,
           TypeOK', AccountInv', KnownInv', ReviveInv'
    PROVE  CeilingInv'
<1>1. PICK res : res = Head(results)
  OBVIOUS
<1>2. /\ res.op \in operations
      /\ Cardinality(Charged') + Cardinality(CreatesOf(operations \ {res.op})) <= MaxRunners
  BY <1>1, TakeCounts
<1>3. CASE operations' = operations \ {res.op}
  BY <1>2, <1>3 DEF CeilingInv
<1>4. CASE reconcile(operations \ {res.op}, runnerOps \ {res.op.runner})
  <2>1. operations \ {res.op} \in SUBSET Operation /\ runnerOps \ {res.op.runner} \in SUBSET Runner
    BY DEF TypeOK
  <2>2. IsFiniteSet(operations \ {res.op})
    BY OperationsFinite, FS_RemoveElement
  <2>3. pc' = "select"
    BY DEF TakeResult, loopVars
  <2> QED
    BY <1>2, <1>4, <2>1, <2>2, <2>3, CeilingReconciled
<1> QED
  BY <1>1, <1>3, <1>4, TakeDiscounts


\* A backend call returns: a create has charged its runner before, and nobody
\* else is charged anew.
LEMMA ChargeAnswer ==
    ASSUME TypeOK, AccountInv, NEW w \in Worker, at[w] = "working",
           NEW ok, NEW r, NEW inventory, Answer(w, ok, r, inventory),
           \A q \in Runner :
             \/ item[w].kind = "create" /\ q = r
             \/ q \in runnerOps
             \/ /\ vm'[q] = vm[q]
                /\ \/ q \in contested => q \in contested'
                   \/ /\ item[w].kind # "list"
                      /\ vm'[q] = "absent" /\ runners[q] = "absent",
           ok /\ item[w].kind = "list" => inventory = Snapshot
    PROVE  Charged' \subseteq Charged
<1>1. UNCHANGED <<runners, operations, runnerOps, fencedRunners, pc>>
  BY DEF Answer, WorkerFrame, stateVars, loopVars
<1>2. PICK new : new = [op |-> item[w], ok |-> ok, runner |-> r, runners |-> inventory]
  OBVIOUS
<1>3. new.op = item[w] /\ new.ok = ok /\ new.runners = inventory /\ new.runner = r
  BY <1>2
<1>4. Answers' = Answers \cup {new} /\ item[w] \in operations
  BY <1>2, AnswerAccounts
<1>5. \A a \in Answers : a.op \in operations
  BY AnswerType
<1>6. ASSUME NEW q \in Runner, Charge(q)' PROVE Charge(q)
  <2>1. Pending(q) => Pending(q)'
    BY <1>4 DEF Pending
  <2>2. ~(item[w].kind = "create" /\ q = r)
    BY <1>3, <1>4, <1>6 DEF Pending, Charge
  <2>3. q \notin runnerOps
    BY <1>1, <1>6 DEF Charge
  <2>4. vm'[q] = vm[q] /\ (Live(q)' <=> Live(q))
    BY <2>2, <2>3 DEF Live
  <2>5. Seen(q)' => Seen(q) \/ vm[q] \in {"booting", "ready"}
    <3>1. Snapshot[q] \in {"provisioning", "ready"} => vm[q] \in {"booting", "ready"}
      BY DEF Snapshot
    <3> QED
      BY <1>3, <1>4, <3>1 DEF Seen
  <2>6. Seen(q)' => item[w].kind = "list"
    BY <1>3, <1>4, <1>5 DEF Seen, AccountInv, ListAlone
  <2>7. vm[q] \in {"booting", "ready"} => Live(q)
    BY DEF Live
  <2>8. \/ q \in contested => q \in contested'
        \/ ~Seen(q)' /\ vm'[q] = "absent" /\ runners[q] = "absent"
    BY <2>2, <2>3, <2>6
  <2> QED
    BY <1>1, <1>6, <2>1, <2>4, <2>5, <2>7, <2>8 DEF Charge, Live
<1> QED
  BY <1>6 DEF Charged

\* The ceiling holds after every step of a worker.
LEMMA CeilingWorker ==
    ASSUME TypeOK, AccountInv, CeilingInv, NEW w \in Worker, WorkerStep(w) PROVE CeilingInv'
<1>0. UNCHANGED <<runners, operations, runnerOps, fencedRunners, pc>>
  BY DEF WorkerStep, WorkerExits, WorkerLists, WorkerCreates, WorkerFences,
     WorkerDeletes, WorkerSends, Answer, WorkerFrame, stateVars, loopVars
<1> SUFFICES Charged' \subseteq Charged
  BY <1>0, CeilingKept
<1>1. CASE WorkerExits(w) \/ WorkerSends(w)
  <2>1. UNCHANGED <<vm, contested>> /\ Answers' = Answers
    BY <1>1, WorkerAccounts DEF WorkerExits, WorkerSends, ghostVars
  <2> QED
    BY <1>0, <2>1 DEF Charged, Charge, Pending, Seen, Live
<1>2. CASE WorkerLists(w)
  <2>1. at[w] = "working" /\ UNCHANGED <<vm, contested>>
    BY <1>2 DEF WorkerLists, Executing
  <2>2. Answer(w, TRUE, Nobody, Snapshot) \/ Answer(w, FALSE, Nobody, Nothing)
    BY <1>2 DEF WorkerLists
  <2>3. \A q \in Runner : vm'[q] = vm[q] /\ (q \in contested => q \in contested')
    BY <2>1
  <2> QED
    BY <2>1, <2>2, <2>3, ChargeAnswer
<1>3. CASE WorkerCreates(w)
  <2>1. at[w] = "working" /\ item[w].kind = "create"
    BY <1>3 DEF WorkerCreates, Executing
  <2>2. ASSUME NEW r \in Runner, NEW ok \in BOOLEAN,
               CreateOK(r) \/ CreateFails(r), Answer(w, ok, r, Nothing),
               contested' = (contested \ {r}) \cup MayRevive
        PROVE  Charged' \subseteq Charged
    <3>1. \A q \in Runner \ {r} : vm'[q] = vm[q] /\ (q \in contested => q \in contested')
      BY <2>2 DEF CreateOK, CreateFails, Set, TypeOK, FleetTypeOK
    <3> QED
      BY <2>1, <2>2, <3>1, ChargeAnswer
  <2>3. ASSUME UNCHANGED <<vm, contested>>, Answer(w, FALSE, Nobody, Nothing)
        PROVE  Charged' \subseteq Charged
    BY <2>1, <2>3, ChargeAnswer
  <2> QED
    BY <1>3, <2>2, <2>3 DEF WorkerCreates
<1>4. CASE WorkerFences(w) \/ WorkerDeletes(w)
  <2>1. PICK r : r = item[w].runner
    OBVIOUS
  <2>2. at[w] = "working" /\ item[w].kind \in {"fence", "delete"} /\ r \in Runner
    BY <1>4, <2>1 DEF WorkerFences, WorkerDeletes, Executing, TypeOK, Operation, Task
  <2>3. PICK ok \in BOOLEAN : Answer(w, ok, r, Nothing)
    BY <1>4, <2>1 DEF WorkerFences, WorkerDeletes
  <2>4. r \in runnerOps
    BY <2>1, <2>2, RunnerAssumption DEF AccountInv, Accounted
  <2>5. \A q \in Runner \ {r} : vm'[q] = vm[q]
    <3>1. FenceOK(r) \/ FenceFails(r) \/ DeleteOK(r) \/ DeleteFails(r)
      BY <1>4, <2>1 DEF WorkerFences, WorkerDeletes
    <3> QED
      BY <3>1 DEF FenceOK, FenceFails, DeleteOK, DeleteFails, Set, fleetVars, TypeOK,
         FleetTypeOK
  <2>6. UNCHANGED contested \/ Contest({})
    BY <1>4 DEF WorkerFences, WorkerDeletes
  <2>7. \A q \in Runner : \/ q \in contested => q \in contested'
                          \/ vm'[q] = "absent" /\ runners[q] = "absent"
    BY <2>6, ContestKeeps
  <2> QED
    BY <2>2, <2>3, <2>4, <2>5, <2>7, ChargeAnswer
<1> QED
  BY <1>1, <1>2, <1>3, <1>4 DEF WorkerStep

\* What the fleet does by itself charges nobody anew.
LEMMA CeilingEnvironment ==
    ASSUME TypeOK, AccountInv, ReviveInv, CeilingInv, Environment PROVE CeilingInv'
<1>1. /\ UNCHANGED <<runners, operations, runnerOps, fencedRunners, pc, at, out, results>>
      /\ Contest({}) /\ \E q \in Runner : GuestStep(q)
  BY DEF Environment, stateVars, workVars, loopVars
<1>2. Answers' = Answers
  BY <1>1 DEF Answers
<1>3. ASSUME NEW r \in Runner, Charge(r)' PROVE Charge(r)
  <2>1. (Pending(r)' <=> Pending(r)) /\ (Seen(r)' <=> Seen(r))
    BY <1>2 DEF Pending, Seen
  <2>2. Live(r)' => Live(r)
    BY <1>1, GuestLives DEF TypeOK
  <2>3. vm'[r] \in {"booting", "ready"} =>
          vm[r] \in {"starting", "overdue", "booting", "ready"} /\ vm'[r] # "absent"
    BY <1>1, FleetRevives DEF TypeOK
  <2>4. vm[r] \in {"starting", "overdue"} => r \in contested
    BY DEF ReviveInv
  <2>5. /\ vm'[r] # "absent" /\ r \in contested => r \in contested'
        /\ runners[r] # "absent" /\ r \in contested => r \in contested'
    BY <1>1, ContestKeeps
  <2> QED
    BY <1>1, <1>3, <2>1, <2>2, <2>3, <2>4, <2>5 DEF Charge
<1>4. Charged' \subseteq Charged
  BY <1>3 DEF Charged
<1> QED
  BY <1>1, <1>4, CeilingKept

\* A restart finds what counted, and what a create in flight has made.
LEMMA CeilingRestart ==
    ASSUME TypeOK, AccountInv, NewInv, CeilingInv, Restart PROVE CeilingInv'
<1> DEFINE P == {r \in Runner : Pending(r)}
<1> DEFINE K == CreatesOf(operations)
<1>1. /\ Contest(fencedRunners \cup runnerOps) /\ UNCHANGED vm /\ pc' = "inventory"
      /\ operations' = {} /\ fencedRunners \cup runnerOps \in SUBSET Runner
      /\ \A r \in Runner : runners'[r] = "absent"
  BY DEF Restart, TypeOK, Nothing
<1>2. ASSUME NEW r \in Runner, Charge(r)', ~Pending(r) PROVE Charge(r)
  <2>1. vm'[r] # "absent" /\ r \in contested \cup (fencedRunners \cup runnerOps) =>
          r \in contested'
    BY <1>1, ContestKeeps
  <2>2. r \notin contested' /\ vm'[r] \in {"booting", "ready"}
    BY <1>1, <1>2 DEF Charge
  <2> QED
    BY <1>1, <1>2, <2>1, <2>2 DEF Charge
<1>3. Charged' \subseteq Charged \cup P
  BY <1>2 DEF Charged
<1>4. IsFiniteSet(Charged) /\ IsFiniteSet(K) /\ IsFiniteSet(P)
  BY FiniteAssumption, OperationsFinite, FS_Subset DEF Charged, CreatesOf
<1>5. Cardinality(P) <= Cardinality(K)
  BY PendingCreates
<1>6. Cardinality(Charged) + Cardinality(K) <= MaxRunners
  BY DEF CeilingInv
<1>7. Cardinality(CreatesOf(operations')) = 0
  BY <1>1, FS_EmptySet DEF CreatesOf
<1> HIDE DEF P, K
<1>8. /\ Cardinality(Charged \cup P)
           = Cardinality(Charged) + Cardinality(P) - Cardinality(Charged \cap P)
      /\ IsFiniteSet(Charged \cup P) /\ IsFiniteSet(Charged \cap P)
  BY <1>4, FS_Union, FS_Intersection
<1>9. Cardinality(Charged') <= Cardinality(Charged \cup P) /\ IsFiniteSet(Charged')
  BY <1>3, <1>8, FS_Subset
<1>10. /\ Cardinality(Charged) \in Nat /\ Cardinality(K) \in Nat /\ Cardinality(P) \in Nat
       /\ Cardinality(Charged \cap P) \in Nat /\ Cardinality(Charged') \in Nat
  BY <1>4, <1>8, <1>9, FS_CardinalityType
<1> QED
  BY <1>5, <1>6, <1>7, <1>8, <1>9, <1>10, CapacityAssumption DEF CeilingInv

\* What CeilingInv needs to be inductive.
CeilingContext == TypeOK /\ AccountInv /\ NewInv /\ KnownInv /\ SubjectInv /\ ReviveInv

\* CeilingInv is inductive together with the invariants above.
LEMMA CeilingStep ==
    CeilingContext /\ CeilingContext' /\ CeilingInv /\ [Next]_vars => CeilingInv'
<1> SUFFICES ASSUME CeilingContext, CeilingContext', CeilingInv, [Next]_vars PROVE CeilingInv'
  OBVIOUS
<1>0. /\ TypeOK /\ AccountInv /\ NewInv /\ KnownInv /\ SubjectInv /\ ReviveInv
      /\ TypeOK' /\ AccountInv' /\ KnownInv' /\ ReviveInv'
  BY DEF CeilingContext
<1>1. ASSUME UNCHANGED <<vm, runners, operations, runnerOps, fencedRunners, contested>>,
             Answers' = Answers, pc' = pc \/ pc' # "select"
      PROVE  CeilingInv'
  <2>1. Charged' \subseteq Charged
    BY <1>1 DEF Charged, Charge, Pending, Seen, Live
  <2> QED
    BY <1>0, <1>1, <2>1, CeilingKept
<1>2. CASE QuietMain
  <2>1. UNCHANGED contested
    BY <1>2 DEF QuietMain, InvalidInventory, InventoryCanceled, WorkersDone, HardTimeout,
       StopWork, GraceExpires, Stop, ghostVars
  <2> QED
    BY <1>0, <1>1, <1>2, <2>1, QuietAccounts DEF stateVars
<1>3. CASE Scheduling
  BY <1>0, <1>3, CeilingScheduling
<1>4. CASE TakeResult
  BY <1>0, <1>4, CeilingTake
<1>5. ASSUME NEW w \in Worker, WorkerStep(w) PROVE CeilingInv'
  BY <1>0, <1>5, CeilingWorker
<1>6. ASSUME UNCHANGED <<vm, runners, operations, runnerOps, fencedRunners, contested, at,
                         out, results, pc>>
      PROVE  CeilingInv'
  BY <1>1, <1>6 DEF Answers
<1>7. ASSUME NEW k \in cooling, CooldownEnds(k) PROVE CeilingInv'
  BY <1>6, <1>7 DEF CooldownEnds, workVars, loopVars, ghostVars
<1>8. CASE Restart
  BY <1>0, <1>8, CeilingRestart
<1>9. CASE OpenSession \/ Message \/ UNCHANGED vars
  BY <1>6, <1>9 DEF OpenSession, Message, SessionFrame, stateVars, workVars, loopVars,
     ghostVars, vars
<1>10. CASE Environment
  BY <1>0, <1>10, CeilingEnvironment
<1> QED
  BY <1>2, <1>3, <1>4, <1>5, <1>7, <1>8, <1>9, <1>10 DEF Next, MainStep, QuietMain, Scheduling

(***************************************************************************)
(* Counted runners and creates in flight never exceed MaxRunners but by    *)
(* contested runners, for any number of workers, whatever fails, however   *)
(* late results are applied and whenever the process is started again: a   *)
(* runner is charged without a gap, first as a create in flight, then as   *)
(* known, and a listing on its way brings nobody that is not charged.      *)
(***************************************************************************)
THEOREM CeilingKeptUp == Spec => []CeilingUpToContested
<1>1. ASSUME TypeOK, AccountInv, NewInv, CeilingInv PROVE CeilingUpToContested
  <2> DEFINE C == {r \in Runner \ contested : Counted(r, runners, runnerOps, fencedRunners)}
  <2> DEFINE K == CreatesOf(operations)
  <2>1. ASSUME NEW r \in C PROVE r \in Charged
    <3>1. runners[r] \in {"provisioning", "ready"}
      BY <1>1 DEF Counted, TypeOK, KnownState, RunnerState
    <3>2. ~Pending(r)
      BY <1>1, <3>1, RunnerAssumption DEF Pending, NewInv
    <3> QED
      BY <3>1, <3>2 DEF Counted, Charged, Charge
  <2>2. IsFiniteSet(Charged) /\ IsFiniteSet(K)
    BY <1>1, FiniteAssumption, OperationsFinite, FS_Subset DEF Charged, CreatesOf
  <2>3. Cardinality(Charged) + Cardinality(K) <= MaxRunners
    BY <1>1 DEF CeilingInv
  <2> HIDE DEF C, K
  <2>4. Cardinality(C) <= Cardinality(Charged) /\ IsFiniteSet(C)
    BY <2>1, <2>2, FS_Subset
  <2>5. /\ Cardinality(C) \in Nat /\ Cardinality(Charged) \in Nat
        /\ Cardinality(K) \in Nat
    BY <2>2, <2>4, FS_CardinalityType
  <2>6. Cardinality(C) + Cardinality(K) <= MaxRunners
    BY <2>3, <2>4, <2>5, CapacityAssumption
  <2> QED
    BY <2>6 DEF C, K, CeilingUpToContested
<1>2. ASSUME Init PROVE KnownInv /\ SubjectInv /\ ReviveInv /\ CeilingInv
  <2>1. /\ Answers = {} /\ operations = {} /\ pc = "inventory"
        /\ \A r \in Runner : vm[r] = "absent" /\ runners[r] = "absent"
    BY <1>2 DEF Init, FleetInit, Nothing, Answers
  <2>2. Charged = {} /\ CreatesOf(operations) = {}
    BY <2>1 DEF Charged, Charge, CreatesOf
  <2>3. CeilingInv
    BY <2>2, FS_EmptySet, CapacityAssumption DEF CeilingInv
  <2> QED
    BY <2>1, <2>3 DEF KnownInv, SubjectInv, ReviveInv
<1> QED
  BY <1>1, <1>2, TypeCorrect, AccountInvariant, NewInvariant, KnownStep, SubjectStep,
     ReviveStep, CeilingStep, PTL DEF Spec, CeilingContext

-----------------------------------------------------------------------------
(* What a step of the reconciler never does *)

\* A fence that reconcile hands out is of a runner idleRunner selects.
LEMMA ReconcileFences ==
    ASSUME NEW ops, NEW flying, reconcile(ops, flying),
           NEW o \in operations' \ ops, o.kind = "fence"
    PROVE  o.runner \in idleRunners(runners', busyRunners', created', generation',
                                    fencedRunners', flying)
<1> DEFINE I == idleRunners(runners', busyRunners', created', generation', fencedRunners',
                            flying)
<1>1. ~(inventoryStale' \/ inventorying(ops))
  BY DEF reconcile
<1> DEFINE D == {r \in Runner \ flying : /\ runners'[r] = "terminal"
                                        /\ keyFor("delete", r) \notin cooling'}
<1> DEFINE N == keyFor("create", Nobody) \notin cooling'
<1> DEFINE L == liveCapacity(runners', flying, fencedRunners', ops)
<1> DEFINE F == {r \in I : keyFor("fence", r) \notin cooling'}
<1>2. PICK take \in Assignments(ops, D, N, Above(target', L), F, Above(L, target')) :
        Hand(ops, flying, take, generation')
  BY <1>1 DEF reconcile
<1>3. take \in [Takers(ops) -> {NoTask} \cup {keyFor("delete", r) : r \in D}
                          \cup (IF N THEN {keyFor("create", Nobody)} ELSE {})
                          \cup {keyFor("fence", r) : r \in F}]
  BY DEF Assignments
<1>4. \A r \in F : r \in I
  OBVIOUS
<1> HIDE DEF I, D, N, L, F
<1>5. PICK w \in Takers(ops) :
        \E g : o = NewOp(w, ops, take[w], g)
  BY <1>2, <1>3 DEF Hand
<1>6. PICK g : o = NewOp(w, ops, take[w], g)
  BY <1>5
<1>7. FreeSlots(w, ops) # {}
  BY DEF Takers
<1>8. take[w][1] = "fence" /\ take[w][2] = o.runner
  BY <1>6 DEF NewOp
<1>9. \E r \in F : take[w] = <<"fence", r>>
  BY <1>3, <1>8 DEF NoTask, keyFor
<1> QED
  BY <1>4, <1>8, <1>9 DEF I

(***************************************************************************)
(* A runner is fenced for scale-down only if no job of its had been        *)
(* announced when the demand in force was published.  ScaleDownAuthority   *)
(* speaks of the states between the steps; here it is the state in the     *)
(* middle of a step, when idleRunner looks.                                *)
(***************************************************************************)
FencesAuthorised ==
    [][\A o \in operations' \ operations : o.kind = "fence" => o.runner \notin toldAt']_vars

\* Only the loop hands out fences, and to whom idleRunner selects.
LEMMA FencesIdle ==
    ASSUME TypeOK, AccountInv, [Next]_vars,
           NEW o \in operations' \ operations, o.kind = "fence"
    PROVE  o.runner \in Runner /\ o.runner \notin busyRunners' /\ created'[o.runner] = generation'
<1>1. ASSUME NEW ops, ops \subseteq operations, NEW flying, reconcile(ops, flying),
             o \notin ops
      PROVE  o.runner \in Runner /\ o.runner \notin busyRunners'
               /\ created'[o.runner] = generation'
  BY <1>1, ReconcileFences DEF idleRunners
<1>2. ASSUME NEW w \in Worker, Refresh(w) PROVE FALSE
  <2> DEFINE take == [x \in {w} |-> keyFor("list", Nobody)]
  <2>1. operations' = {NewOp(x, {}, take[x], IF take[x][1] = "create" THEN 0 ELSE 0) :
                         x \in {y \in DOMAIN take : take[y] # NoTask}}
    BY <1>2 DEF Refresh, Hand
  <2>2. o = NewOp(w, {}, <<"list", Nobody>>, 0)
    BY <2>1 DEF keyFor
  <2> QED
    BY <2>2 DEF NewOp
<1>3. operations' # operations
  OBVIOUS
<1>4. CASE InitialInventory \/ TakeDemand \/ Tick
  BY <1>1, <1>2, <1>4 DEF InitialInventory, TakeDemand, Tick
<1>5. CASE TakeResult
  <2>1. Head(results).op \in operations
    BY <1>5, TakeAccounts
  <2> DEFINE op == Head(results).op
  <2>2. apply(op, Head(results))
    BY <1>5, <2>1 DEF TakeResult
  <2>3. \/ operations' = operations \ {op}
        \/ reconcile(operations \ {op}, runnerOps \ {op.runner})
    BY <2>2 DEF apply, ApplySuccess, ApplyFailure
  <2> QED
    BY <1>1, <2>3
<1>6. CASE QuietMain
  BY <1>3, <1>6, QuietAccounts DEF stateVars
<1>7. ASSUME NEW w \in Worker, WorkerStep(w) PROVE FALSE
  BY <1>3, <1>7, WorkerAnswers DEF WorkerExits, WorkerSends, Answer, WorkerFrame, stateVars
<1>8. CASE Restart
  BY <1>8 DEF Restart
<1>9. CASE OpenSession \/ Message \/ Environment \/ (\E k \in cooling : CooldownEnds(k))
           \/ UNCHANGED vars
  BY <1>3, <1>9 DEF OpenSession, Message, SessionFrame, Environment, CooldownEnds, stateVars, vars
<1> QED
  BY <1>4, <1>5, <1>6, <1>7, <1>8, <1>9 DEF Next, MainStep, QuietMain

\* For any number of sessions and restarts, scale-down hands out a fence only for a runner
\* whose job had not been announced when the demand in force was published.
THEOREM FencesAreAuthorised == Spec => FencesAuthorised
<1>1. ASSUME TypeOK, AccountInv, TypeOK', ToldInv', BornInv', [Next]_vars
      PROVE  [\A o \in operations' \ operations :
                o.kind = "fence" => o.runner \notin toldAt']_vars
  <2> SUFFICES ASSUME NEW o \in operations' \ operations, o.kind = "fence",
                      o.runner \in toldAt'
               PROVE  FALSE
    OBVIOUS
  <2>1. PICK r \in Runner : r = o.runner /\ r \notin busyRunners' /\ created'[r] = generation'
    BY <1>1, FencesIdle
  <2>2. generation' \in 0..MaxGeneration /\ r \in told' /\ r \in toldAt'
    BY <1>1, <2>1 DEF TypeOK, ToldInv
  <2>3. Born(r, generation)'
    BY <2>1 DEF Born
  <2> QED
    BY <1>1, <2>1, <2>2, <2>3 DEF BornInv
<1>2. Init => GenInv /\ ToldInv /\ BornInv
  BY DEF Init, GenInv, ToldInv, BornInv
<1> QED
  BY <1>1, <1>2, TypeCorrect, AccountInvariant, NewInvariant, GenStep, ToldStep, BornStep, PTL
     DEF Spec, FencesAuthorised

(***************************************************************************)
(* As long as a VM runs or may come to run, its process forgets neither    *)
(* that it exists, nor the generation it was created under, nor that it is *)
(* fenced: pruneRunnerKnowledge and a delete drop only what is gone.       *)
(***************************************************************************)
ForgetsOnlyGone ==
    [][restarts' = restarts =>
         \A r \in {q \in Runner : Live(q)} :
           /\ runners[r] # "absent" => runners'[r] # "absent"
           /\ created[r] # -1 => created'[r] = created[r]
           /\ r \in fencedRunners => r \in fencedRunners']_vars

\* A generation is remembered only of runners that are known.
MadeInv == /\ \A r \in Runner : created[r] # -1 => runners[r] # "absent"
           /\ pc = "inventory" => \A r \in Runner : created[r] = -1

\* The step loses nothing of what is known of runner r.
Remembered(r) ==
    /\ runners[r] # "absent" => runners'[r] # "absent"
    /\ created[r] # -1 => created'[r] = created[r]
    /\ r \in fencedRunners => r \in fencedRunners'

\* What taking a result does to the knowledge of the runners.
LEMMA TakeRemembers ==
    ASSUME TypeOK, AccountInv, NewInv, KnownInv, MadeInv, TakeResult
    PROVE  MadeInv' /\ \A r \in Runner : Live(r) => Remembered(r)
<1>1. PICK res : res = Head(results)
  OBVIOUS
<1>2. /\ res \in Answers /\ res \in Result /\ res.op \in operations /\ pc' = "select"
  BY <1>1, TakeKnows DEF TakeResult
<1>3. apply(res.op, res)
  BY <1>1, <1>2 DEF TakeResult
<1>4. /\ \A r \in Runner : /\ runners[r] \in KnownState /\ created[r] \in -1..MaxGeneration
                           /\ created[r] # -1 => runners[r] # "absent"
      /\ created \in [Runner -> -1..MaxGeneration] /\ runners \in [Runner -> KnownState]
  BY DEF TypeOK, MadeInv
<1>5. CASE ~res.ok
  <2>1. UNCHANGED <<runners, created, fencedRunners>>
    BY <1>3, <1>5 DEF apply, ApplyFailure, recordFailure
  <2> QED
    BY <1>2, <1>4, <2>1 DEF MadeInv, Remembered
<1>6. CASE res.ok
  <2>1. \/ res.op.kind = "list" /\ ApplyList(res.runners)
        \/ res.op.kind = "create" /\ ApplyCreate(res.runner, res.op.gen)
        \/ res.op.kind = "fence" /\ ApplyFence(res.op.runner)
        \/ res.op.kind = "delete" /\ ApplyDelete(res.op.runner)
    BY <1>3, <1>6 DEF apply, ApplySuccess
  <2>2. CASE res.op.kind = "list" /\ ApplyList(res.runners)
    <3>1. /\ runners' = res.runners
          /\ \A r \in Runner : created'[r] = IF res.runners[r] = "absent" THEN -1 ELSE created[r]
          /\ fencedRunners' = {r \in fencedRunners : res.runners[r] # "absent"}
      BY <2>2 DEF ApplyList
    <3>2. \A r \in Runner : Live(r) => res.runners[r] # "absent"
      BY <1>2, <1>6, <2>2 DEF KnownInv
    <3> QED
      BY <1>2, <3>1, <3>2 DEF MadeInv, Remembered
  <2>3. CASE res.op.kind = "create" /\ ApplyCreate(res.runner, res.op.gen)
    <3>1. res.runner \in Runner /\ runners[res.runner] = "absent"
      BY <1>2, <1>6, <2>3 DEF NewInv, Result
    <3>2. created[res.runner] = -1
      BY <1>4, <3>1
    <3> QED
      BY <1>2, <1>4, <2>3, <3>1, <3>2 DEF ApplyCreate, MadeInv, Remembered
  <2>4. CASE res.op.kind = "fence" /\ ApplyFence(res.op.runner)
    BY <1>2, <1>4, <2>4 DEF ApplyFence, MadeInv, Remembered
  <2>5. CASE res.op.kind = "delete" /\ ApplyDelete(res.op.runner)
    <3>1. ~Live(res.op.runner)
      BY <1>2, <1>6, <2>5 DEF KnownInv
    <3> QED
      BY <1>2, <1>4, <2>5, <3>1 DEF ApplyDelete, MadeInv, Remembered
  <2> QED
    BY <2>1, <2>2, <2>3, <2>4, <2>5
<1> QED
  BY <1>5, <1>6

\* Every step but a restart remembers the live runners.
LEMMA RememberStep ==
    ASSUME TypeOK, AccountInv, NewInv, KnownInv, MadeInv, [Next]_vars
    PROVE  /\ MadeInv'
           /\ restarts' = restarts => \A r \in Runner : Live(r) => Remembered(r)
<1>1. ASSUME UNCHANGED <<runners, created, fencedRunners>>, pc' = "inventory" => pc = "inventory"
      PROVE  MadeInv' /\ \A r \in Runner : Remembered(r)
  BY <1>1 DEF MadeInv, Remembered
<1>2. CASE InitialInventory
  <2>1. /\ runners' = Snapshot /\ UNCHANGED <<created, fencedRunners>> /\ pc' = "select"
        /\ \A r \in Runner : created[r] = -1
    BY <1>2 DEF InitialInventory, MadeInv
  <2>2. \A r \in Runner : Live(r) => runners'[r] # "absent"
    BY <2>1, ListedLive DEF TypeOK
  <2> QED
    BY <2>1, <2>2 DEF MadeInv, Remembered
<1>3. CASE TakeResult
  BY <1>3, TakeRemembers
<1>4. CASE TakeDemand \/ Tick
  BY <1>1, <1>4 DEF TakeDemand, Tick, loopVars
<1>5. CASE QuietMain
  BY <1>1, <1>5, QuietAccounts DEF stateVars
<1>6. ASSUME NEW w \in Worker, WorkerStep(w)
      PROVE  MadeInv' /\ \A r \in Runner : Remembered(r)
  BY <1>1, <1>6, WorkerAnswers DEF WorkerExits, WorkerSends, Answer, WorkerFrame, stateVars,
     loopVars
<1>7. CASE Restart
  <2>1. restarts' # restarts
    <3>1. restarts \in Nat /\ restarts' = restarts + 1
      BY <1>7, BoundAssumption DEF Restart, TypeOK
    <3> QED
      BY <3>1
  <2>2. MadeInv'
    BY <1>7 DEF Restart, MadeInv
  <2> QED
    BY <2>1, <2>2
<1>8. CASE OpenSession \/ Message \/ Environment \/ (\E k \in cooling : CooldownEnds(k))
           \/ UNCHANGED vars
  BY <1>1, <1>8 DEF OpenSession, Message, SessionFrame, Environment, CooldownEnds, stateVars,
     loopVars, vars
<1> QED
  BY <1>2, <1>3, <1>4, <1>5, <1>6, <1>7, <1>8 DEF Next, MainStep, QuietMain

\* For any number of runners and workers, neither a listing that raced with other work nor a
\* deletion makes a process forget a VM that runs or may come to run.
THEOREM KnowledgeKept == Spec => ForgetsOnlyGone
<1>1. Init => KnownInv /\ MadeInv
  BY DEF Init, KnownInv, Answers, MadeInv
<1>2. TypeOK /\ AccountInv /\ NewInv /\ KnownInv /\ MadeInv /\ [Next]_vars =>
        MadeInv' /\ [restarts' = restarts =>
                       \A r \in {q \in Runner : Live(q)} :
                         /\ runners[r] # "absent" => runners'[r] # "absent"
                         /\ created[r] # -1 => created'[r] = created[r]
                         /\ r \in fencedRunners => r \in fencedRunners']_vars
  BY RememberStep DEF Remembered
<1> QED
  BY <1>1, <1>2, TypeCorrect, AccountInvariant, NewInvariant, KnownStep, PTL
     DEF Spec, ForgetsOnlyGone

(***************************************************************************)
(* The demands take effect in the order of their message sessions: what a  *)
(* session published is never replaced by what an earlier one left in the  *)
(* mailbox.                                                                *)
(***************************************************************************)
DemandsInOrder == [][restarts' = restarts => generation' >= generation]_vars

\* What waits in the mailbox is of the session in force, or of a later one.
WaitingInv == \A d \in mailbox : generation <= d.gen

\* Every step keeps the mailbox ahead of the demand in force, and only a restart goes back.
LEMMA WaitingStep ==
    ASSUME TypeOK, AccountInv, GenInv, WaitingInv, [Next]_vars
    PROVE  /\ WaitingInv'
           /\ restarts' = restarts => generation' >= generation
<1>1. /\ session \in Nat /\ generation \in Nat /\ restarts \in Nat
      /\ \A d \in mailbox : d.gen \in Nat
  <2>1. /\ session \in 0..MaxGeneration /\ generation \in 0..MaxGeneration
        /\ restarts \in 0..MaxRestarts
    BY DEF TypeOK
  <2>2. \A d \in mailbox : d.gen \in 1..MaxGeneration
    BY DEF TypeOK, Demand
  <2> QED
    BY <2>1, <2>2, BoundAssumption
<1>2. ASSUME UNCHANGED <<generation, mailbox>>
      PROVE  WaitingInv' /\ generation' >= generation
  BY <1>1, <1>2 DEF WaitingInv
<1>3. CASE TakeDemand
  BY <1>1, <1>3 DEF TakeDemand, WaitingInv
<1>4. CASE InitialInventory \/ Tick \/ TakeResult
  BY <1>2, <1>4 DEF InitialInventory, Tick, TakeResult, demandVars
<1>5. CASE QuietMain
  BY <1>2, <1>5, QuietAccounts DEF stateVars, demandVars
<1>6. ASSUME NEW w \in Worker, WorkerStep(w) PROVE WaitingInv' /\ generation' >= generation
  BY <1>2, <1>6, WorkerAnswers DEF WorkerExits, WorkerSends, Answer, WorkerFrame, stateVars,
     demandVars
<1>7. CASE Restart
  BY <1>1, <1>7 DEF Restart, WaitingInv
<1>8. CASE OpenSession
  BY <1>2, <1>8 DEF OpenSession, Feed!OpenSession, SessionFrame, stateVars
<1>9. CASE Message
  <2>1. generation' = generation
    BY <1>9 DEF Message, SessionFrame, stateVars
  <2>2. \A d \in mailbox' : d.gen = session
    BY <1>9 DEF Message, Feed!Message
  <2> QED
    BY <1>1, <2>1, <2>2 DEF GenInv, WaitingInv
<1>10. CASE Environment \/ (\E k \in cooling : CooldownEnds(k)) \/ UNCHANGED vars
  BY <1>2, <1>10 DEF Environment, CooldownEnds, stateVars, demandVars, vars
<1> QED
  BY <1>3, <1>4, <1>5, <1>6, <1>7, <1>8, <1>9, <1>10 DEF Next, MainStep, QuietMain

\* However OpenSession and Publish interleave with the loop's receive, the generation of the
\* demand in force never decreases within a process.
THEOREM DemandsOrdered == Spec => DemandsInOrder
<1>1. Init => GenInv /\ WaitingInv
  BY DEF Init, GenInv, WaitingInv
<1>2. TypeOK /\ AccountInv /\ GenInv /\ WaitingInv /\ [Next]_vars =>
        WaitingInv' /\ [restarts' = restarts => generation' >= generation]_vars
  BY WaitingStep
<1> QED
  BY <1>1, <1>2, TypeCorrect, AccountInvariant, NewInvariant, GenStep, PTL
     DEF Spec, DemandsInOrder

(***************************************************************************)
(* What Backend takes for granted of its caller: a listing runs alone, and *)
(* no two calls are about the same runner at the same time.                *)
(***************************************************************************)
CallsApart ==
    \A w, x \in Worker : w # x /\ at[w] = "working" /\ at[x] = "working" =>
      /\ item[w].kind # "list"
      /\ item[w].runner # Nobody => item[w].runner # item[x].runner

\* For any number of workers, the calls under way are about different runners, and a listing
\* runs alone.
THEOREM CallsKeptApart == Spec => []CallsApart
<1>1. AccountInv => CallsApart
  <2> SUFFICES ASSUME AccountInv, NEW w \in Worker, NEW x \in Worker, w # x,
                      at[w] = "working", at[x] = "working"
               PROVE  /\ item[w].kind # "list"
                      /\ item[w].runner # Nobody => item[w].runner # item[x].runner
    BY DEF CallsApart
  <2>1. /\ item[w] \in operations /\ item[x] \in operations
        /\ item[w].worker = w /\ item[x].worker = x
    BY DEF AccountInv, Accounted
  <2>2. item[w] # item[x]
    BY <2>1
  <2> QED
    BY <2>1, <2>2 DEF AccountInv, Accounted, ListAlone
<1> QED
  BY <1>1, AccountInvariant, PTL
=============================================================================
