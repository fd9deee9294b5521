# A TLA+ model of incus-gh-runner

incus-gh-runner keeps a pool of Incus virtual machines that serve one GitHub
Actions runner scale set. Each VM registers as a just-in-time (JIT) runner, runs
one job and is thrown away. This directory holds TLA+ modules for the parts of
the program that change state, TLC configurations that check them on small
instances, and TLAPS proofs of the results that are worth having for every
instance. `PROJECT.json` lists the runs, the theorems, the source lines behind
each definition and the hazards the properties are aimed at.

## The system

| Part | State | Operations | Interaction |
|---|---|---|---|
| reconciler (`internal/controller/controller.go`) | observed runners, operations in flight, failure cooldowns, creation generations, busy and fenced runners, stale mark, target | the four arms of `Run`'s select; `setDemand`, `refresh`, `reconcile`, `apply`; shutdown | one goroutine owns the state; hands operations to workers over an unbuffered channel, gets results over a bounded one |
| workers (same file) | the operation in hand | `runWorker` | call the backend and the fencer; block in their send when the results channel is full |
| demand mailbox (`internal/controller/types.go`) | at most one demand | `Publish`, receive | written by the message session, read by the reconciler |
| message sessions (`internal/adapters/github/reconnect.go`, `message_session.go`, `scaleset.go`) | current session, generation, reconnect delay, the handler's busy set | `ResilientDemandSource.Run`, `Close`; `HandleJobStarted`, `HandleJobCompleted`, `HandleDesiredRunnerCount` | called back by the scale-set library's listener; publishes demand, enqueues proof events |
| registration and fence (`scaleset.go`) | none of its own | `JITConfig`, `Fence` | GitHub; called by the backend and the workers |
| Incus backend (`internal/adapters/incus/backend.go`, `client.go`) | pinned launch identity | `Preflight`, `Create`, `Delete`, `ListOwned`, `Snapshot` | several requests each to Incus, whose operations go on when nobody waits; operators edit profiles, aliases and VMs meanwhile |
| diagnostics (`internal/adapters/incus/diagnostics.go`) | a directory of console logs that outlives the process | `Store`, `pruneDiagnostics` | called by `Delete` on any worker, under a mutex |
| proofs (`internal/provenance`, `proof_sink.go`) | event queue, the event in process | `TryEnqueue`, `Coordinator.Run`, `Deliver` | two files pushed into the guest's `/run` |
| guest (`guest/`) | status file, input files, proof files | the runner service, the proof helper | power off at the end; the helper is run by workflows |
| supervisor (`internal/app/app.go`) | component results | `Application.Run` | starts the components, cancels them, bounds their shutdown |
| configuration and start (`internal/config`, `internal/runtime`, `internal/cli`, `cmd`) | the settings, the step of the preparation | `Load`, the validations, `prepare`, `ResolveScaleSet` | Incus and GitHub, where it may create the scale set; systemd restarts what fails |
| delays (`controller.go`, `reconnect.go`) | current delay | `nextFailureDelay`, `reconnectBackoff` | used by reconciler and session loop |

What makes it hard: every call to Incus and GitHub may fail before, after or
without its effect, and Incus carries on with operations the client gave up;
the reconciler acts on inventories and busy sets that are old when they are
used; a send to a worker that is not yet at its receive is silently missed; the
process may be stopped or die anywhere and knows nothing afterwards but what
Incus and GitHub tell it; what a proof is signed about was read piece by piece,
from an Incus that others edit.

What makes it correct: no running job is killed; every ended VM is deleted and
the idle floor is restored; no operation is lost or doubled; the target is
chased in full knowledge of the VMs that exist; capacity stays under its
ceiling; a job proof, once committed, is whole, names the machine it lies on
and never changes, and what it says of the launch is true; valid settings bring
the service up, whichever requests fail on the way; the newest demand wins;
sessions are reopened with growing delays and closed; the process stops in
bounded time and says truthfully how.

## The modules

```
Process ──extends──> Config, Supervisor, Backoff <──uses── Session
Session ──implements──> DemandFeed <──uses── Controller
Controller ──extends──> Fleet <──implements── Backend ──extends──> Diagnostics
JobProof        Attestation
```

**Fleet** is the abstract specification of what the reconciler may expect: one
VM state and one registration state per runner name, `Create`, `Fence` and
`Delete` as single steps with a successful and a failing form, `ListOwned` as a
function of the state (`Snapshot`), and what guests, Incus and GitHub do alone.

**Controller** extends Fleet with the reconciler, its workers and channels, the
mailbox and shutdown. `InitialInventory`, `TakeDemand`, `Tick`, `TakeResult` and
`StopWork` are the arms of `Run`; each ends in `reconcile`, as in the code.
Reconciling hands a task to any subset of the free workers, within the limits
of the loop bounds, because a free worker may not have reached its receive.
Operation ids are replaced by the worker and a slot of that worker.
A failure entry is "cooling" until its time has passed (`CooldownEnds`). The
variables `told`, `toldAt` and `contested` are history for the properties.

**DemandFeed** is what the reconciler relies on from the demand side: sessions
with increasing generations, a busy set that starts empty with each session,
a mailbox with the newest demand. Controller takes its steps from there.

**Session** is the demand side in detail: opening, polling, the callbacks,
publishing in two steps (drain, send), closing, waiting, reopening, cancellation,
and GitHub's queue of undeleted job events.

**Backend** is `Create`, `Fence`, `Delete` and `ListOwned` request by request,
with Incus operations as a server-side state (`oper`) that completes or fails
later, a JIT request that GitHub carries out after the client gave it up
(`late`), the guest's files and status, and crashes between any two requests.
`Delete` stores the console log on its way (`evidence` is history: what became
of the log).
The call in progress is a function of the runner because Controller has at most
one operation per runner in flight (`OperationsAccounted`, and for the calls
themselves the theorem `CallsKeptApart`).

**JobProof** is the event queue, the coordinator, `Snapshot`, `Deliver` with its
two identity checks, and the guest's helper, against VMs that stop and are
replaced under their name, pushes that fail half way, and restarts.

**Diagnostics** is the directory of console logs: what each name holds (`logs`)
and which file is older than which (`older`); pruning removal by removal, the
exclusive creation, partial files. A Store may end after any part of its prune:
a removal or the creation fails, or the process dies. Backend extends it.

**Attestation** is what a proof says of a launch. `Preflight` resolves the image
and reads the profiles one by one, `Create` reads them again one by one and
launches from what was pinned, `Snapshot` reconstructs the launch from the VM,
`Sign` and `Verify` have their size limits. Between any two reads operators edit
profiles, move the image alias or edit the VM, and a process may be followed by
one with other settings, another key and another host identity. A digest is
modelled as its input.

**Backoff** is the two delay computations in signed integers of a bounded width.

**Supervisor** is `Application.Run`, from the start of the components to the
exit status, between the preparation that may fail and the restart.

**Config** holds `Load`, the validations and what each constructor asks of the
settings it is handed, as operators. A string is empty, blank or a value; an URL
is organization, repository or invalid. The coordinator's constructor is also
handed the version and the commit that the linker put into the binary (`build`
of Process), which nothing validates before.

**Process** is the life of the service: `prepare` step by step, each step with the
failures it has, the resolution or creation of the scale set, the components
under Supervisor with the delays of Backoff, and systemd's restarts within the
start limit of the unit. `faults` bounds the requests that fail although the
settings are right; once a stop is requested every request fails.

`MCController` adds the symmetry set for TLC, `MCProcess` the settings and
`MCAttestation` the contents of profiles. The proofs about a module `M` are in
`MProofs`: `ControllerProofs`, `BackendProofs`, `SessionProofs`, `JobProofProofs`,
`AttestationProofs`, `SupervisorProofs`, `BackoffProofs`, and `ProcessProofs`, which
extends the last two.

Definitions named as faulty variants (`recordFailureTrusting`, `fencedAnyway`
and so on) are used by no action. Each is a plausible mistake in the definition
that follows it; put in its place, TLC finds the property it is paired with in
`PROJECT.json` violated, which shows that the property watches that code.

## The runs

| Run | Instance | What it shows |
|---|---|---|
| controller_pool | 2 names, 2 workers, pool of 1, list/create/delete fail, 1 restart | `TypeOK`; `OperationsAccounted`: no operation lost or doubled; `NoUncountedVM`: nothing is scheduled in ignorance of a running VM; `CeilingUpToContested` |
| controller_demand | 1 name, 2 workers, everything fails, 2 sessions, 1 restart | `ScaleDownAuthority`: scale-down never picks a runner whose job was announced before the demand in force, in whatever session or process; `FencedUnregistered` |
| controller_elastic | 2 names, 2 workers, 0..1 runners, fences fail | `CeilingUpToContested` with scale-up and scale-down racing |
| controller_live | 1 name, 2 workers, jobs, stop at any time | `EndedIsDeleted`, `FloorRestored` under fairness, unless stopped; `CleanStop`: success only when no worker is left in an operation |
| controller_ceiling | 2 names, 1 worker | violation: `HardCeiling` |
| controller_timeout | 1 name, 1 worker | violation: `TimeoutBlamesBackend` |
| backend | 1 name, 2 other logs, 2 logs retained | `JobSurvives`, `AnswersAreTrue`, `VerdictsStand`, `JobIsBound`; `RetentionBound`, `EvidenceKept`: the log directory keeps its bound, and a log once written is not lost to a retry; `ImplementsFleet`: the requests refine the atomic operations |
| session | 2 runners, 2 sessions | `NoPhantomBusy`, `NewestDemandWins`, `SessionReleased`, `BackoffUntilContact`, `ImplementsFeed`, `Reconnects`, `StopsWhenCanceled` |
| session_initial | 1 runner | violation: `InitialFailureIsFatal` |
| job_proof | 1 name, 2 jobs, 4 events, 3 UUIDs, queue of 1, 1 restart | `CommittedIsOwn`, `SuccessIsCommitted`, `HelperHandsOwn`, `CommittedIsImmutable`, `EventsAreProcessed` |
| process | 3 components, 1 of them prompt, some 170 settings, 2 builds, 2 faults, 3 starts, four-bit durations | `EventuallyRuns`: settings that pass the validation come up; `ResolvedStarts`: no start fails after the scale set was touched, but for a bad build; `Terminates`, also in the preparation; `SuccessIsEarned`, `NoneLeftRunning`; `WithinCap`, `Escalates` |
| attestation | 2 profiles, 3 images, 3 settings, 3 edits, 1 instance, 1 restart | `UntouchedIsAttestable`, `VerifiedIsTrue`, `LaunchedTogether`, `IssuedVerifies` |

Why these bounds are enough for the cases that matter:

- Two runner names with a ceiling of one are what it takes to exceed it, and two
  workers what it takes for two operations to overlap and for their results to
  arrive out of order. One name suffices for authority, which is a property of
  one runner across sessions and restarts; names are reused only when nothing
  remembers them (`FreshName`), as random UUIDs are never used twice.
- Two sessions and one restart give every pair of "before" and "after".
- Backend has one runner because calls about different runners share nothing
  but the listing, which excludes all of them.
- In Session a count is only passed on, so `MaxAssigned` is 0 there (counts of
  -1 and 0 show the clamp); demands differ in generation and busy set.
- `MaxGeneration` of Session stops the model from dropping the last session
  other than by cancellation; without that bound it would end where the
  program opens another.
- Three UUIDs and four events allow a replacement in each gap of a delivery, a
  duplicate and a second job.
- The settings of `process` are two working ones, an organization with an App
  over HTTPS and a repository with a token file over the socket, and every
  setting that differs from one of them in a single field: each field takes each
  of its classes against an otherwise valid file. The pairs of delays lie around
  the largest duration and its half, where the doubling could overflow; the
  proofs cover all pairs. The unit allows 5 starts in a minute, the model 3, and
  2 faults use up all but one.
- Two edits tear a read of two profiles, the third is what it takes to set one
  back. One instance suffices, for the launches of two share nothing. With
  `MaxBytes` = 6 a list of two profiles fits and one of three does not.
- Deadlock is not checked where the system ends by itself: a stopped process
  with no restarts left, or a crashed one whose VMs are gone.

Three runs show that the repository says something the code does not do:

- `HardCeiling`: "MaxRunners is the hard capacity ceiling" (`types.go:78`). A
  runner whose fence is in flight is not counted, a replacement is created, and
  GitHub refuses the fence because a job has arrived. `CeilingUpToContested` is
  what holds instead: the excess consists of runners that had been discounted.
- `TimeoutBlamesBackend`: `ErrShutdownTimeout` "reports that a backend operation
  ignored cancellation" (`types.go:12`). Nobody reads results during shutdown,
  so workers may block on the full channel after their operations returned.
- `InitialFailureIsFatal`: "If the initial GitHub message session cannot be
  opened, the process also exits" (`how-it-works.md:117`). The source retries.

## Fairness

Controller: calls end because each has an `OperationTimeout` (weak fairness of
every worker); Go's select picks among ready arms at random (strong fairness of
receiving a result); the ticker keeps offering work and a free worker reaches
its receive in much less than an interval (strong fairness of scheduling a
task that is offered again and again); timers fire; GitHub drops registrations
of vanished runners and Incus ends its operations. No fairness is assumed for
jobs, guests or demand. Session: the goroutine goes on, and opening succeeds in
the end if tried for ever. JobProof: `OperationTimeout` ends each step.
Process: the goroutine goes on, each request being answered or given up; the
timer of the shutdown fires; the components in `Prompt` return when canceled;
systemd restarts a failed service as long as its start limit allows. Without a
prompt component the stop is not bounded at all, since the budget starts only
with the first result (`app.go:128`); the demand source is prompt by
`StopsWhenCanceled`.

## The theorems

All hold for every value of the constants that the named assumptions allow:

- Controller: `MinRunners <= MaxRunners`, a finite non-empty set of workers with
  more slots than workers (a free worker has at most as many unread results as
  the channel holds), finitely many runner names, none of them empty.
- Session: legal reconnect delays. JobProof: a queue that holds something, at
  least one runner and one job. Attestation: lists of profiles are lists of
  profile names. Backend: nothing about the runners; at least one log is retained,
  and the other files of the directory have names of their own.
- Supervisor: finitely many components. Backoff: any width of a duration.
  Process: settings have the types of the fields of `Config`, every process has
  some component, and the shortest poll timeout is not negative.
- The bounds of the runs (restarts, sessions, edits, events, faults) are natural
  numbers. No theorem depends on their values.

An invariant is seldom inductive here, for what a goroutine relies on was true
when somebody else looked. The strengthening says what must be true of
everything under way. TLC checked each on the instances of the runs before it
was proved.

Controller:

- `TypeCorrect`: inductive once it also says that a working worker holds an
  operation and a sending one a result. `HandType` and `ReconcileType` do the work
  for the four actions that reconcile.
- `FencedStaysUnregistered`: `FenceInv` says the same of a successful fence result
  in a worker's hand or in the channel. Only a create registers, and it takes a
  name that nothing remembers.
- `AllAccounted`: `AccountInv` gives each operation its place, and a listing is
  alone in flight; the slots of a worker keep its unread results apart.
- `NoVMUncounted`: apply replaces what is known by what a listing saw earlier.
  `KnownInv` says that no listing on its way misses a VM that is live by now,
  and `NewInv` that nothing speaks of a runner before its create is applied.
- `ScaleDownIsAuthorised`: `BornInv` follows an announced job from the handler's
  busy set through the mailbox to `busyRunners`, for the runners created under the
  generation of that session; `GenInv` orders the generations.
- `CeilingKeptUp`: `CeilingInv` bounds more than the runners that count now. It
  charges those that will count once a listing is applied and those a failed
  create left behind unknown, and shows that no step raises the charge except a
  create that the loop had room for. `ReviveInv` says that what was listed as
  terminal and comes up is contested.
- `StopsClean`: with the workers off before the first inventory.
- `FencesAreAuthorised`: an action property. `ScaleDownAuthority` speaks of the
  states between the steps, but idleRunner looks in the middle of one, after the
  result or the demand has been applied; the theorem is about each fence handed
  out (`ReconcileFences`), from `BornInv` and `ToldInv`.
- `KnowledgeKept`: an action property. A listing replaces the inventory, and
  pruneRunnerKnowledge drops what it does not show; by `KnownInv` no listing on
  its way misses a live VM, by `NewInv` a create is applied to a name that
  nothing knew, and by `MadeInv` a generation is remembered only of a known runner.
- `DemandsOrdered`: an action property, from `WaitingInv`: what waits in the mailbox
  is of the session in force or of a later one.
- `CallsKeptApart`: what Backend assumes of its caller, from `AccountInv`.

Backend:

- `JobsSurvive`: `JobInv` relates the program counter of each call to GitHub's
  state: from the step after the fence on, and while Incus stops or deletes, the
  runner is not registered, unless it is a late registration that stays idle.
- `AnswersTrue`, `VerdictsTrue`, `JobsBound`: `LifeInv` adds what Incus may be
  carrying out at each step of each call (`OperInv`), to whom a registration
  belongs, and that after a successful answer Incus has nothing left to do that
  could undo it.
- `FleetImplemented`: each request, and each thing Incus, GitHub and the guests do
  alone, is a step of Fleet or a stutter.
- `LogsBounded`, `EvidenceStays`: `StoreInv` has three parts. `DirInv`: ages are a
  strict total order on the files, which are finitely many and no more than
  `MaxFiles`. `KeptInv`: what history says of a log is true of the directory, and
  from the step after the store on the log has been tried. `OneWriter`: the lock
  lets one Store in at a time, so the file one worker still writes is not pruned
  by another. `CreatedKeeps` is the count: a complete prune leaves
  at most `MaxFiles - 1` files, and a file is created only after one.
- `LogsPushedOut`: an action property, stronger than the second half of
  `EvidenceKept`. History calls a log evicted in whatever prune removes it; the
  theorem says that this prune left only newer files, as many as a new one leaves
  room for. It does not say that the new one appears: its creation may fail.
- `PruneIsDetermined`: Diagnostics says what a prune keeps by a property, the newest
  files of a given number; by the order of ages only one set has it.
- `TypeCorrect`: type correctness, with the directory.

Session: `Inv` has a part per concern: `LoopInv` (program counter, handle and
generation), `DelayInv`, `BoxInv` (mailbox), `BusyInv` (how far the busy set has
moved from the published one) and `QueueInv` (a begun job goes on, or its
completion is later in GitHub's queue). From it come `TypeCorrect`, `NoPhantoms`,
`NewestWins`, `Released`, `BackoffHeld` and `FeedImplemented`, where the feed's
mailbox has a demand from the moment Publish was given it.

JobProof: `TypeCorrect` needs a count, for each envelope belongs to an announced
event. `CommittedOwn`, `HelperOwn` and `SuccessCommitted` rest on `SInv`: the
envelope in process is for an instance of the past or the present, from the
check of the marker on the marker is as it was found, and once pushed the
envelope lies there, unless the instance is gone. `CommittedImmutable` follows
from the same.

Attestation: `OneMoment` rests on `MomentInv`: during the second round of reads
there is one moment at which every profile verified so far was in place, and
also every profile still to be verified that is in place now; were it otherwise
the profile would have been set back. `Attestable`, `ProofsTrue` and
`SignedVerifies` rest on `InstanceInv` and `ProofInv`: an instance carries the
digest of its own launch, and so does every proof.

Supervisor, Backoff, Process:

- `SuccessEarned`, `NoComponentLeft` (Supervisor): strengthened by "whatever was
  sent or received belongs to a component that has ended".
- `DelaysBounded`, `DelaysEscalate` (Backoff): the delays lie in the configured
  interval, hence neither doubling overflows, whatever the width.
- `ResolvedComesUp` (Process): `CheckedInv` carries what each step of `prepare` has
  checked to the last one; `ValidConstructs` is the fact behind it, that what
  `Validate` accepts the constructors accept as well. The build is not among what
  was checked, and the theorem makes the exception: the binary of a release has
  a version and a commit, but a build without them fails there.
- `ServiceSuccess`, `ServiceLeavesNone`, `ServiceDelaysBounded`,
  `ServiceEscalates` (Process): the four theorems before hold of `SupervisorSpec`
  and `BackoffSpec`; Process implements both (`ServiceSupervises`,
  `ServiceBacksOff`), since it begins components only with delays it validated.

Only model-checked:

- liveness (`EndedIsDeleted`, `FloorRestored`, `Reconnects`, `StopsWhenCanceled`,
  `EventsAreProcessed`, `Terminates`, `EventuallyRuns`), which is outside the
  prover's reach;
- that a prune always has a result: that a finite set in a total order has, for each
  smaller number, that many newest elements takes an induction. In the run every
  store fires;
- the three properties that are violated.

## Abstractions

- Time: delays, ticks and timeouts may end at any moment. How long a delay is
  matters only in Backoff and in Session's reconnect delay.
- `ListOwned` is atomic in Fleet and stepwise in Backend, where the guest's
  status changes between the reads; `VerdictsStand` is the part of the verdict
  that the reconciler relies on.
- A redelivered JobStarted of a runner that is gone only adds a name to a busy
  set that no runner has; Controller leaves it out.
- The scale-set listener is external. It is modelled as deleting a message
  before or after it is handled, which covers both orders.
- A request that fails has had its effect, if any, before it reports the
  failure, except for Incus operations and the JIT request. A late registration
  belongs to a runner whose configuration reached nobody: it can take no job, so
  `AnswersAreTrue` lets it be, and the refinement of Fleet does not see it.
- An envelope is its job, its instance and its time of issue in JobProof, and
  its machine, key and host in Attestation; signatures are taken to be
  unforgeable, and only root writes the guest's `/run`.
- In Attestation operators leave the recorded launch digest itself alone. It is
  not authenticated: whoever edits the digest and all it covers is believed.
- `LaunchedTogether` is stated for profiles that are not set back to an earlier
  content. If one is, the check in `Create` cannot see it, and a VM may be
  launched from a combination that never was: the two rounds of reads compare
  contents, not versions. The VM's configuration is still the pinned one.
- A step of the preparation that reads a file is not told apart from a request
  after a stop; both may then fail.
- An instance is stopped or running. Incus's status `error`, which `runnerState`
  treats as stopped, and the passing ones between are left out.
- The guest's helper checks and installs a proof in one step, which is sound
  because a committed proof does not change; the GitHub runner ID, one of the
  fields the sink compares, has no counterpart beside the runner's name.

## Not modelled

- The host validator (`internal/incusvalidate`, `validation.go`, `policy.go`) and
  the command that runs it: it reads an Incus host once and compares it with
  declared data. It has no state, no concurrency and no effect on the service.
- The strict YAML reader, defaults, flags and environment variables: Config
  starts from the values they yield.
- URL, PEM, JSON and TLS details: what the checks decide is kept, how they parse
  is not. The pinning of the server certificate is inside one request.
- A file push that Incus carries out after the client gave it up, while the next
  delivery is under way (`proof_sink.go:103`): the guest agent's part in that is
  not in this repository, and without it the model would have to guess whether
  the two writes can mix.
- The failure entries that `pruneRunnerKnowledge` leaves behind
  (`controller.go:421`): memory, with no effect on any later step.

## Plan

Done, in this order: Fleet and Controller (the core), Backend and its refinement
of Fleet, DemandFeed and Session, Backoff, JobProof, Supervisor, Diagnostics and
late registrations in Backend, Config and Process, Attestation; proofs of every
safety property that a passing run checks and of both refinements; action
properties of the reconciler and of the log directory.
