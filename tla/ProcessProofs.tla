--------------------------- MODULE ProcessProofs ---------------------------
(***************************************************************************)
(* Theorems about Process, for any settings an operator may write, any     *)
(* number of components and any start limit: a start that has resolved the *)
(* scale set comes up unless the binary carries no usable version and      *)
(* commit, and the service as a whole supervises and backs off             *)
(* as Supervisor and Backoff say, so that what is proved of them holds     *)
(* across preparations and restarts.                                       *)
(***************************************************************************)
EXTENDS Process, SupervisorProofs, BackoffProofs

\* The steps of prepare that come after Load, and those that come after the
\* proof key.
AfterKey == {"githubClient", "connect", "backend", "preflight", "runnerGroup",
             "getScaleSet", "createScaleSet", "construct"}
AfterLoad == {"proofKey"} \cup AfterKey

(***************************************************************************)
(* ResolvedStarts is not inductive: that the constructors accept the       *)
(* settings was decided several steps and requests earlier.  The           *)
(* strengthening carries what each step has checked to the last one; the   *)
(* settings are read once and do not change before the components run, and *)
(* a failure is forgotten before they are read again.                      *)
(***************************************************************************)
CheckedInv ==
    /\ step \in {"started", "load", "running"} \cup AfterLoad
    /\ scaleSet \in {"absent", "ours", "foreign"}
    /\ step = "started" => pc = "prepare"
    /\ pc = "prepare" => failed = "none"
    /\ step \in {"load"} \cup AfterLoad => cfg \in Configurations
    /\ step \in AfterLoad => Validate(loaded)
    /\ step \in AfterKey => (Enabled(loaded) => HostIdentity(loaded))
    /\ ResolvedStarts

\* Load trims four strings and leaves the numbers as they are.
LEMMA LoadKeeps ==
    ASSUME NEW c \in Settings
    PROVE  /\ Load(c).pollTimeout \in Duration
           /\ Load(c).minRunners \in Int /\ Load(c).maxRunners \in Int
           /\ Load(c).operations \in Int
           /\ Load(c).reconcileInterval \in Duration
           /\ Load(c).operationTimeout \in Duration /\ Load(c).shutdown \in Duration
           /\ Load(c).retryInitial \in Duration /\ Load(c).retryMaximum \in Duration
  BY DEF Settings, Load

\* What Validate and the steps before accept, the constructors accept as well,
\* in a binary b whose version and commit can stand in a proof.
LEMMA ValidConstructs ==
    ASSUME NEW c, NEW b, c.pollTimeout \in Duration, c.minRunners \in Int, c.maxRunners \in Int,
           c.operations \in Int, c.reconcileInterval \in Duration,
           c.operationTimeout \in Duration, c.shutdown \in Duration,
           c.retryInitial \in Duration, c.retryMaximum \in Duration,
           Validate(c), Enabled(c) => HostIdentity(c) /\ BuildIdentity(b)
    PROVE  Constructible(c, b)
<1>1. c.maxRunners >= 0 /\ c.pollTimeout >= 0
  BY PollAssumption, DurationAssumption DEF Validate, Duration
<1>2. NewJobStartedQueue(c)
  BY <1>1 DEF NewJobStartedQueue, QueueCapacity
<1>3. newResilientDemandSource(c) /\ NewController(c)
  BY <1>1 DEF Validate, newResilientDemandSource, NewController
<1> QED
  BY <1>2, <1>3 DEF Constructible, NewCoordinator, validateHost, NewApplication, Validate

\* A step of prepare goes on to the next, or returns its error.
Moves(next) ==
    \/ step' = next /\ UNCHANGED <<supervision, delays, cfg, build, failed>>
    \/ PrepareFails /\ failed' = step /\ UNCHANGED <<delays, cfg, build, step>>

\* However a step checks or requests, it moves.
LEMMA Forward ==
    ASSUME NEW next, GoOn(next) \/ Fault \/ Refused
    PROVE  Moves(next)
  BY DEF GoOn, Fault, Refused, Fail, Moves

\* The first two steps let through only what they accepted.
LEMMA CheckingSteps ==
    /\ LoadConfig => /\ At("load") /\ Moves("proofKey")
                     /\ step' = "proofKey" => Validate(loaded)
    /\ prepareJobProofSigner => /\ At("proofKey") /\ Moves("githubClient")
                                /\ step' \in {"githubClient", "proofKey"}
                                /\ step' = "githubClient" => (Enabled(loaded) => HostIdentity(loaded))
<1>1. ASSUME LoadConfig PROVE /\ At("load") /\ Moves("proofKey")
                              /\ step' = "proofKey" => Validate(loaded)
  <2>1. At("load") /\ Checked(Validate(loaded) /\ ValidateRuntime(loaded), "proofKey")
    BY <1>1 DEF LoadConfig
  <2>2. GoOn("proofKey") \/ Fault \/ Refused
    BY <2>1 DEF Checked
  <2>3. CASE Validate(loaded)
    BY <2>1, <2>2, <2>3, Forward
  <2>4. CASE ~Validate(loaded)
    <3>1. Refused
      BY <2>1, <2>4 DEF Checked
    <3>2. step' = "load"
      BY <2>1, <3>1 DEF At, Refused, Fail
    <3> QED BY <2>1, <2>2, <3>2, Forward
  <2> QED BY <2>3, <2>4
<1>2. ASSUME prepareJobProofSigner
      PROVE  /\ At("proofKey") /\ Moves("githubClient")
             /\ step' \in {"githubClient", "proofKey"}
             /\ step' = "githubClient" => (Enabled(loaded) => HostIdentity(loaded))
  <2>1. /\ At("proofKey")
        /\ IF Enabled(loaded) THEN Checked(HostIdentity(loaded), "githubClient")
                              ELSE GoOn("githubClient")
    BY <1>2 DEF prepareJobProofSigner
  <2>2. GoOn("githubClient") \/ Fault \/ Refused
    BY <2>1 DEF Checked
  <2>3. CASE Enabled(loaded) => HostIdentity(loaded)
    BY <2>1, <2>2, <2>3, Forward DEF GoOn, Fault, Refused, Fail, At
  <2>4. CASE ~(Enabled(loaded) => HostIdentity(loaded))
    <3>1. Refused
      BY <2>1, <2>4 DEF Checked
    <3>2. step' = "proofKey"
      BY <2>1, <3>1 DEF At, Refused, Fail
    <3> QED BY <2>1, <2>2, <3>2, Forward
  <2> QED BY <2>3, <2>4
<1> QED BY <1>1, <1>2

\* The steps that make the adapters go on in their order.
LEMMA AdapterSteps ==
    /\ newGitHubClient => At("githubClient") /\ Moves("connect")
    /\ Connect => At("connect") /\ Moves("backend")
    /\ newIncusBackend => At("backend") /\ Moves("preflight")
    /\ Preflight => At("preflight") /\ Moves("runnerGroup")
<1>1. ASSUME newGitHubClient PROVE At("githubClient") /\ Moves("connect")
  <2>1. At("githubClient") /\ (GoOn("connect") \/ Fault \/ Refused)
    BY <1>1, Zenon DEF newGitHubClient, Checked
  <2> QED BY <2>1, Forward
<1>2. ASSUME Connect PROVE At("connect") /\ Moves("backend")
  <2>1. At("connect") /\ (GoOn("backend") \/ Fault \/ Refused)
    BY <1>2, Zenon DEF Connect, Requested
  <2> QED BY <2>1, Forward
<1>3. ASSUME newIncusBackend PROVE At("backend") /\ Moves("preflight")
  <2>1. At("backend") /\ (GoOn("preflight") \/ Fault \/ Refused)
    BY <1>3, Zenon DEF newIncusBackend, Constructed
  <2> QED BY <2>1, Forward
<1>4. ASSUME Preflight PROVE At("preflight") /\ Moves("runnerGroup")
  <2>1. At("preflight") /\ (GoOn("runnerGroup") \/ Fault \/ Refused)
    BY <1>4, Zenon DEF Preflight, Requested
  <2> QED BY <2>1, Forward
<1> QED BY <1>1, <1>2, <1>3, <1>4

\* And so do those that resolve the scale set.
LEMMA ResolvingSteps ==
    ASSUME scaleSet \in {"absent", "ours", "foreign"}
    PROVE  /\ resolveRunnerGroupID => At("runnerGroup") /\ Moves("getScaleSet")
           /\ GetRunnerScaleSet => /\ At("getScaleSet")
                                   /\ Moves("createScaleSet") \/ Moves("construct")
           /\ CreateRunnerScaleSet => At("createScaleSet") /\ Moves("construct")
<1>1. ASSUME resolveRunnerGroupID PROVE At("runnerGroup") /\ Moves("getScaleSet")
  <2>1. At("runnerGroup") /\ (GoOn("getScaleSet") \/ Fault \/ Refused)
    BY <1>1, Zenon DEF resolveRunnerGroupID, Requested
  <2> QED BY <2>1, Forward
<1>2. ASSUME GetRunnerScaleSet
      PROVE  At("getScaleSet") /\ (Moves("createScaleSet") \/ Moves("construct"))
  <2>1. /\ At("getScaleSet")
        /\ GoOn("createScaleSet") \/ GoOn("construct") \/ Fault \/ Refused
    BY <1>2 DEF GetRunnerScaleSet, Requested
  <2> QED BY <2>1, Forward
<1>3. ASSUME CreateRunnerScaleSet PROVE At("createScaleSet") /\ Moves("construct")
  <2>1. At("createScaleSet") /\ (GoOn("construct") \/ Fault \/ Refused)
    BY <1>3, Zenon DEF CreateRunnerScaleSet
  <2> QED BY <2>1, Forward
<1> QED BY <1>1, <1>2, <1>3

\* None of them writes anything else into scaleSet.
LEMMA ScaleSetKept ==
    ASSUME CheckedInv, Next
    PROVE  scaleSet' \in {"absent", "ours", "foreign"}
<1>1. ASSUME ReadConfig \/ CreateRunnerScaleSet \/ RestartService
      PROVE  scaleSet' \in {"absent", "ours", "foreign"}
  BY <1>1 DEF ReadConfig, CreateRunnerScaleSet, RestartService, CheckedInv
<1>2. ASSUME \/ LoadConfig \/ prepareJobProofSigner \/ newGitHubClient \/ Connect
             \/ newIncusBackend \/ Preflight \/ resolveRunnerGroupID \/ GetRunnerScaleSet
             \/ Construct
      PROVE  scaleSet' = scaleSet
  BY <1>2, Zenon DEF LoadConfig, prepareJobProofSigner, newGitHubClient, Connect,
     newIncusBackend, Preflight, resolveRunnerGroupID, GetRunnerScaleSet, Construct
<1>3. ASSUME Works \/ Retries PROVE scaleSet' = scaleSet
  BY <1>3 DEF Works, Retries, startup
<1> QED BY <1>1, <1>2, <1>3 DEF Next, Prepare, CheckedInv

\* The settings the first steps have accepted are those that are constructed
\* from, with delays in order; only the build has not been looked at.
LEMMA AcceptedConstructs ==
    ASSUME CheckedInv, step = "construct"
    PROVE  /\ Constructible(loaded, build) \/ (Enabled(loaded) /\ ~BuildIdentity(build))
           /\ loaded.retryMaximum \in Delay
           /\ loaded.retryInitial \in 1..loaded.retryMaximum
<1>1. /\ cfg \in Settings /\ Validate(loaded)
      /\ Enabled(loaded) => HostIdentity(loaded)
  BY SettingsAssumption DEF CheckedInv, AfterLoad, AfterKey
<1>2. /\ loaded.pollTimeout \in Duration
      /\ loaded.minRunners \in Int /\ loaded.maxRunners \in Int /\ loaded.operations \in Int
      /\ loaded.reconcileInterval \in Duration
      /\ loaded.operationTimeout \in Duration /\ loaded.shutdown \in Duration
      /\ loaded.retryInitial \in Duration /\ loaded.retryMaximum \in Duration
  BY <1>1, LoadKeeps DEF loaded
<1>3. Constructible(loaded, build) \/ (Enabled(loaded) /\ ~BuildIdentity(build))
  BY <1>1, <1>2, ValidConstructs
<1>4. loaded.retryInitial > 0 /\ loaded.retryMaximum >= loaded.retryInitial
  BY <1>1 DEF Validate
<1> QED BY <1>2, <1>3, <1>4, DurationAssumption DEF Duration, Delay

\* A step that moves on from one that may fail keeps the strengthening.
LEMMA MoveKeeps ==
    ASSUME CheckedInv, NEW s \in {"load"} \cup AfterLoad, NEW next \in AfterLoad,
           At(s), s # "construct", Moves(next),
           scaleSet' \in {"absent", "ours", "foreign"},
           step' = next => Validate(loaded),
           step' = next /\ next \in AfterKey => (Enabled(loaded) => HostIdentity(loaded))
    PROVE  CheckedInv'
<1>1. cfg' = cfg /\ loaded' = loaded /\ cfg \in Configurations
  BY DEF Moves, loaded, CheckedInv, At
<1>2. step' = next \/ step' = step
  BY DEF Moves
<1>3. failed' # "construct" /\ (pc' = "prepare" => failed' = "none")
  BY DEF Moves, At, CheckedInv, PrepareFails
<1>4. step' # "started"
  BY <1>2 DEF At, AfterLoad, AfterKey
<1>5. step' \in {"load"} \cup AfterLoad
  BY <1>2 DEF At
<1>6. step' \in AfterLoad => Validate(loaded)
  BY <1>2 DEF CheckedInv
<1>7. step' \in AfterKey => (Enabled(loaded) => HostIdentity(loaded))
  BY <1>2 DEF CheckedInv
<1>8. Validate(loaded)' = Validate(loaded) /\ Enabled(loaded)' = Enabled(loaded)
      /\ HostIdentity(loaded)' = HostIdentity(loaded)
  BY <1>1 DEF Validate, Enabled, HostIdentity, validateJobProof
<1> QED BY <1>1, <1>3, <1>4, <1>5, <1>6, <1>7, <1>8 DEF CheckedInv, ResolvedStarts

\* Before the components run nothing has been checked.
LEMMA CheckedInit == Init => CheckedInv
  BY DEF Init, SupervisorInit, CheckedInv, ResolvedStarts, AfterLoad, AfterKey

\* Every step of the process keeps what the steps before have checked.
LEMMA CheckedStep == CheckedInv /\ [Next]_vars => CheckedInv'
<1> SUFFICES ASSUME CheckedInv, [Next]_vars PROVE CheckedInv'
  OBVIOUS
<1>0. CASE UNCHANGED vars
  <2>1. UNCHANGED <<cfg, build, step, scaleSet, failed, pc>> /\ loaded' = loaded
    BY <1>0 DEF vars, startup, supervision, loaded
  <2>2. Validate(loaded)' = Validate(loaded) /\ Enabled(loaded)' = Enabled(loaded)
        /\ HostIdentity(loaded)' = HostIdentity(loaded)
    BY <2>1 DEF Validate, Enabled, HostIdentity, validateJobProof
  <2> QED BY <2>1, <2>2 DEF CheckedInv, ResolvedStarts, BuildIdentity
<1> SUFFICES ASSUME Next PROVE CheckedInv'
  BY <1>0
<1> DEFINE Known == {"absent", "ours", "foreign"}
<1>s. scaleSet \in Known /\ scaleSet' \in Known
  BY ScaleSetKept DEF CheckedInv
<1>1. CASE ReadConfig
  BY <1>1, <1>s DEF ReadConfig, At, CheckedInv, ResolvedStarts, AfterLoad, AfterKey, supervision
<1>2. CASE LoadConfig
  <2>1. At("load") /\ Moves("proofKey") /\ (step' = "proofKey" => Validate(loaded))
    BY <1>2, CheckingSteps
  <2> QED BY <1>s, <2>1, MoveKeeps DEF AfterLoad, AfterKey
<1>3. CASE prepareJobProofSigner
  <2>1. /\ At("proofKey") /\ Moves("githubClient")
        /\ step' = "githubClient" => (Enabled(loaded) => HostIdentity(loaded))
    BY <1>3, CheckingSteps
  <2>2. Validate(loaded)
    BY <2>1 DEF At, CheckedInv, AfterLoad
  <2> QED BY <1>s, <2>1, <2>2, MoveKeeps DEF AfterLoad, AfterKey
<1>4. ASSUME NEW s \in AfterKey, NEW next \in AfterKey, s # "construct", At(s), Moves(next)
      PROVE  CheckedInv'
  <2>1. Validate(loaded) /\ (Enabled(loaded) => HostIdentity(loaded))
    BY <1>4 DEF At, CheckedInv, AfterLoad
  <2> QED BY <1>4, <1>s, <2>1, MoveKeeps DEF AfterLoad
<1>5. CASE newGitHubClient \/ Connect \/ newIncusBackend \/ Preflight
  BY <1>4, <1>5, AdapterSteps DEF AfterKey
<1>6. CASE resolveRunnerGroupID \/ GetRunnerScaleSet \/ CreateRunnerScaleSet
  BY <1>4, <1>6, <1>s, ResolvingSteps DEF AfterKey
<1>7. CASE Construct
  <2>1. CASE Constructible(loaded, build)
    <3>1. step' = "running" /\ UNCHANGED failed /\ failed = "none"
      BY <1>7, <2>1 DEF Construct, At, CheckedInv
    <3> QED BY <1>s, <3>1 DEF CheckedInv, ResolvedStarts, AfterLoad, AfterKey
  <2>2. CASE ~Constructible(loaded, build)
    <3>1. /\ pc' = "returned" /\ step = "construct"
          /\ UNCHANGED <<cfg, build, step>> /\ loaded' = loaded
      BY <1>7, <2>2 DEF Construct, At, Refused, Fail, PrepareFails, loaded
    <3>2. Enabled(loaded) /\ ~BuildIdentity(build)
      BY <2>2, <3>1, AcceptedConstructs
    <3>3. /\ Validate(loaded)' = Validate(loaded) /\ Enabled(loaded)' = Enabled(loaded)
          /\ HostIdentity(loaded)' = HostIdentity(loaded)
          /\ BuildIdentity(build)' = BuildIdentity(build)
      BY <3>1 DEF Validate, Enabled, HostIdentity, BuildIdentity, validateJobProof
    <3> QED BY <1>s, <3>1, <3>2, <3>3 DEF CheckedInv, ResolvedStarts
  <2> QED BY <2>1, <2>2
<1>8. CASE RestartService
  <2>1. /\ step' = "started" \/ (step' = "load" /\ step # "running")
        /\ cfg' = cfg /\ failed' = "none" /\ pc' = "prepare" /\ pc = "returned"
    BY <1>8 DEF RestartService, Restart
  <2> QED BY <1>s, <2>1 DEF CheckedInv, ResolvedStarts, AfterLoad, AfterKey
<1>9. CASE Works \/ Retries
  <2>1. UNCHANGED <<cfg, build, step, failed>> /\ loaded' = loaded
    BY <1>9 DEF Works, Retries, startup, loaded
  <2>2. pc = "prepare" <=> pc' = "prepare"
    BY <1>9 DEF Works, Retries, Supervise, ComponentEnds, Stop, RunStep, TakeFirst, TakePeer,
                Finish, Return, BudgetExpires, supervision
  <2>3. Validate(loaded)' = Validate(loaded) /\ Enabled(loaded)' = Enabled(loaded)
        /\ HostIdentity(loaded)' = HostIdentity(loaded)
    BY <2>1 DEF Validate, Enabled, HostIdentity, validateJobProof
  <2> QED BY <1>s, <2>1, <2>2, <2>3 DEF CheckedInv, ResolvedStarts, BuildIdentity
<1> QED BY <1>1, <1>2, <1>3, <1>5, <1>6, <1>7, <1>8, <1>9 DEF Next, Prepare

(***************************************************************************)
(* Whatever the settings, the build, the requests that fail and the        *)
(* restarts, a start that has resolved the scale set is refused by a       *)
(* constructor only for the build, and only if proofs are configured.      *)
(***************************************************************************)
THEOREM ResolvedComesUp == Spec => []ResolvedStarts
<1>1. CheckedInv => ResolvedStarts
  BY DEF CheckedInv
<1> QED BY CheckedInit, CheckedStep, <1>1, PTL DEF Spec

-----------------------------------------------------------------------------
(* The process supervises and backs off *)

\* A step that moves is one of the supervisor's, and leaves the delays alone.
LEMMA MovesSupervise ==
    ASSUME NEW next, Moves(next)
    PROVE  [SupervisorNext]_supervision /\ UNCHANGED delays
  BY DEF Moves, SupervisorNext

\* A step of the process is a step of its supervisor and one of its delays,
\* or leaves them as they are: the components are begun from settings whose
\* delays are in order.
LEMMA ProcessSteps ==
    CheckedInv /\ [Next]_vars => [SupervisorNext]_supervision /\ [BackoffNext]_delays
<1> SUFFICES ASSUME CheckedInv, [Next]_vars
             PROVE  [SupervisorNext]_supervision /\ [BackoffNext]_delays
  OBVIOUS
<1>0. CASE UNCHANGED vars
  BY <1>0 DEF vars
<1>1. CASE ReadConfig
  BY <1>1 DEF ReadConfig
<1>2. CASE LoadConfig \/ prepareJobProofSigner
  BY <1>2, CheckingSteps, MovesSupervise
<1>3. CASE newGitHubClient \/ Connect \/ newIncusBackend \/ Preflight
  BY <1>3, AdapterSteps, MovesSupervise
<1>4. CASE resolveRunnerGroupID \/ GetRunnerScaleSet \/ CreateRunnerScaleSet
  <2>1. scaleSet \in {"absent", "ours", "foreign"}
    BY DEF CheckedInv
  <2> QED BY <1>4, <2>1, ResolvingSteps, MovesSupervise
<1>5. CASE Construct
  <2>0. CASE ~Constructible(loaded, build)
    <3>1. PrepareFails /\ UNCHANGED delays
      BY <1>5, <2>0, Zenon DEF Construct, Refused, Fail
    <3> QED BY <3>1 DEF SupervisorNext
  <2> SUFFICES ASSUME Constructible(loaded, build)
               PROVE  SupervisorNext /\ BackoffNext
    BY <2>0
  <2>1. /\ loaded.retryMaximum \in Delay
        /\ loaded.retryInitial \in 1..loaded.retryMaximum
    BY <1>5, AcceptedConstructs DEF Construct, At
  <2>2. /\ Begin(IF Enabled(loaded) THEN Component ELSE Core)
        /\ Configure(loaded.retryInitial, loaded.retryMaximum)
    BY <1>5, <2>1, Zenon DEF Construct
  <2>3. (IF Enabled(loaded) THEN Component ELSE Core) \in SUBSET Component
    BY CoreAssumption
  <2>4. SupervisorNext
    BY <2>2, <2>3, Zenon DEF SupervisorNext
  <2>5. BackoffNext
    BY <2>1, <2>2, Zenon DEF BackoffNext
  <2> QED BY <2>4, <2>5
<1>6. CASE RestartService
  <2>1. Restart /\ (Configure(1, 1) \/ UNCHANGED delays)
    BY <1>6 DEF RestartService
  <2>2. 1 \in Delay /\ 1 \in 1..1
    BY DurationAssumption DEF Delay
  <2> QED BY <2>1, <2>2 DEF SupervisorNext, BackoffNext
<1>7. CASE Works
  BY <1>7 DEF Works, SupervisorNext
<1>8. CASE Retries
  BY <1>8 DEF Retries, BackoffNext
<1> QED BY <1>0, <1>1, <1>2, <1>3, <1>4, <1>5, <1>6, <1>7, <1>8 DEF Next, Prepare

\* The service, from its first start through failed preparations and
\* restarts, is a supervisor.
LEMMA ServiceSupervises == Spec => SupervisorSpec
<1>1. Init => SupervisorInit
  BY DEF Init
<1> QED BY <1>1, CheckedInit, CheckedStep, ProcessSteps, PTL DEF Spec, SupervisorSpec

(***************************************************************************)
(* The process exits with success only after a stop it was asked for and   *)
(* that no component failed, whatever its preparations and restarts were.  *)
(***************************************************************************)
THEOREM ServiceSuccess == Spec => []SuccessIsEarned
  BY ServiceSupervises, SuccessEarned, PTL

(***************************************************************************)
(* And no component outlives it, unless it says that it timed out.         *)
(***************************************************************************)
THEOREM ServiceLeavesNone == Spec => []NoneLeftRunning
  BY ServiceSupervises, NoComponentLeft, PTL

\* The delays start as some configuration's and change as Backoff says.
LEMMA ServiceBacksOff == Spec => BackoffSpec
<1>1. Init => BackoffInit
  BY DurationAssumption DEF Init, BackoffInit, Delay
<1> QED BY <1>1, CheckedInit, CheckedStep, ProcessSteps, PTL DEF Spec, BackoffSpec

(***************************************************************************)
(* The components are never handed delays that wrap, whatever pair the     *)
(* operator wrote: a pair that could is refused before they start.         *)
(***************************************************************************)
THEOREM ServiceDelaysBounded == Spec => []WithinCap
  BY ServiceBacksOff, DelaysBounded, PTL

(***************************************************************************)
(* And they grow, failure after failure, up to the maximum of the settings *)
(* the running process was started with.                                   *)
(***************************************************************************)
THEOREM ServiceEscalates == Spec => Escalates
  BY ServiceBacksOff, DelaysEscalate, PTL
=============================================================================
