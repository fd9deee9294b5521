------------------------------ MODULE Process ------------------------------
(***************************************************************************)
(* The life of the service: runtime.Run (src/internal/runtime/runtime.go)  *)
(* loads and validates the configuration, prepares the adapters one after  *)
(* the other against Incus and GitHub, resolves or creates the scale set   *)
(* (src/internal/adapters/github/scaleset.go), constructs the components   *)
(* and hands them to the supervisor; systemd starts it again when it       *)
(* fails.  While the components run, their failures and reconnects go      *)
(* through the delays that the configuration set.                          *)
(*                                                                         *)
(* A fault is a request or a file read that fails although nothing is      *)
(* wrong with the configuration; after a stop request every request fails. *)
(***************************************************************************)
EXTENDS Config, Supervisor, Backoff

CONSTANTS Configurations,   \* what the operator may write into the file
          Builds,           \* version and commit of the binaries that may be installed
          Core,             \* components every process has; the others come with proofs
          StartLimitBurst,  \* starts within StartLimitIntervalSec, of the unit
          MaxFaults         \* bound: faults while a process is being started

ASSUME CoreAssumption == /\ Core \subseteq Component /\ Core # {}
                         /\ StartLimitBurst \in Nat \ {0} /\ MaxFaults \in Nat

\* The settings of Config, a time.Duration being a signed integer.
Duration == -(MaxDuration + 1)..MaxDuration

Settings ==
    [token : STRING, tokenFile : STRING, appClient : STRING, appInstallation : Int,
     appKeyFile : STRING, configURL : STRING, scaleSet : STRING, runnerGroup : STRING,
     pollTimeout : Duration, hostID : STRING, signingKeyFile : STRING, socket : STRING,
     url : STRING, clientCert : STRING, clientKey : STRING, serverCert : STRING,
     project : STRING, image : STRING, owner : STRING, bootstrapTimeout : Duration,
     profiles : Seq(STRING), diagnosticsDir : STRING, minRunners : Int, maxRunners : Int,
     operations : Int, reconcileInterval : Duration, operationTimeout : Duration,
     shutdown : Duration, retryInitial : Duration, retryMaximum : Duration]

ASSUME SettingsAssumption == Configurations \subseteq Settings

VARIABLES
  cfg,        \* the settings as written; forgotten once the components run
  build,      \* the BuildInfo of the installed binary; forgotten likewise
  step,       \* started, then the step of prepare that comes next, or running
  faults,     \* faults that may still happen before the components run
  client,     \* the context the Incus client is bound to: none, connect or run
  scaleSet,   \* the scale set of the configured name: absent, ours or foreign
  failed,     \* the step the last start failed in, or none
  starts      \* starts within the interval of the start limit

startup == <<cfg, build, step, faults, client, scaleSet, failed, starts>>
vars == <<supervision, delays, startup>>

\* The settings the process works with.
loaded == Load(cfg)

Init ==
    /\ SupervisorInit
    /\ initial = 1 /\ maximum = 1 /\ failure = 0 /\ current = 1 /\ waited = 1
    /\ cfg = <<>> /\ build = <<>>
    /\ step = "started"
    /\ faults = 0
    /\ client = "none"
    /\ scaleSet = "absent"
    /\ failed = "none"
    /\ starts = 1

-----------------------------------------------------------------------------
At(s) == pc = "prepare" /\ step = s

GoOn(next) == /\ step' = next
              /\ UNCHANGED <<supervision, delays, cfg, build, faults, failed, starts>>

\* prepare returns the error of its step.
Fail == /\ PrepareFails
        /\ failed' = step
        /\ UNCHANGED <<delays, cfg, build, step, starts>>

Refused == Fail /\ UNCHANGED faults

Fault == /\ stop \/ faults > 0
         /\ faults' = IF stop THEN faults ELSE faults - 1
         /\ Fail

\* A step that checks the settings, and reads a file or makes a request if
\* they are accepted.
Checked(ok, next) == IF ok THEN GoOn(next) \/ Fault ELSE Refused

\* A step that only constructs something.
Constructed(ok, next) == IF ok THEN GoOn(next) ELSE Refused

Requested(next) == (~stop /\ GoOn(next)) \/ Fault

-----------------------------------------------------------------------------
(* prepare *)

\* The process finds its build, the settings and, at GitHub, the scale set as
\* they are.
ReadConfig ==
    /\ At("started")
    /\ cfg' \in Configurations /\ build' \in Builds
    /\ faults' \in 0..MaxFaults
    /\ scaleSet' \in {"absent", "ours", "foreign"}
    /\ step' = "load"
    /\ UNCHANGED <<supervision, delays, client, failed, starts>>

\* initializeConfig, Load and ValidateRuntime.
LoadConfig ==
    /\ At("load")
    /\ Checked(Validate(loaded) /\ ValidateRuntime(loaded), "proofKey")
    /\ UNCHANGED <<client, scaleSet>>

\* prepareJobProofSigner reads the key only if proofs are configured.
prepareJobProofSigner ==
    /\ At("proofKey")
    /\ IF Enabled(loaded) THEN Checked(HostIdentity(loaded), "githubClient")
                          ELSE GoOn("githubClient")
    /\ UNCHANGED <<client, scaleSet>>

\* newGitHubClient takes the token, the file it is in, or the App.
newGitHubClient ==
    /\ At("githubClient")
    /\ Checked(\/ loaded.token # ""
               \/ ~IsBlank(IF loaded.tokenFile # "" THEN loaded.tokenFile
                                                    ELSE loaded.appKeyFile),
               "connect")
    /\ UNCHANGED <<client, scaleSet>>

\* The connection is made in a context that ends with the connect timeout.
Connect ==
    /\ At("connect")
    /\ IF ValidateConnection(loaded) /\ ~IsBlank(loaded.project)
         THEN Requested("backend") ELSE Refused
    /\ client' = IF step' = "backend" THEN "connect" ELSE client
    /\ UNCHANGED scaleSet

\* Faulty variant of withParentContext: the client keeps the canceled context.
keepConnectContext(context) == context

withParentContext(context) == "run"

newIncusBackend ==
    /\ At("backend")
    /\ Constructed(DiagnosticsSink(loaded) /\ newBackend(loaded), "preflight")
    /\ client' = withParentContext(client)
    /\ UNCHANGED scaleSet

\* Preflight, with a client whose context has not ended, then NewProofSink.
Preflight ==
    /\ At("preflight")
    /\ IF client = "run" THEN Requested("runnerGroup") ELSE Refused
    /\ UNCHANGED <<client, scaleSet>>

\* resolveRunnerGroupID knows the ID of the default group.
resolveRunnerGroupID ==
    /\ At("runnerGroup")
    /\ IF loaded.runnerGroup = "default" THEN GoOn("getScaleSet") ELSE Requested("getScaleSet")
    /\ UNCHANGED <<client, scaleSet>>

\* One that is there must be as the process would have created it
\* (validateResolvedScaleSet).
GetRunnerScaleSet ==
    /\ At("getScaleSet")
    /\ CASE scaleSet = "absent" -> Requested("createScaleSet")
         [] scaleSet = "ours" -> Requested("construct")
         [] scaleSet = "foreign" -> Refused \/ Fault
    /\ UNCHANGED <<client, scaleSet>>

\* A creation that fails may have happened.
CreateRunnerScaleSet ==
    /\ At("createScaleSet")
    /\ \/ ~stop /\ GoOn("construct") /\ scaleSet' = "ours"
       \/ Fault /\ scaleSet' \in {scaleSet, "ours"}
    /\ UNCHANGED client

\* The queue and the coordinator, the demand source and the application; the
\* components are started with the delays of the configuration.
Construct ==
    /\ At("construct")
    /\ IF Constructible(loaded, build)
         THEN /\ Begin(IF Enabled(loaded) THEN Component ELSE Core)
              /\ Configure(loaded.retryInitial, loaded.retryMaximum)
              /\ step' = "running" /\ cfg' = <<>> /\ build' = <<>> /\ faults' = 0
              /\ UNCHANGED <<failed, starts>>
         ELSE Refused
    /\ UNCHANGED <<client, scaleSet>>

Prepare == \/ ReadConfig
           \/ LoadConfig \/ prepareJobProofSigner \/ newGitHubClient
           \/ Connect \/ newIncusBackend \/ Preflight
           \/ resolveRunnerGroupID \/ GetRunnerScaleSet \/ CreateRunnerScaleSet
           \/ Construct

-----------------------------------------------------------------------------
\* systemd gives up when the starts come too fast; with time the earlier ones
\* do not count.  After a process that ran, anything may have been edited or upgraded
\* meanwhile, and is read anew; one that failed to start is tried again as it is.
RestartService ==
    /\ Restart
    /\ starts' \in {1, starts + 1} /\ starts' <= StartLimitBurst
    /\ client' = "none" /\ failed' = "none"
    /\ IF step = "running"
         THEN step' = "started" /\ scaleSet' = "absent" /\ Configure(1, 1)
         ELSE step' = "load" /\ UNCHANGED <<scaleSet, delays>>
    /\ UNCHANGED <<cfg, build, faults>>

Works == Supervise /\ UNCHANGED <<delays, startup>>

\* Failures, successes and reconnects of components that run.
Retries == /\ pc = "first" /\ ~canceled
           /\ Backs
           /\ UNCHANGED <<supervision, startup>>

Next == Prepare \/ RestartService \/ Works \/ Retries

Spec == Init /\ [][Next]_vars

(***************************************************************************)
(* Fairness: the goroutine of Run goes on, each request being answered or  *)
(* given up; the timer of the peers fires; a prompt component returns once *)
(* it is canceled; systemd restarts a failed service, up to its limit.     *)
(***************************************************************************)
Fairness ==
    /\ WF_vars(Prepare)
    /\ WF_vars(RunStep /\ UNCHANGED <<delays, startup>>)
    /\ WF_vars(BudgetExpires /\ UNCHANGED <<delays, startup>>)
    /\ \A c \in Prompt : WF_vars(canceled /\ ComponentEnds(c) /\ UNCHANGED <<delays, startup>>)
    /\ WF_vars(starts < StartLimitBurst /\ RestartService)

FairSpec == Spec /\ Fairness

-----------------------------------------------------------------------------
(* Properties *)

(***************************************************************************)
(* The process ends once any component has stopped, whatever the others    *)
(* do, and once it is asked to stop, in any step of its preparation too,   *)
(* if some component is prompt.                                            *)
(***************************************************************************)
Terminates ==
    (stop \/ \E c \in Component : state[c] \in Ended) ~> pc = "returned"

(***************************************************************************)
(* A start that has resolved, and perhaps created, the scale set at GitHub *)
(* is wasted for one reason only, which no setting causes and no edit      *)
(* cures: proofs are configured and the version or the commit linked into  *)
(* the binary is not fit for one.  It is looked at for the first time by   *)
(* the coordinator's constructor; of the settings, nothing constructed     *)
(* after the scale set asks for more than the steps before it did.         *)
(***************************************************************************)
ResolvedStarts == failed = "construct" => Enabled(loaded) /\ ~BuildIdentity(build)

(***************************************************************************)
(* With settings that pass the validation, identities and a directory the  *)
(* adapters accept, and a scale set that is absent or the process's own,   *)
(* the service comes up in the end, whichever requests fail, a creation    *)
(* whose answer was lost included, unless it is stopped or the failures,   *)
(* each of which costs a start, use up the start limit.                    *)
(***************************************************************************)
Startable == /\ pc = "prepare" /\ step # "started"
             /\ Validate(loaded) /\ ValidateRuntime(loaded)
             /\ Enabled(loaded) => validateHost(loaded, build)
             /\ DiagnosticsSink(loaded)
             /\ scaleSet # "foreign"
             /\ starts + faults <= StartLimitBurst

EventuallyRuns == Startable ~> (pc = "first" \/ stop)
=============================================================================
