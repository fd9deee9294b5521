------------------------------- MODULE Config -------------------------------
(***************************************************************************)
(* The configuration (src/internal/config/config.go): what Load makes of   *)
(* the settings, what Validate and ValidateRuntime accept, and what the    *)
(* constructors that are handed the accepted settings ask for once more.   *)
(*                                                                         *)
(* A string is empty, blank or a value; of an URL, a name that goes into a *)
(* query and an identity, only what the checks tell apart is kept.         *)
(***************************************************************************)
EXTENDS Integers

CONSTANT MinimumPoll      \* minimumMessagePollTimeout

\* It is five seconds.
ASSUME PollAssumption == MinimumPoll \in Nat

\* strings.TrimSpace
Trim(s) == IF s = " " THEN "" ELSE s

IsBlank(s) == Trim(s) = ""

-----------------------------------------------------------------------------
(* Load *)

\* Faulty variant of Load: the settings are taken as they are.
LoadUntrimmed(raw) == raw

Load(raw) == [raw EXCEPT !.token = Trim(@), !.tokenFile = Trim(@),
                         !.hostID = Trim(@), !.signingKeyFile = Trim(@)]

-----------------------------------------------------------------------------
(* Validation *)

Enabled(c) == ~IsBlank(c.hostID) /\ ~IsBlank(c.signingKeyFile)

validateJobProof(c) == IsBlank(c.hostID) = IsBlank(c.signingKeyFile)

\* Faulty variant of Validate: the retry delays are not compared.
ValidateNoOrder(c) ==
    /\ validateJobProof(c)
    /\ c.pollTimeout = 0 \/ c.pollTimeout >= MinimumPoll
    /\ c.minRunners >= 0 /\ c.maxRunners >= c.minRunners
    /\ c.operations >= 1
    /\ c.reconcileInterval > 0 /\ c.operationTimeout > 0 /\ c.shutdown > 0
    /\ c.retryInitial > 0

Validate(c) ==
    /\ validateJobProof(c)
    /\ c.pollTimeout = 0 \/ c.pollTimeout >= MinimumPoll
    /\ c.minRunners >= 0 /\ c.maxRunners >= c.minRunners
    /\ c.operations >= 1
    /\ c.reconcileInterval > 0 /\ c.operationTimeout > 0 /\ c.shutdown > 0
    /\ c.retryInitial > 0 /\ c.retryMaximum >= c.retryInitial

\* An organization needs a group of its own, a repository has the default
\* one.  An "unsafe" name would not survive its way through a query.
validateGitHubScheduling(c) ==
    /\ c.configURL \in {"organization", "repository"}
    /\ ~IsBlank(c.scaleSet) /\ c.scaleSet # "unsafe"
    /\ ~IsBlank(c.runnerGroup) /\ c.runnerGroup # "unsafe"
    /\ c.configURL = "repository" => c.runnerGroup = "default"
    /\ c.configURL = "organization" => c.runnerGroup \notin {"default", "Default"}

AppConfigured(c) == c.appClient # "" \/ c.appInstallation # 0 \/ c.appKeyFile # ""

\* Exactly one complete credential.
validateGitHub(c) ==
    /\ validateGitHubScheduling(c)
    /\ c.token = "" \/ IsBlank(c.tokenFile)
    /\ AppConfigured(c) # (c.token # "" \/ ~IsBlank(c.tokenFile))
    /\ AppConfigured(c) => /\ ~IsBlank(c.appClient)
                           /\ c.appInstallation > 0
                           /\ ~IsBlank(c.appKeyFile)

\* Exactly one transport, with the files it needs and no others.
ValidateConnection(c) ==
    LET files == <<c.clientCert, c.clientKey, c.serverCert>>
    IN IF IsBlank(c.url)
         THEN ~IsBlank(c.socket) /\ \A i \in 1..3 : IsBlank(files[i])
         ELSE IsBlank(c.socket) /\ c.url = "https" /\ \A i \in 1..3 : ~IsBlank(files[i])

validateIncus(c) ==
    /\ ValidateConnection(c)
    /\ ~IsBlank(c.project) /\ ~IsBlank(c.image) /\ ~IsBlank(c.owner)
    /\ c.bootstrapTimeout > 0
    /\ \A i \in DOMAIN c.profiles : ~IsBlank(c.profiles[i])

ValidateRuntime(c) == Validate(c) /\ validateGitHub(c) /\ validateIncus(c)

-----------------------------------------------------------------------------
(* What the constructors ask for *)

\* An identity that a proof carries has a bound.
validateIdentity(s) == ~IsBlank(s) /\ s # "too long"

\* NewEnvelopeVerifier
HostIdentity(c) == validateIdentity(c.hostID)

\* The version and the commit the linker put into the binary b.
BuildIdentity(b) == validateIdentity(b.version) /\ validateIdentity(b.commit)

\* newDiagnosticsSink: without a directory nothing is stored.
DiagnosticsSink(c) == c.diagnosticsDir = "" \/ ~IsBlank(c.diagnosticsDir)

newBackend(c) ==
    /\ ~IsBlank(c.image) /\ ~IsBlank(c.project) /\ ~IsBlank(c.owner)
    /\ c.bootstrapTimeout > 0

\* Faulty variant of QueueCapacity: one place per runner.
QueueCapacityOfRunners(c) == c.maxRunners

QueueCapacity(c) == IF c.maxRunners < 1 THEN 1 ELSE c.maxRunners

NewJobStartedQueue(c) == QueueCapacity(c) >= 1

validateHost(c, b) == HostIdentity(c) /\ BuildIdentity(b)

NewCoordinator(c, b) == validateHost(c, b) /\ c.operationTimeout > 0

newResilientDemandSource(c) ==
    /\ c.retryInitial > 0 /\ c.retryMaximum >= c.retryInitial
    /\ c.shutdown > 0 /\ c.pollTimeout >= 0
    /\ c.minRunners >= 0 /\ c.maxRunners >= c.minRunners

NewController(c) ==
    /\ c.minRunners >= 0 /\ c.maxRunners >= c.minRunners
    /\ c.operations >= 1
    /\ c.reconcileInterval > 0 /\ c.operationTimeout > 0 /\ c.shutdown > 0
    /\ c.retryInitial > 0 /\ c.retryMaximum >= c.retryInitial

\* app.New
NewApplication(c) == Validate(c) /\ NewController(c)

\* What binary b constructs once the scale set is resolved.
Constructible(c, b) ==
    /\ Enabled(c) => NewJobStartedQueue(c) /\ NewCoordinator(c, b)
    /\ newResilientDemandSource(c)
    /\ NewApplication(c)
=============================================================================
