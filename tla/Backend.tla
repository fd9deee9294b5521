------------------------------ MODULE Backend ------------------------------
(***************************************************************************)
(* The operations of the Incus backend (src/internal/adapters/incus) and   *)
(* of the scale set's Fence (src/internal/adapters/github/scaleset.go),    *)
(* request by request, against an Incus server that goes on with an        *)
(* operation nobody waits for, GitHub, and the guest of every VM.          *)
(*                                                                         *)
(* The controller has at most one operation per runner in flight (see      *)
(* OperationsAccounted of Controller), so the call in progress is a        *)
(* function of the runner.  Every request may fail, with or without having *)
(* had its effect; an expired context is a request that fails.             *)
(***************************************************************************)
EXTENDS Diagnostics

VARIABLES
  \* Incus and the guests
  inst,       \* inst[r]: the instance, see Inst
  oper,       \* oper[r]: the server operation Incus is carrying out
  guest,      \* guest[r]: what the guest's status file says
  files,      \* files[r]: the committed parts of the runtime payload
  aged,       \* runners created longer ago than BootstrapTimeout
  bound,      \* runners whose instance carries the JIT registration metadata
  \* GitHub
  gh,         \* gh[r]: none, idle or busy
  late,       \* late[r]: a JIT request nobody waits for any more, see Payload
  \* the calls in progress
  op,         \* op[r]: create, fence, delete, or none
  at,         \* at[r]: the request the call is about to make or waits for
  seen,       \* seen[r]: the status Delete read first
  ret,        \* ret[r]: how the last call about r ended
  evidence,   \* evidence[r]: what became of r's console log (history)
  \* ListOwned
  listing,    \* whether ListOwned is running
  listed      \* what it has found out

world == <<inst, oper, guest, files, aged, bound, gh, late>>
calls == <<op, at, seen, ret>>
store == <<directory, evidence>>
lister == <<listing, listed>>
vars == <<world, calls, store, lister>>

Inst == {"none", "stopped", "running"}
Step == {"idle",
         "verifyProfiles", "createInstance", "createWait", "payload", "bind",
         "start", "startWait", "pushPayload", "pushReady",
         "getRunner", "removeRunner", "confirmFence",
         "get", "stopGet", "stop", "stopWait", "diagnostics", "console", "store",
         "write", "verify", "delete", "deleteWait"}
Verdict == {"provisioning", "ready", "terminal", "absent", "unread"}
Call == {"create", "fence", "delete"}

TypeOK ==
    /\ inst \in [Runner -> Inst]
    /\ oper \in [Runner -> {"none", "create", "start", "stop", "delete"}]
    /\ guest \in [Runner -> {"off", "running", "exited"}]
    /\ files \in [Runner -> SUBSET {"payload", "ready"}]
    /\ aged \subseteq Runner
    /\ bound \subseteq Runner
    /\ gh \in [Runner -> {"none", "idle", "busy"}]
    /\ late \in [Runner -> {"no", "pending", "landed"}]
    /\ op \in [Runner -> Call \cup {"none"}]
    /\ at \in [Runner -> Step]
    /\ seen \in [Runner -> Inst]
    /\ ret \in [Runner -> {<<"none", FALSE>>} \cup Call \X BOOLEAN]
    /\ evidence \in [Runner -> {"none", "whole", "evicted", "lost"}]
    /\ logs \in [Name -> Kind]
    /\ older \subseteq Name \X Name
    /\ listing \in BOOLEAN
    /\ listed \in [Runner -> Verdict]

Init ==
    /\ inst = [r \in Runner |-> "none"]
    /\ oper = [r \in Runner |-> "none"]
    /\ guest = [r \in Runner |-> "off"]
    /\ files = [r \in Runner |-> {}]
    /\ aged = {}
    /\ bound = {}
    /\ gh = [r \in Runner |-> "none"]
    /\ late = [r \in Runner |-> "no"]
    /\ op = [r \in Runner |-> "none"]
    /\ at = [r \in Runner |-> "idle"]
    /\ seen = [r \in Runner |-> "none"]
    /\ ret = [r \in Runner |-> <<"none", FALSE>>]
    /\ evidence = [r \in Runner |-> "none"]
    /\ DirectoryInit
    /\ listing = FALSE
    /\ listed = [r \in Runner |-> "unread"]

-----------------------------------------------------------------------------
(* Steps of a call *)

Goto(r, step) == at' = [at EXCEPT ![r] = step] /\ UNCHANGED <<op, seen, ret>>

Return(r, ok) == /\ op' = [op EXCEPT ![r] = "none"]
                 /\ at' = [at EXCEPT ![r] = "idle"]
                 /\ seen' = [seen EXCEPT ![r] = "none"]
                 /\ ret' = [ret EXCEPT ![r] = <<op[r], ok>>]

\* A call about r begins; the controller never lists at the same time.
Begin(r, call, step) ==
    /\ op[r] = "none"
    /\ ~listing
    /\ op' = [op EXCEPT ![r] = call]
    /\ at' = [at EXCEPT ![r] = step]
    /\ listed' = [x \in Runner |-> "unread"]
    /\ evidence' = IF call = "create" THEN [evidence EXCEPT ![r] = "none"] ELSE evidence
    /\ UNCHANGED <<world, seen, ret, directory, listing>>

\* The request of the step fails, or is given up, without any effect.
Fails(r, step) == Goto(r, step) /\ UNCHANGED <<world, store, lister>>
FailsCall(r) == Return(r, FALSE) /\ UNCHANGED <<world, store, lister>>

-----------------------------------------------------------------------------
(* Create *)

\* NewID is random: the name belongs to no instance, no registration or
\* request for one, and no console log.
BeginCreate(r) ==
    /\ inst[r] = "none" /\ oper[r] = "none" /\ gh[r] = "none"
    /\ late[r] = "no" /\ r \notin Names
    /\ Begin(r, "create", "verifyProfiles")

\* pinnedIdentity, verifyProfiles and the checks of the generated name.
VerifyProfiles(r) ==
    /\ at[r] = "verifyProfiles"
    /\ \/ Goto(r, "createInstance") /\ UNCHANGED <<world, store, lister>>
       \/ FailsCall(r)

CreateInstance(r) ==
    /\ at[r] = "createInstance"
    /\ \/ /\ oper' = [oper EXCEPT ![r] = "create"]
          /\ Goto(r, "createWait")
          /\ UNCHANGED <<inst, guest, files, aged, bound, gh, late, store, lister>>
       \/ FailsCall(r)

CreateWait(r) ==
    /\ at[r] = "createWait"
    /\ \/ /\ oper[r] = "none" /\ inst[r] = "stopped"
          /\ Goto(r, "payload") /\ UNCHANGED <<world, store, lister>>
       \/ FailsCall(r)

\* fenceProvisioningFailure follows every failure after the instance exists.
provisioningFails(r) == Fails(r, "getRunner")

\* GenerateJitRunnerConfig registers the runner; the reply may be unusable,
\* and a request that is given up may be carried out later.
Payload(r) ==
    /\ at[r] = "payload"
    /\ \/ /\ gh' = [gh EXCEPT ![r] = "idle"]
          /\ \E step \in {"bind", "getRunner"} : Goto(r, step)
          /\ UNCHANGED <<inst, oper, guest, files, aged, bound, late, store, lister>>
       \/ /\ late' = [late EXCEPT ![r] = "pending"]
          /\ Goto(r, "getRunner")
          /\ UNCHANGED <<inst, oper, guest, files, aged, bound, gh, store, lister>>
       \/ provisioningFails(r)

\* Faulty variant of bindJITRegistration: the metadata is never written.
bindNothing(r) ==
    /\ at[r] = "bind"
    /\ Goto(r, "start") /\ UNCHANGED <<world, store, lister>>

bindJITRegistration(r) ==
    /\ at[r] = "bind"
    /\ \/ /\ inst[r] = "stopped"
          /\ bound' = bound \cup {r}
          /\ \E step \in {"start", "getRunner"} : Goto(r, step)
          /\ UNCHANGED <<inst, oper, guest, files, aged, gh, late, store, lister>>
       \/ provisioningFails(r)

StartInstance(r) ==
    /\ at[r] = "start"
    /\ \/ /\ oper' = [oper EXCEPT ![r] = "start"]
          /\ Goto(r, "startWait")
          /\ UNCHANGED <<inst, guest, files, aged, bound, gh, late, store, lister>>
       \/ provisioningFails(r)

StartWait(r) ==
    /\ at[r] = "startWait"
    /\ \/ /\ oper[r] = "none" /\ inst[r] = "running"
          /\ Goto(r, "pushPayload") /\ UNCHANGED <<world, store, lister>>
       \/ provisioningFails(r)

\* The file reaches the guest; without an acknowledgement it is sent again.
Push(r, file) ==
    /\ inst[r] = "running"
    /\ files' = [files EXCEPT ![r] = @ \cup {file}]
    /\ UNCHANGED <<inst, oper, guest, aged, bound, gh, late, store, lister>>

pushPayload(r) ==
    \/ /\ at[r] = "pushPayload"
       /\ \/ Push(r, "payload") /\ \E step \in {"pushReady", "pushPayload"} : Goto(r, step)
          \/ provisioningFails(r)
    \/ /\ at[r] = "pushReady"
       /\ \/ Push(r, "ready") /\ (Return(r, TRUE) \/ Goto(r, "pushReady"))
          \/ provisioningFails(r)

-----------------------------------------------------------------------------
(* Fence, called by the controller, by Create's error paths and by Delete *)

BeginFence(r) == Begin(r, "fence", "getRunner")

AfterFence(r) == IF seen[r] = "stopped" THEN "diagnostics" ELSE "stopGet"

\* Faulty variant of fenced: Delete goes on although the fence failed.
fencedAnyway(r, ok) ==
    \/ op[r] = "create" /\ Return(r, FALSE)
    \/ op[r] = "fence" /\ Return(r, ok)
    \/ op[r] = "delete" /\ Goto(r, AfterFence(r))

\* Where the caller of Fence goes on.
fenced(r, ok) ==
    \/ op[r] = "create" /\ Return(r, FALSE)
    \/ op[r] = "fence" /\ Return(r, ok)
    \/ op[r] = "delete" /\ ok /\ Goto(r, AfterFence(r))
    \/ op[r] = "delete" /\ ~ok /\ Return(r, FALSE)

\* GitHub drops the registration of r, a late one too.
Unregistered(r) ==
    /\ gh' = [gh EXCEPT ![r] = "none"]
    /\ late' = IF late[r] = "landed" THEN [late EXCEPT ![r] = "no"] ELSE late

GetRunnerByName(r) ==
    /\ at[r] = "getRunner"
    /\ \/ gh[r] = "none" /\ fenced(r, TRUE)
       \/ gh[r] # "none" /\ Goto(r, "removeRunner")
       \/ fenced(r, FALSE)
    /\ UNCHANGED <<world, store, lister>>

\* GitHub refuses to remove a runner with a job.
RemoveRunner(r) ==
    /\ at[r] = "removeRunner"
    /\ \/ /\ gh[r] # "busy"
          /\ Unregistered(r)
          /\ Goto(r, "confirmFence") \/ fenced(r, FALSE)
       \/ fenced(r, FALSE) /\ UNCHANGED <<gh, late>>
    /\ UNCHANGED <<inst, oper, guest, files, aged, bound, store, lister>>

ConfirmFence(r) ==
    /\ at[r] = "confirmFence"
    /\ \/ gh[r] = "none" /\ fenced(r, TRUE)
       \/ fenced(r, FALSE)
    /\ UNCHANGED <<world, store, lister>>

-----------------------------------------------------------------------------
(* Delete *)

\* The controller deletes only what a listing has shown.
BeginDelete(r) == oper[r] # "create" /\ Begin(r, "delete", "get")

\* Faulty variant of GetInstance: the registration is not fenced.
GetInstanceUnfenced(r) ==
    /\ at[r] = "get"
    /\ \/ inst[r] = "none" /\ Return(r, TRUE)
       \/ inst[r] # "none" /\ Goto(r, "stopGet")
       \/ Return(r, FALSE)
    /\ UNCHANGED <<world, store, lister>>

\* An instance that is not found is a success, an unexpected one an error.
GetInstance(r) ==
    /\ at[r] = "get"
    /\ \/ inst[r] = "none" /\ Return(r, TRUE)
       \/ /\ inst[r] # "none"
          /\ seen' = [seen EXCEPT ![r] = inst[r]]
          /\ at' = [at EXCEPT ![r] = "getRunner"]
          /\ UNCHANGED <<op, ret>>
       \/ Return(r, FALSE)
    /\ UNCHANGED <<world, store, lister>>

\* getVerifiedInstance: r still is the instance Delete began with.
getVerified(r, step) == inst[r] # "none" /\ Goto(r, step)

stopInstance(r) ==
    \/ /\ at[r] = "stopGet"
       /\ \/ getVerified(r, IF inst[r] = "stopped" THEN "diagnostics" ELSE "stop")
          \/ Return(r, FALSE)
       /\ UNCHANGED <<world, store, lister>>
    \/ /\ at[r] = "stop"
       /\ \/ /\ inst[r] = "running" /\ oper[r] = "none"
             /\ oper' = [oper EXCEPT ![r] = "stop"]
             /\ Goto(r, "stopWait")
             /\ UNCHANGED <<inst, guest, files, aged, bound, gh, late, store, lister>>
          \/ FailsCall(r)
    \/ /\ at[r] = "stopWait"
       /\ \/ oper[r] = "none" /\ inst[r] = "stopped" /\ Goto(r, "diagnostics")
          \/ Return(r, FALSE)
       /\ UNCHANGED <<world, store, lister>>

\* The log of r is not kept this time.
NotKept(r) ==
    evidence' = IF evidence[r] = "none" THEN [evidence EXCEPT ![r] = "lost"] ELSE evidence

\* A prune may push out the logs of other runners.
Evictions == [q \in Runner |-> IF evidence[q] = "whole" /\ q \notin Names'
                                 THEN "evicted" ELSE evidence[q]]

\* GetInstanceConsoleLog; an instance without a log and a failure are the same.
GetConsoleLog(r) ==
    /\ at[r] = "console"
    /\ \/ Goto(r, "store") /\ UNCHANGED evidence
       \/ Goto(r, "verify") /\ NotKept(r)
    /\ UNCHANGED <<world, directory, lister>>

\* Faulty variant of Store: the destination is not looked at and truncated.
StoreOver(r) ==
    /\ at[r] = "store"
    /\ Created(r, "partial")
    /\ evidence' = Evictions
    /\ Goto(r, "write")
    /\ UNCHANGED <<world, lister>>

\* The Store of r holds the mutex of the sink.
EntersStore(r) == at[r] = "store" /\ \A q \in Runner : at[q] # "write"

\* Store up to the exclusive creation of the file, or its failure.
Store(r) ==
    /\ EntersStore(r)
    /\ \/ r \in Names /\ Goto(r, "verify") /\ UNCHANGED store
       \/ Goto(r, "verify") /\ NotKept(r) /\ UNCHANGED directory
       \/ /\ r \notin Names
          /\ OnlyPrunes
          /\ Goto(r, "verify")
          /\ evidence' = [Evictions EXCEPT ![r] = IF @ = "none" THEN "lost" ELSE @]
       \/ /\ r \notin Names
          /\ Created(r, "partial")
          /\ evidence' = Evictions
          /\ Goto(r, "write")
    /\ UNCHANGED <<world, lister>>

\* The write and the close; a failed one removes the file, if it can.
WriteLog(r) ==
    /\ at[r] = "write"
    /\ Goto(r, "verify")
    /\ \/ /\ Written(r)
          /\ evidence' = [evidence EXCEPT ![r] = "whole"]
       \/ (UNCHANGED directory \/ Removed(r)) /\ NotKept(r)
    /\ UNCHANGED <<world, lister>>

\* Collecting and storing the console log is best effort; the identity check is not.
collectDiagnostics(r) ==
    \/ /\ at[r] = "diagnostics"
       /\ getVerified(r, "console") \/ Return(r, FALSE)
       /\ UNCHANGED <<world, store, lister>>
    \/ GetConsoleLog(r) \/ Store(r) \/ WriteLog(r)

VerifyBeforeDelete(r) ==
    /\ at[r] = "verify"
    /\ getVerified(r, "delete") \/ Return(r, FALSE)
    /\ UNCHANGED <<world, store, lister>>

\* Faulty variant of DeleteInstance: the operation is not waited for.
DeleteInstanceNoWait(r) ==
    /\ at[r] = "delete"
    /\ \/ /\ inst[r] = "stopped" /\ oper[r] = "none"
          /\ oper' = [oper EXCEPT ![r] = "delete"]
          /\ Return(r, TRUE)
          /\ UNCHANGED <<inst, guest, files, aged, bound, gh, late, store, lister>>
       \/ FailsCall(r)

\* Incus refuses to delete an instance that runs or is being started.
DeleteInstance(r) ==
    \/ /\ at[r] = "delete"
       /\ \/ /\ inst[r] = "stopped" /\ oper[r] = "none"
             /\ oper' = [oper EXCEPT ![r] = "delete"]
             /\ Goto(r, "deleteWait")
             /\ UNCHANGED <<inst, guest, files, aged, bound, gh, late, store, lister>>
          \/ inst[r] = "none" /\ Return(r, TRUE) /\ UNCHANGED <<world, store, lister>>
          \/ FailsCall(r)
    \/ /\ at[r] = "deleteWait"
       /\ \/ oper[r] = "none" /\ inst[r] = "none" /\ Return(r, TRUE)
          \/ Return(r, FALSE)
       /\ UNCHANGED <<world, store, lister>>

-----------------------------------------------------------------------------
(* ListOwned *)

\* Faulty variant of runnerState: a VM without a status file is terminal.
runnerStateHasty(r) ==
    IF inst[r] = "running" /\ guest[r] = "running" THEN "ready" ELSE "terminal"

\* runnerState of an instance whose status file can be read.
runnerState(r) == IF inst[r] = "stopped" \/ guest[r] = "exited" THEN "terminal"
                  ELSE IF guest[r] = "running" THEN "ready"
                  ELSE IF r \in aged THEN "terminal"
                  ELSE "provisioning"

\* GetInstances; only running instances need their status file read.
BeginList ==
    /\ \A r \in Runner : op[r] = "none"
    /\ ~listing
    /\ listing' = TRUE
    /\ listed' = [r \in Runner |-> CASE inst[r] = "none" -> "absent"
                                     [] inst[r] = "stopped" -> "terminal"
                                     [] OTHER -> "unread"]
    /\ UNCHANGED <<world, calls, store>>

ReadStatus(r) ==
    /\ listing
    /\ listed[r] = "unread"
    /\ inst[r] = "running"
    /\ listed' = [listed EXCEPT ![r] = runnerState(r)]
    /\ UNCHANGED <<world, calls, store, listing>>

\* One status file that cannot be read fails the whole listing.
ListFails == /\ listing
             /\ listing' = FALSE
             /\ listed' = [r \in Runner |-> "unread"]
             /\ UNCHANGED <<world, calls, store>>

EndList == /\ listing
           /\ \A r \in Runner : listed[r] # "unread"
           /\ listing' = FALSE
           /\ UNCHANGED <<world, calls, store, listed>>

-----------------------------------------------------------------------------
(* Incus, the guests and GitHub *)

Outcome == [create |-> "stopped", start |-> "running", stop |-> "stopped",
            delete |-> "none"]

\* Incus completes the operation it carries out, or it fails.
ServerCompletes(r) ==
    /\ oper[r] # "none"
    /\ \E s \in {inst[r], Outcome[oper[r]]} : inst' = [inst EXCEPT ![r] = s]
    /\ oper' = [oper EXCEPT ![r] = "none"]
    /\ IF inst'[r] = "none"
         THEN /\ guest' = [guest EXCEPT ![r] = "off"]
              /\ files' = [files EXCEPT ![r] = {}]
              /\ aged' = aged \ {r}
              /\ bound' = bound \ {r}
         ELSE UNCHANGED <<guest, files, aged, bound>>
    /\ UNCHANGED <<gh, late, calls, store, lister>>

BootstrapExpires(r) ==
    /\ inst[r] # "none" /\ r \notin aged
    /\ aged' = aged \cup {r}
    /\ UNCHANGED <<inst, oper, guest, files, bound, gh, late, calls, store, lister>>

\* The guest service: both files are there, they are removed, then it runs.
GuestRuns(r) ==
    /\ inst[r] = "running" /\ guest[r] = "off" /\ files[r] = {"payload", "ready"}
    /\ guest' = [guest EXCEPT ![r] = "running"]
    /\ files' = [files EXCEPT ![r] = {}]
    /\ UNCHANGED <<inst, oper, aged, bound, gh, late, calls, store, lister>>

\* run.sh ended, or the service failed: finish writes "exited".
GuestFinishes(r) ==
    /\ inst[r] = "running"
    /\ guest[r] = "running" \/ (guest[r] = "off" /\ "ready" \in files[r])
    /\ guest' = [guest EXCEPT ![r] = "exited"]
    /\ files' = [files EXCEPT ![r] = {}]
    /\ UNCHANGED <<inst, oper, aged, bound, gh, late, calls, store, lister>>

\* The guest powers off, or the VM breaks.
PowersOff(r) ==
    /\ inst[r] = "running"
    /\ inst' = [inst EXCEPT ![r] = "stopped"]
    /\ UNCHANGED <<oper, guest, files, aged, bound, gh, late, calls, store, lister>>

Connected(r) == inst[r] = "running" /\ guest[r] = "running"

GitHubActs(r) ==
    /\ \/ gh[r] = "idle" /\ Connected(r) /\ gh' = [gh EXCEPT ![r] = "busy"] /\ UNCHANGED late
       \/ gh[r] = "busy" /\ Connected(r) /\ Unregistered(r)
       \/ /\ gh[r] # "none" /\ op[r] # "create"
          /\ inst[r] # "running" \/ guest[r] = "exited"
          /\ Unregistered(r)
    /\ UNCHANGED <<inst, oper, guest, files, aged, bound, calls, store, lister>>

\* GitHub carries out, or drops, a JIT request that was given up.
LateRegistration(r) ==
    /\ late[r] = "pending"
    /\ \/ /\ late' = [late EXCEPT ![r] = "landed"]
          /\ gh' = [gh EXCEPT ![r] = "idle"]
       \/ late' = [late EXCEPT ![r] = "no"] /\ UNCHANGED gh
    /\ UNCHANGED <<inst, oper, guest, files, aged, bound, calls, store, lister>>

\* Another worker stores a log; the mutex keeps it out of r's Store.
OtherWorker(name) ==
    /\ \A r \in Runner : at[r] # "write"
    /\ OtherStores(name)
    /\ evidence' = Evictions
    /\ UNCHANGED <<world, calls, lister>>

\* The process dies in the middle of the call (all its calls do): the JIT
\* request it waits for may still be carried out, the log it writes stays, and
\* a prune it was at has made room for a file that is not there.
Crash(r) ==
    /\ op[r] # "none"
    /\ Return(r, FALSE)
    /\ late' = IF at[r] = "payload" THEN [late EXCEPT ![r] = "pending"] ELSE late
    /\ \/ /\ UNCHANGED directory
          /\ IF at[r] = "write" THEN NotKept(r) ELSE UNCHANGED evidence
       \/ /\ EntersStore(r) /\ r \notin Names
          /\ OnlyPrunes
          /\ evidence' = Evictions
    /\ UNCHANGED <<inst, oper, guest, files, aged, bound, gh, lister>>

-----------------------------------------------------------------------------
CallStep(r) == \/ BeginCreate(r) \/ VerifyProfiles(r) \/ CreateInstance(r)
               \/ CreateWait(r) \/ Payload(r) \/ bindJITRegistration(r)
               \/ StartInstance(r) \/ StartWait(r) \/ pushPayload(r)
               \/ BeginFence(r) \/ GetRunnerByName(r) \/ RemoveRunner(r)
               \/ ConfirmFence(r)
               \/ BeginDelete(r) \/ GetInstance(r) \/ stopInstance(r)
               \/ collectDiagnostics(r) \/ VerifyBeforeDelete(r) \/ DeleteInstance(r)
               \/ Crash(r)

WorldStep(r) == \/ ServerCompletes(r) \/ BootstrapExpires(r) \/ GuestRuns(r)
                \/ GuestFinishes(r) \/ PowersOff(r) \/ GitHubActs(r)
                \/ LateRegistration(r)

Next == \/ \E r \in Runner : CallStep(r) \/ WorldStep(r) \/ ReadStatus(r)
        \/ \E name \in Other : OtherWorker(name)
        \/ BeginList \/ ListFails \/ EndList

Spec == Init /\ [][Next]_vars

-----------------------------------------------------------------------------
(* Properties *)

\* From here on a create has given rise to a runner that can work on its own.
Committed(r) == "ready" \in files[r] \/ guest[r] # "off"

\* A create in progress that can still be forgotten as a whole.
Hidden(r) == op[r] = "create" /\ ~Committed(r)

vmOf(r) ==
    IF Hidden(r) THEN "absent"
    ELSE IF inst[r] = "none" THEN IF oper[r] = "create" THEN "coming" ELSE "absent"
    ELSE IF inst[r] = "stopped" THEN IF oper[r] = "start" THEN "starting" ELSE "ended"
    ELSE IF guest[r] = "exited" THEN "ended"
    ELSE IF guest[r] = "running" THEN "ready"
    ELSE IF r \in aged THEN "overdue"
    ELSE "booting"

ghOf(r) == IF Hidden(r) \/ late[r] = "landed" THEN "none" ELSE gh[r]

F == INSTANCE Fleet WITH HasJobs <- TRUE,
                         vm <- [r \in Runner |-> vmOf(r)],
                         gh <- [r \in Runner |-> ghOf(r)]

(***************************************************************************)
(* The requests of Create, Delete and Fence, whatever fails and wherever   *)
(* the process dies, do to a runner only what Fleet says the controller    *)
(* must expect: a create is all or nothing or a failed create, and nothing *)
(* but a create ever registers a runner.                                   *)
(***************************************************************************)
ImplementsFleet == F!FleetSpec

(***************************************************************************)
(* Incus is never asked to stop or to delete a VM that is running a job:   *)
(* the registration is fenced first, GitHub refuses the fence while the    *)
(* job runs, and a fenced runner gets no job.                              *)
(***************************************************************************)
JobSurvives == \A r \in Runner : oper[r] \in {"stop", "delete"} => gh[r] # "busy"

(***************************************************************************)
(* What a call reports is true when it returns and stays so until the next *)
(* call: a created runner has been handed its payload on an instance that  *)
(* carries its registration, a fenced one is not registered, a deleted one *)
(* has neither instance nor registration.  The exception is a registration *)
(* that a JIT request given up earlier brings about late: it stays idle,   *)
(* for nobody has its configuration.                                       *)
(***************************************************************************)
Unusable(r) == late[r] = "landed" /\ gh[r] = "idle"

AnswersAreTrue ==
    \A r \in Runner : op[r] = "none" =>
      /\ ret[r] = <<"create", TRUE>> => Committed(r) /\ r \in bound
      /\ ret[r] = <<"fence", TRUE>> => gh[r] = "none" \/ Unusable(r)
      /\ ret[r] = <<"delete", TRUE>> => inst[r] = "none" /\ (gh[r] = "none" \/ Unusable(r))

(***************************************************************************)
(* A runner a listing calls terminal never comes to work, unless it was    *)
(* given up for its age, and a VM a listing leaves out is not up.          *)
(***************************************************************************)
VerdictsStand ==
    \A r \in Runner :
      /\ listed[r] = "terminal" /\ Connected(r) => r \in aged
      /\ listed[r] = "absent" => inst[r] # "running"

(***************************************************************************)
(* Only a VM that carries its registration metadata ever runs a job, so    *)
(* every job can be attested: the metadata is bound before the start.      *)
(***************************************************************************)
JobIsBound == \A r \in Runner : gh[r] = "busy" => r \in bound

(***************************************************************************)
(* Incus is asked to delete a VM only after Delete has tried to keep its   *)
(* console log, and a log that was stored whole stays as it is until newer *)
(* logs push it out: a Delete that is tried again, also after a crash in   *)
(* the middle of a Store, neither cuts it short nor removes it.            *)
(***************************************************************************)
EvidenceKept ==
    \A r \in Runner :
      /\ oper[r] = "delete" => evidence[r] # "none"
      /\ evidence[r] = "whole" => logs[r] = "whole"
=============================================================================
