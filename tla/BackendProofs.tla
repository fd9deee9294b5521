--------------------------- MODULE BackendProofs ---------------------------
(***************************************************************************)
(* Theorems about Backend, for any number of runners: a job survives, what *)
(* the calls and the listings say is true, the requests implement the      *)
(* atomic operations of Fleet, and the console logs are bounded and kept.  *)
(***************************************************************************)
EXTENDS Backend, FiniteSetTheorems, TLAPS

\* The steps of Delete after the fence, those of Create before the
\* registration exists, and those it takes with the runner's configuration.
AfterFenceSteps == {"stopGet", "stop", "stopWait", "diagnostics", "console", "store",
                    "write", "verify", "delete", "deleteWait"}
BeforeJITSteps == {"verifyProfiles", "createInstance", "createWait", "payload"}
WithJITSteps == {"bind", "start", "startWait", "pushPayload", "pushReady"}

JobTypeOK == /\ at \in [Runner -> Step]
             /\ inst \in [Runner -> Inst]
             /\ oper \in [Runner -> {"none", "create", "start", "stop", "delete"}]
             /\ guest \in [Runner -> {"off", "running", "exited"}]
             /\ files \in [Runner -> SUBSET {"payload", "ready"}]
             /\ gh \in [Runner -> {"none", "idle", "busy"}]
             /\ late \in [Runner -> {"no", "pending", "landed"}]

\* A guest that has been handed nothing cannot connect.
Blank(r) == files[r] = {} /\ guest[r] = "off"

(***************************************************************************)
(* JobSurvives is not inductive.  The strengthening follows the            *)
(* registration: none is left once Delete is past its fence, none is left  *)
(* while Incus stops or deletes the VM, also on behalf of a call that is   *)
(* long gone, except one that a JIT request given up earlier brought about *)
(* late.  Such a registration stays idle, for its guest was never handed   *)
(* anything.  A create that may still register finds nothing of an earlier *)
(* life of the name.                                                       *)
(***************************************************************************)
JobInv(r) ==
    /\ at[r] \in AfterFenceSteps => gh[r] = "none" \/ late[r] = "landed"
    /\ oper[r] \in {"stop", "delete"} => gh[r] = "none" \/ late[r] = "landed"
    /\ at[r] \in BeforeJITSteps => /\ oper[r] \in {"none", "create"}
                                   /\ Blank(r) /\ gh[r] = "none" /\ late[r] = "no"
    /\ at[r] \in WithJITSteps => late[r] = "no"
    /\ late[r] # "no" => Blank(r)
    /\ late[r] = "pending" => gh[r] = "none"
    /\ late[r] = "landed" => gh[r] = "idle"
    /\ inst[r] = "none" => Blank(r)

Inv == JobTypeOK /\ \A r \in Runner : JobInv(r)

\* A step about r leaves the other runners alone.
Frame(r) ==
    \A q \in Runner \ {r} :
      /\ at'[q] = at[q] /\ inst'[q] = inst[q] /\ oper'[q] = oper[q]
      /\ guest'[q] = guest[q] /\ files'[q] = files[q]
      /\ gh'[q] = gh[q] /\ late'[q] = late[q]

\* A step that concerns r alone needs a look at r alone.
LEMMA OneRunner ==
    ASSUME Inv, NEW r \in Runner, JobTypeOK', Frame(r), JobInv(r)'
    PROVE  Inv'
<1>1. ASSUME NEW q \in Runner \ {r} PROVE JobInv(q)'
  BY <1>1 DEF Inv, Frame, JobInv, Blank
<1> QED
  BY <1>1 DEF Inv

\* A step that touches nothing the invariant is about.
LEMMA NoRunner == ASSUME Inv, UNCHANGED <<at, world>> PROVE Inv'
  BY DEF Inv, JobTypeOK, JobInv, Blank, world

\* A call that moves on or ends while nothing outside changes.
LEMMA Moves ==
    ASSUME Inv, NEW r \in Runner, NEW s \in Step,
           at' = [at EXCEPT ![r] = s], UNCHANGED world,
           s \in AfterFenceSteps => gh[r] = "none" \/ late[r] = "landed",
           s \in BeforeJITSteps => /\ oper[r] \in {"none", "create"}
                                   /\ Blank(r) /\ gh[r] = "none" /\ late[r] = "no",
           s \in WithJITSteps => late[r] = "no"
    PROVE  Inv'
<1>1. JobTypeOK'
  BY DEF Inv, JobTypeOK, world
<1>2. Frame(r)
  BY DEF Inv, JobTypeOK, world, Frame
<1>3. JobInv(r)'
  BY DEF Inv, JobTypeOK, world, JobInv, Blank
<1> QED
  BY <1>1, <1>2, <1>3, OneRunner

\* A call returns, or the process dies under it.
LEMMA Returns ==
    ASSUME Inv, NEW r \in Runner, NEW ok, Return(r, ok), UNCHANGED world
    PROVE  Inv'
<1>1. at' = [at EXCEPT ![r] = "idle"] /\ "idle" \in Step
  BY DEF Return, Step
<1> QED
  BY <1>1, Moves DEF AfterFenceSteps, BeforeJITSteps, WithJITSteps

\* A step moves the call of r and changes the operation on its instance.
LEMMA Operates ==
    ASSUME Inv, NEW r \in Runner, NEW s \in Step, NEW o \in {"create", "start", "stop", "delete"},
           at' = [at EXCEPT ![r] = s], oper' = [oper EXCEPT ![r] = o],
           UNCHANGED <<inst, guest, files, gh, late>>,
           s \in AfterFenceSteps \/ o \in {"stop", "delete"} => at[r] \in AfterFenceSteps,
           s \in BeforeJITSteps => at[r] \in BeforeJITSteps /\ o = "create",
           s \in WithJITSteps => at[r] \in WithJITSteps
    PROVE  Inv'
<1>1. JobTypeOK'
  BY DEF Inv, JobTypeOK
<1>2. Frame(r)
  BY DEF Inv, JobTypeOK, Frame
<1>3. JobInv(r)'
  BY DEF Inv, JobTypeOK, JobInv, Blank
<1> QED
  BY <1>1, <1>2, <1>3, OneRunner

\* A step changes the registration of r, and perhaps moves its call.
LEMMA Registers ==
    ASSUME Inv, NEW r \in Runner, NEW s \in Step, NEW g \in {"none", "idle", "busy"},
           NEW l \in {"no", "pending", "landed"},
           at' = [at EXCEPT ![r] = s], gh' = [gh EXCEPT ![r] = g],
           late' = [late EXCEPT ![r] = l],
           UNCHANGED <<inst, oper, guest, files>>,
           s \in AfterFenceSteps \/ oper[r] \in {"stop", "delete"}
             => g = "none" \/ l = "landed",
           s \in BeforeJITSteps => s = at[r] /\ g = gh[r] /\ l = late[r],
           s \in WithJITSteps => l = "no",
           l # "no" => Blank(r),
           l = "pending" => g = "none",
           l = "landed" => g = "idle"
    PROVE  Inv'
<1>1. JobTypeOK'
  BY DEF Inv, JobTypeOK
<1>2. Frame(r)
  BY DEF Inv, JobTypeOK, Frame
<1>3. JobInv(r)'
  BY DEF Inv, JobTypeOK, JobInv, Blank
<1> QED
  BY <1>1, <1>2, <1>3, OneRunner

\* The steps of Create: it registers no VM that an earlier call began.
LEMMA CreateKeeps ==
    ASSUME Inv, NEW r \in Runner,
           \/ BeginCreate(r) \/ VerifyProfiles(r) \/ CreateInstance(r) \/ CreateWait(r)
           \/ Payload(r) \/ bindJITRegistration(r) \/ StartInstance(r) \/ StartWait(r)
           \/ pushPayload(r)
    PROVE  Inv'
<1> USE DEF Step, AfterFenceSteps, BeforeJITSteps, WithJITSteps
<1>1. JobTypeOK /\ JobInv(r)
  BY DEF Inv
<1>2. CASE BeginCreate(r)
  BY <1>1, <1>2, Moves DEF BeginCreate, Begin, JobInv
<1>3. CASE VerifyProfiles(r) \/ CreateWait(r)
  BY <1>1, <1>3, Moves, Returns DEF VerifyProfiles, CreateWait, FailsCall, Goto, JobInv
<1>4. CASE CreateInstance(r)
  BY <1>1, <1>4, Operates, Returns DEF CreateInstance, FailsCall, Goto
<1>5. ASSUME provisioningFails(r) PROVE Inv'
  BY <1>5, Moves DEF provisioningFails, Fails, Goto
<1>6. CASE Payload(r)
  <2>1. ASSUME NEW s \in {"bind", "getRunner"}, Goto(r, s), UNCHANGED late,
               gh' = [gh EXCEPT ![r] = "idle"], UNCHANGED <<inst, oper, guest, files>>
        PROVE  Inv'
    <3>1. late' = [late EXCEPT ![r] = "no"]
      BY <1>1, <1>6, <2>1 DEF Payload, JobTypeOK, JobInv
    <3> QED
      BY <1>1, <1>6, <2>1, <3>1, Registers DEF Payload, Goto, JobInv
  <2>2. ASSUME late' = [late EXCEPT ![r] = "pending"], Goto(r, "getRunner"), UNCHANGED gh,
               UNCHANGED <<inst, oper, guest, files>>
        PROVE  Inv'
    <3>1. gh' = [gh EXCEPT ![r] = "none"]
      BY <1>1, <1>6, <2>2 DEF Payload, JobTypeOK, JobInv
    <3> QED
      BY <1>1, <1>6, <2>2, <3>1, Registers DEF Payload, Goto, JobInv
  <2> QED
    BY <1>5, <1>6, <2>1, <2>2 DEF Payload
<1>7. ASSUME NEW s \in Step, Goto(r, s), UNCHANGED <<inst, oper, guest, gh, late>>,
             at[r] \in WithJITSteps, s \notin AfterFenceSteps, s \notin BeforeJITSteps,
             files' = files \/ /\ inst[r] = "running"
                               /\ \E f \in {"payload", "ready"} :
                                    files' = [files EXCEPT ![r] = @ \cup {f}]
      PROVE  Inv'
  <2>1. JobTypeOK'
    BY <1>1, <1>7 DEF JobTypeOK, Goto
  <2>2. Frame(r)
    BY <1>1, <1>7 DEF JobTypeOK, Goto, Frame
  <2>3. JobInv(r)'
    BY <1>1, <1>7 DEF JobTypeOK, Goto, JobInv, Blank
  <2> QED
    BY <2>1, <2>2, <2>3, OneRunner
<1>8. CASE bindJITRegistration(r) \/ StartWait(r)
  BY <1>5, <1>7, <1>8 DEF bindJITRegistration, StartWait, world
<1>9. CASE StartInstance(r)
  BY <1>5, <1>9, Operates DEF StartInstance, Goto
<1>10. CASE pushPayload(r)
  <2>1. ASSUME NEW f \in {"payload", "ready"}, Push(r, f), Return(r, TRUE),
               at[r] = "pushReady"
        PROVE  Inv'
    <3>1. JobTypeOK'
      BY <1>1, <2>1 DEF JobTypeOK, Push, Return
    <3>2. Frame(r)
      BY <1>1, <2>1 DEF JobTypeOK, Push, Return, Frame
    <3>3. JobInv(r)'
      BY <1>1, <2>1 DEF JobTypeOK, Push, Return, JobInv, Blank
    <3> QED
      BY <3>1, <3>2, <3>3, OneRunner
  <2> QED
    BY <1>5, <1>7, <1>10, <2>1 DEF pushPayload, Push
<1> QED
  BY <1>2, <1>3, <1>4, <1>6, <1>8, <1>9, <1>10

\* The steps of Fence: the fence is passed only when no registration is left.
LEMMA FenceKeeps ==
    ASSUME Inv, NEW r \in Runner,
           BeginFence(r) \/ GetRunnerByName(r) \/ RemoveRunner(r) \/ ConfirmFence(r)
    PROVE  Inv'
<1> USE DEF Step, AfterFenceSteps, BeforeJITSteps, WithJITSteps
<1>1. JobTypeOK /\ JobInv(r)
  BY DEF Inv
<1>2. CASE BeginFence(r)
  BY <1>2, Moves DEF BeginFence, Begin
<1>3. ASSUME NEW ok \in BOOLEAN, fenced(r, ok), ok => gh[r] = "none", UNCHANGED world
      PROVE  Inv'
  BY <1>3, Moves, Returns DEF fenced, AfterFence, Goto
<1>4. CASE GetRunnerByName(r) \/ ConfirmFence(r)
  BY <1>3, <1>4, Moves DEF GetRunnerByName, ConfirmFence, Goto
<1>5. CASE RemoveRunner(r)
  <2>1. CASE Unregistered(r)
    <3>1. PICK s \in {"confirmFence", "idle"} : at' = [at EXCEPT ![r] = s]
      BY <1>5 DEF RemoveRunner, fenced, Goto, Return
    <3>2. PICK l \in {"no", "pending"} : late' = [late EXCEPT ![r] = l] /\ (l = "no" \/ l = late[r])
      BY <1>1, <2>1 DEF Unregistered, JobTypeOK
    <3> QED
      BY <1>1, <1>5, <2>1, <3>1, <3>2, Registers DEF RemoveRunner, Unregistered, JobInv
  <2>2. CASE UNCHANGED <<gh, late>> /\ fenced(r, FALSE)
    BY <1>3, <1>5, <2>2 DEF RemoveRunner, world
  <2> QED
    BY <1>5, <2>1, <2>2 DEF RemoveRunner
<1> QED
  BY <1>2, <1>4, <1>5

\* The steps of Delete behind its fence.
LEMMA DeleteKeeps ==
    ASSUME Inv, NEW r \in Runner,
           \/ BeginDelete(r) \/ GetInstance(r) \/ stopInstance(r)
           \/ collectDiagnostics(r) \/ VerifyBeforeDelete(r) \/ DeleteInstance(r)
    PROVE  Inv'
<1> USE DEF Step, AfterFenceSteps, BeforeJITSteps, WithJITSteps
<1>1. at[r] \in AfterFenceSteps => gh[r] = "none" \/ late[r] = "landed"
  BY DEF Inv, JobInv
<1>2. CASE BeginDelete(r)
  BY <1>2, Moves DEF BeginDelete, Begin
<1>3. CASE GetInstance(r)
  BY <1>3, Moves, Returns DEF GetInstance
<1>4. CASE collectDiagnostics(r) \/ VerifyBeforeDelete(r)
  BY <1>1, <1>4, Moves, Returns DEF collectDiagnostics, GetConsoleLog, Store, EntersStore, WriteLog,
     VerifyBeforeDelete, getVerified, Goto
<1>5. CASE stopInstance(r)
  BY <1>1, <1>5, Moves, Returns, Operates DEF stopInstance, getVerified, FailsCall, Goto
<1>6. CASE DeleteInstance(r)
  BY <1>1, <1>6, Moves, Returns, Operates DEF DeleteInstance, FailsCall, Goto
<1> QED
  BY <1>2, <1>3, <1>4, <1>5, <1>6

\* The process is gone; what it asked of Incus goes on.
LEMMA CrashKeeps == ASSUME Inv, NEW r \in Runner, Crash(r) PROVE Inv'
<1>1. JobTypeOK /\ JobInv(r)
  BY DEF Inv
<1>2. CASE at[r] = "payload"
  <2>1. gh' = [gh EXCEPT ![r] = "none"]
    BY <1>1, <1>2 DEF Crash, JobTypeOK, JobInv, BeforeJITSteps
  <2> QED
    BY <1>1, <1>2, <2>1, Registers DEF Crash, Return, JobInv, Step, AfterFenceSteps,
       BeforeJITSteps, WithJITSteps
<1>3. CASE at[r] # "payload"
  BY <1>3, Returns DEF Crash, world
<1> QED
  BY <1>2, <1>3

\* The steps of Incus, GitHub and the guest.
LEMMA WorldKeeps == ASSUME Inv, NEW r \in Runner, WorldStep(r) PROVE Inv'
<1>1. JobTypeOK /\ JobInv(r)
  BY DEF Inv
<1>2. CASE ServerCompletes(r)
  <2>1. inst'[r] \in Inst
    BY <1>1, <1>2 DEF ServerCompletes, JobTypeOK, Outcome, Inst
  <2>2. JobTypeOK'
    BY <1>1, <1>2, <2>1 DEF ServerCompletes, JobTypeOK, calls
  <2>3. Frame(r)
    BY <1>1, <1>2 DEF ServerCompletes, JobTypeOK, calls, Frame
  <2>4. JobInv(r)'
    BY <1>1, <1>2 DEF ServerCompletes, JobTypeOK, calls, JobInv, Blank
  <2> QED
    BY <2>2, <2>3, <2>4, OneRunner
<1>3. CASE BootstrapExpires(r)
  BY <1>3 DEF BootstrapExpires, calls, Inv, JobTypeOK, JobInv, Blank
<1>4. CASE GuestRuns(r) \/ GuestFinishes(r) \/ PowersOff(r)
  <2>1. JobTypeOK'
    BY <1>1, <1>4 DEF GuestRuns, GuestFinishes, PowersOff, JobTypeOK, Inst, calls
  <2>2. Frame(r)
    BY <1>1, <1>4 DEF GuestRuns, GuestFinishes, PowersOff, JobTypeOK, calls, Frame
  <2>3. JobInv(r)'
    BY <1>1, <1>4 DEF GuestRuns, GuestFinishes, PowersOff, JobTypeOK, calls, JobInv, Blank
  <2> QED
    BY <2>1, <2>2, <2>3, OneRunner
<1>5. CASE GitHubActs(r)
  <2>1. at' = [at EXCEPT ![r] = at[r]] /\ UNCHANGED <<inst, oper, guest, files>>
    BY <1>1, <1>5 DEF GitHubActs, calls, JobTypeOK
  <2>2. CASE /\ gh[r] = "idle" /\ Connected(r) /\ gh' = [gh EXCEPT ![r] = "busy"]
             /\ UNCHANGED late
    <3>1. late' = [late EXCEPT ![r] = "no"]
      BY <1>1, <2>2 DEF JobTypeOK, JobInv, Blank, Connected
    <3> QED
      BY <1>1, <2>1, <2>2, <3>1, Registers DEF JobTypeOK, JobInv
  <2>3. CASE gh[r] # "none" /\ Unregistered(r)
    <3>1. PICK l \in {"no", "pending"} : late' = [late EXCEPT ![r] = l] /\ (l = "no" \/ l = late[r])
      BY <1>1, <2>3 DEF Unregistered, JobTypeOK
    <3> QED
      BY <1>1, <2>1, <2>3, <3>1, Registers DEF Unregistered, JobTypeOK, JobInv
  <2> QED
    BY <1>5, <2>2, <2>3 DEF GitHubActs
<1>6. CASE LateRegistration(r)
  <2>1. /\ at' = [at EXCEPT ![r] = at[r]] /\ UNCHANGED <<inst, oper, guest, files>>
        /\ gh = [gh EXCEPT ![r] = "none"] /\ Blank(r)
    BY <1>1, <1>6 DEF LateRegistration, calls, JobTypeOK, JobInv
  <2> QED
    BY <1>1, <1>6, <2>1, Registers DEF LateRegistration, JobTypeOK, JobInv
<1> QED
  BY <1>2, <1>3, <1>4, <1>5, <1>6 DEF WorldStep

\* Every step of the system.
LEMMA InvStep == Inv /\ [Next]_vars => Inv'
<1> SUFFICES ASSUME Inv, [Next]_vars PROVE Inv'
  OBVIOUS
<1>1. ASSUME NEW r \in Runner, CallStep(r) PROVE Inv'
  BY <1>1, CreateKeeps, FenceKeeps, DeleteKeeps, CrashKeeps DEF CallStep
<1>2. ASSUME NEW r \in Runner, WorldStep(r) PROVE Inv'
  BY <1>2, WorldKeeps
<1>3. CASE \/ \E r \in Runner : ReadStatus(r)
           \/ \E name \in Other : OtherWorker(name)
           \/ BeginList \/ ListFails \/ EndList \/ UNCHANGED vars
  BY <1>3, NoRunner DEF ReadStatus, OtherWorker, BeginList, ListFails, EndList, vars, calls
<1> QED
  BY <1>1, <1>2, <1>3 DEF Next

(***************************************************************************)
(* Whatever requests fail, whatever Incus and GitHub go on with and        *)
(* wherever the process dies, no VM that runs a job is stopped or deleted. *)
(***************************************************************************)
THEOREM JobsSurvive == Spec => []JobSurvives
<1>1. Init => Inv
  BY DEF Init, Inv, JobTypeOK, JobInv, Blank, Step, Inst, AfterFenceSteps, BeforeJITSteps,
     WithJITSteps
<1>2. Inv => JobSurvives
  BY DEF Inv, JobInv, JobSurvives
<1> QED
  BY <1>1, <1>2, InvStep, PTL DEF Spec

-----------------------------------------------------------------------------
(* The life of a runner *)

CallTypeOK == /\ op \in [Runner -> Call \cup {"none"}]
              /\ ret \in [Runner -> {<<"none", FALSE>>} \cup Call \X BOOLEAN]
              /\ seen \in [Runner -> Inst]
              /\ listed \in [Runner -> Verdict]
              /\ listing \in BOOLEAN
              /\ aged \subseteq Runner /\ bound \subseteq Runner

FenceSteps == {"getRunner", "removeRunner", "confirmFence"}

(***************************************************************************)
(* What holds when the call about r has come to step s.  As long as Create *)
(* is getting on, its own operation is the only one that Incus carries     *)
(* out, the guest is handed nothing before the metadata is bound, and the  *)
(* registration waits until then.  When Create has failed, its instance    *)
(* is still there.                                                         *)
(***************************************************************************)
CallAt(r, s) ==
    /\ op[r] = "none" <=> s = "idle"
    /\ s \in BeforeJITSteps \cup WithJITSteps => op[r] = "create"
    /\ s \in AfterFenceSteps \cup {"get"} => op[r] = "delete"
    /\ s \in {"verifyProfiles", "createInstance"} => inst[r] = "none" /\ oper[r] = "none"
    /\ s = "createWait" => inst[r] # "running"
    /\ s \in {"payload", "bind", "start"} =>
         inst[r] = "stopped" /\ oper[r] = "none" /\ Blank(r)
    /\ s = "startWait" => oper[r] \in {"start", "none"}
    /\ s \in {"pushPayload", "pushReady"} => oper[r] = "none"
    /\ s \in {"start", "startWait", "pushPayload", "pushReady"} => r \in bound
    /\ s \in WithJITSteps => Committed(r) \/ gh[r] = "idle"
    /\ s \in FenceSteps /\ op[r] = "create" => inst[r] # "none" /\ oper[r] \in {"start", "none"}

(***************************************************************************)
(* What Incus may be carrying out: a create where there is no instance,    *)
(* anything else where there is one, a start only of an instance whose     *)
(* guest was never handed anything.  Delete never meets a create.          *)
(***************************************************************************)
OperInv(r) ==
    /\ oper[r] = "create" => inst[r] = "none"
    /\ oper[r] = "stop" => inst[r] # "none"
    /\ oper[r] = "delete" => inst[r] = "stopped"
    /\ oper[r] = "start" => inst[r] = "stopped" /\ Blank(r)
    /\ op[r] = "delete" => oper[r] # "create"

(***************************************************************************)
(* A registration belongs to an instance, unless it came late.  Whatever   *)
(* was handed to a guest was handed to one whose instance is bound, and a  *)
(* job runs only where something was handed over.                          *)
(***************************************************************************)
RegisteredInv(r) ==
    /\ gh[r] # "none" /\ late[r] # "landed" => inst[r] # "none"
    /\ ~Blank(r) => r \in bound
    /\ gh[r] = "busy" => guest[r] # "off"

\* AnswersAreTrue, and that Incus has nothing left to do that could undo it.
Answer(r, call) ==
    /\ call = "create" => Committed(r) /\ r \in bound /\ oper[r] = "none"
    /\ call = "fence" => gh[r] = "none" \/ late[r] = "landed"
    /\ call = "delete" => /\ inst[r] = "none" /\ oper[r] = "none"
                          /\ gh[r] = "none" \/ late[r] = "landed"

AnswerInv(r) ==
    \A call \in Call : op[r] = "none" /\ ret[r] = <<call, TRUE>> => Answer(r, call)

(***************************************************************************)
(* What a listing has found out.  No call is in progress as long as it is  *)
(* kept.  A terminal runner is too old, or has ended, or will never be     *)
(* handed anything, or is not up and not being started.                    *)
(***************************************************************************)
ListInv(r) ==
    /\ listing \/ listed[r] # "unread" => \A q \in Runner : op[q] = "none"
    /\ listed[r] = "terminal" => \/ r \in aged \/ guest[r] = "exited" \/ Blank(r)
                                 \/ inst[r] # "running" /\ oper[r] # "start"
    /\ listed[r] = "absent" => inst[r] # "running" /\ oper[r] # "start"

Life(r) == CallAt(r, at[r]) /\ OperInv(r) /\ RegisteredInv(r) /\ AnswerInv(r)

LifeInv == CallTypeOK /\ \A r \in Runner : Life(r) /\ ListInv(r)

\* What is known of runner r before a step.
Known(r) == JobTypeOK /\ CallTypeOK /\ JobInv(r) /\ Life(r)

\* The call goes on to another step, while nothing else changes.
LEMMA LifeGoes ==
    ASSUME NEW r \in Runner, Known(r), NEW s \in Step, s # "idle", Goto(r, s),
           UNCHANGED <<inst, oper, guest, files, bound, gh, late>>, CallAt(r, s)
    PROVE  Life(r)'
<1>1. at'[r] = s /\ op'[r] = op[r] /\ ret' = ret /\ op[r] # "none"
  BY DEF Known, JobTypeOK, Goto, CallAt
<1>2. CallAt(r, at[r])' /\ OperInv(r)' /\ RegisteredInv(r)'
  BY <1>1 DEF Known, Life, CallAt, Committed, OperInv, RegisteredInv, Blank
<1>3. AnswerInv(r)'
  BY <1>1 DEF AnswerInv
<1> QED
  BY <1>2, <1>3 DEF Life

\* The call returns; what it reports has to be true.
LEMMA LifeReturns ==
    ASSUME NEW r \in Runner, Known(r), NEW ok \in BOOLEAN, Return(r, ok),
           UNCHANGED <<inst, oper, guest, files, bound, gh>>,
           late' = late \/ gh[r] = "none",
           op[r] # "none", ok => Answer(r, op[r])
    PROVE  Life(r)'
<1>1. at'[r] = "idle" /\ op'[r] = "none" /\ ret'[r] = <<op[r], ok>>
  BY DEF Known, JobTypeOK, CallTypeOK, Return
<1>2. CallAt(r, at[r])' /\ OperInv(r)' /\ RegisteredInv(r)'
  BY <1>1 DEF Known, Life, CallAt, Committed, OperInv, RegisteredInv, Blank, AfterFenceSteps,
     BeforeJITSteps, WithJITSteps, FenceSteps
<1>3. ASSUME NEW call \in Call, ret'[r] = <<call, TRUE>> PROVE Answer(r, call)'
  <2>1. <<op[r], ok>> = <<call, TRUE>>
    BY <1>1, <1>3
  <2>2. op[r] = call /\ ok
    BY <2>1, Zenon
  <2>3. Answer(r, call)
    BY <2>2
  <2> QED
    BY <2>3 DEF Answer, Committed
<1>4. AnswerInv(r)'
  BY <1>3 DEF AnswerInv
<1> QED
  BY <1>2, <1>4 DEF Life

\* A call that fails and leaves the world alone.
LEMMA LifeFails ==
    ASSUME NEW r \in Runner, Known(r), FailsCall(r), op[r] # "none"
    PROVE  Life(r)'
  BY LifeReturns DEF FailsCall, world

\* A create that fails with a registration goes on to fence it.
LEMMA LifeProvisioningFails ==
    ASSUME NEW r \in Runner, Known(r), provisioningFails(r),
           at[r] \in WithJITSteps \cup {"payload"}
    PROVE  Life(r)'
<1>0. op[r] = "create" /\ inst[r] # "none" /\ oper[r] \in {"start", "none"}
  BY DEF Known, Life, CallAt, RegisteredInv, JobInv, Committed, Blank, BeforeJITSteps,
     WithJITSteps
<1>1. CallAt(r, "getRunner") /\ "getRunner" \in Step
  BY <1>0 DEF CallAt, BeforeJITSteps, WithJITSteps, AfterFenceSteps, Step
<1> QED
  BY <1>1, LifeGoes DEF provisioningFails, Fails, world

\* Create keeps it.
LEMMA LifeCreate ==
    ASSUME NEW r \in Runner, Known(r),
           \/ BeginCreate(r) \/ VerifyProfiles(r) \/ CreateInstance(r) \/ CreateWait(r)
           \/ Payload(r) \/ bindJITRegistration(r) \/ StartInstance(r) \/ StartWait(r)
           \/ pushPayload(r)
    PROVE  Life(r)'
<1> USE DEF Step, AfterFenceSteps, BeforeJITSteps, WithJITSteps, FenceSteps
<1>0. JobTypeOK /\ CallTypeOK /\ JobInv(r) /\ CallAt(r, at[r]) /\ OperInv(r)
      /\ RegisteredInv(r) /\ AnswerInv(r)
  BY DEF Known, Life
<1>1. CASE BeginCreate(r)
  <2>1. /\ at'[r] = "verifyProfiles" /\ op'[r] = "create"
        /\ UNCHANGED <<inst, oper, guest, files, bound, gh, late>>
        /\ inst[r] = "none" /\ oper[r] = "none"
    BY <1>0, <1>1 DEF BeginCreate, Begin, JobTypeOK, CallTypeOK, world
  <2>2. CallAt(r, at[r])' /\ OperInv(r)' /\ RegisteredInv(r)'
    BY <1>0, <2>1 DEF CallAt, Committed, OperInv, RegisteredInv, Blank
  <2>3. AnswerInv(r)'
    BY <2>1 DEF AnswerInv
  <2> QED
    BY <2>2, <2>3 DEF Life
<1>2. CASE VerifyProfiles(r)
  <2>1. op[r] # "none" /\ CallAt(r, "createInstance")
    BY <1>0, <1>2 DEF VerifyProfiles, CallAt
  <2> QED
    BY <1>2, <2>1, LifeGoes, LifeFails DEF VerifyProfiles, world
<1>3. CASE CreateInstance(r)
  <2>1. op[r] = "create"
    BY <1>0, <1>3 DEF CreateInstance, CallAt
  <2>2. CASE oper' = [oper EXCEPT ![r] = "create"] /\ Goto(r, "createWait")
             /\ UNCHANGED <<inst, guest, files, aged, bound, gh, late, store, lister>>
    <3>1. /\ oper'[r] = "create" /\ at'[r] = "createWait" /\ op' = op
          /\ inst[r] = "none"
      BY <1>0, <1>3, <2>2 DEF CreateInstance, CallAt, Goto, JobTypeOK
    <3>2. CallAt(r, at[r])' /\ OperInv(r)' /\ RegisteredInv(r)'
      BY <1>0, <2>1, <2>2, <3>1 DEF CallAt, Committed, OperInv, RegisteredInv, Blank
    <3>3. AnswerInv(r)'
      BY <2>1, <3>1 DEF AnswerInv
    <3> QED
      BY <3>2, <3>3 DEF Life
  <2> QED
    BY <1>3, <2>1, <2>2, LifeFails DEF CreateInstance
<1>4. CASE CreateWait(r)
  <2>1. op[r] = "create" /\ Blank(r)
    BY <1>0, <1>4 DEF CreateWait, CallAt, JobInv
  <2>2. oper[r] = "none" /\ inst[r] = "stopped" => CallAt(r, "payload")
    BY <1>0, <2>1 DEF CallAt
  <2> QED
    BY <1>4, <2>1, <2>2, LifeGoes, LifeFails DEF CreateWait, world
<1>5. CASE Payload(r)
  <2>1. /\ op[r] = "create" /\ gh[r] = "none" /\ late[r] = "no" /\ Blank(r)
        /\ inst[r] = "stopped" /\ oper[r] = "none"
    BY <1>0, <1>5 DEF Payload, CallAt, JobInv
  <2>2. ASSUME NEW s \in {"bind", "getRunner"}, Goto(r, s),
               UNCHANGED <<inst, oper, guest, files, bound>>,
               gh'[r] = "idle" \/ (s = "getRunner" /\ gh'[r] = "none")
        PROVE  Life(r)'
    <3>1. at'[r] = s /\ op' = op
      BY <1>0, <2>2 DEF Goto, JobTypeOK
    <3>2. CallAt(r, at[r])' /\ OperInv(r)' /\ RegisteredInv(r)'
      BY <1>0, <2>1, <2>2, <3>1 DEF CallAt, Committed, OperInv, RegisteredInv, Blank
    <3>3. AnswerInv(r)'
      BY <2>1, <3>1 DEF AnswerInv
    <3> QED
      BY <3>2, <3>3 DEF Life
  <2>3. \/ provisioningFails(r)
        \/ \E s \in {"bind", "getRunner"} :
             /\ Goto(r, s) /\ UNCHANGED <<inst, oper, guest, files, bound>>
             /\ gh'[r] = "idle" \/ (s = "getRunner" /\ gh'[r] = "none")
    BY <1>0, <1>5, <2>1 DEF Payload, JobTypeOK
  <2> QED
    BY <1>5, <2>1, <2>2, <2>3, LifeProvisioningFails DEF Payload
<1>6. CASE bindJITRegistration(r)
  <2>1. /\ op[r] = "create" /\ inst[r] = "stopped" /\ oper[r] = "none" /\ Blank(r)
        /\ gh[r] = "idle"
    BY <1>0, <1>6 DEF bindJITRegistration, CallAt, Committed, Blank
  <2>2. ASSUME NEW s \in {"start", "getRunner"}, Goto(r, s), bound' = bound \cup {r},
               UNCHANGED <<inst, oper, guest, files, gh, late>>
        PROVE  Life(r)'
    <3>1. at'[r] = s /\ op' = op
      BY <1>0, <2>2 DEF Goto, JobTypeOK
    <3>2. CallAt(r, at[r])' /\ OperInv(r)' /\ RegisteredInv(r)'
      BY <1>0, <2>1, <2>2, <3>1 DEF CallAt, Committed, OperInv, RegisteredInv, Blank
    <3>3. AnswerInv(r)'
      BY <2>1, <3>1 DEF AnswerInv
    <3> QED
      BY <3>2, <3>3 DEF Life
  <2> QED
    BY <1>6, <2>1, <2>2, LifeProvisioningFails DEF bindJITRegistration
<1>7. CASE StartInstance(r)
  <2>1. /\ op[r] = "create" /\ inst[r] = "stopped" /\ oper[r] = "none" /\ Blank(r)
        /\ r \in bound /\ gh[r] = "idle"
    BY <1>0, <1>7 DEF StartInstance, CallAt, Committed, Blank
  <2>2. CASE oper' = [oper EXCEPT ![r] = "start"] /\ Goto(r, "startWait")
             /\ UNCHANGED <<inst, guest, files, aged, bound, gh, late, store, lister>>
    <3>1. oper'[r] = "start" /\ at'[r] = "startWait" /\ op' = op
      BY <1>0, <2>2 DEF Goto, JobTypeOK
    <3>2. CallAt(r, at[r])' /\ OperInv(r)' /\ RegisteredInv(r)'
      BY <1>0, <2>1, <2>2, <3>1 DEF CallAt, Committed, OperInv, RegisteredInv, Blank
    <3>3. AnswerInv(r)'
      BY <2>1, <3>1 DEF AnswerInv
    <3> QED
      BY <3>2, <3>3 DEF Life
  <2> QED
    BY <1>7, <2>1, <2>2, LifeProvisioningFails DEF StartInstance
<1>8. CASE StartWait(r)
  <2>1. op[r] = "create" /\ r \in bound /\ (Committed(r) \/ gh[r] = "idle")
    BY <1>0, <1>8 DEF StartWait, CallAt
  <2>2. oper[r] = "none" => CallAt(r, "pushPayload")
    BY <1>0, <2>1 DEF CallAt
  <2> QED
    BY <1>8, <2>1, <2>2, LifeGoes, LifeProvisioningFails DEF StartWait, world
<1>9. CASE pushPayload(r)
  <2>1. /\ op[r] = "create" /\ r \in bound /\ oper[r] = "none"
        /\ Committed(r) \/ gh[r] = "idle"
    BY <1>0, <1>9 DEF pushPayload, CallAt
  <2>2. ASSUME NEW f \in {"payload", "ready"}, Push(r, f),
               NEW s \in {"pushPayload", "pushReady"}, Goto(r, s)
        PROVE  Life(r)'
    <3>1. /\ at'[r] = s /\ op' = op /\ UNCHANGED <<inst, oper, guest, bound, gh, late>>
          /\ files[r] \subseteq files'[r] /\ inst[r] = "running"
      BY <1>0, <2>2 DEF Goto, Push, JobTypeOK
    <3>2. CallAt(r, at[r])' /\ OperInv(r)' /\ RegisteredInv(r)'
      BY <1>0, <2>1, <3>1 DEF CallAt, Committed, OperInv, RegisteredInv
    <3>3. AnswerInv(r)'
      BY <2>1, <3>1 DEF AnswerInv
    <3> QED
      BY <3>2, <3>3 DEF Life
  <2>3. ASSUME Push(r, "ready"), Return(r, TRUE) PROVE Life(r)'
    <3>1. /\ at'[r] = "idle" /\ op'[r] = "none" /\ ret'[r] = <<"create", TRUE>>
          /\ "ready" \in files'[r] /\ UNCHANGED <<inst, oper, guest, bound, gh, late>>
      BY <1>0, <2>1, <2>3 DEF Return, Push, JobTypeOK, CallTypeOK
    <3>2. CallAt(r, at[r])' /\ OperInv(r)' /\ RegisteredInv(r)'
      BY <1>0, <2>1, <3>1 DEF CallAt, Committed, OperInv, RegisteredInv
    <3>3. Answer(r, "create")'
      BY <2>1, <3>1 DEF Answer, Committed
    <3>4. AnswerInv(r)'
      BY <3>1, <3>3 DEF AnswerInv
    <3> QED
      BY <3>2, <3>4 DEF Life
  <2> QED
    BY <1>9, <2>1, <2>2, <2>3, LifeProvisioningFails DEF pushPayload
<1> QED
  BY <1>1, <1>2, <1>3, <1>4, <1>5, <1>6, <1>7, <1>8, <1>9

\* Fence keeps it, whoever called it.
LEMMA LifeFence ==
    ASSUME NEW r \in Runner, Known(r),
           BeginFence(r) \/ GetRunnerByName(r) \/ RemoveRunner(r) \/ ConfirmFence(r)
    PROVE  Life(r)'
<1> USE DEF Step, AfterFenceSteps, BeforeJITSteps, WithJITSteps, FenceSteps
<1>0. JobTypeOK /\ CallTypeOK /\ JobInv(r) /\ CallAt(r, at[r]) /\ OperInv(r)
      /\ RegisteredInv(r) /\ AnswerInv(r)
  BY DEF Known, Life
<1>1. CASE BeginFence(r)
  <2>1. /\ at'[r] = "getRunner" /\ op'[r] = "fence"
        /\ UNCHANGED <<inst, oper, guest, files, bound, gh, late>>
    BY <1>0, <1>1 DEF BeginFence, Begin, JobTypeOK, CallTypeOK, world
  <2>2. CallAt(r, at[r])' /\ OperInv(r)' /\ RegisteredInv(r)'
    BY <1>0, <2>1 DEF CallAt, Committed, OperInv, RegisteredInv, Blank
  <2>3. AnswerInv(r)'
    BY <2>1 DEF AnswerInv
  <2> QED
    BY <2>2, <2>3 DEF Life
<1>2. ASSUME NEW ok \in BOOLEAN, fenced(r, ok), ok => gh[r] = "none", at[r] # "idle",
             UNCHANGED <<inst, oper, guest, files, bound, gh, late>>
      PROVE  Life(r)'
  <2>1. CASE op[r] = "delete" /\ Goto(r, AfterFence(r))
    <3>1. AfterFence(r) \in AfterFenceSteps /\ AfterFence(r) \in {"diagnostics", "stopGet"}
      BY DEF AfterFence
    <3>2. CallAt(r, AfterFence(r))
      BY <2>1, <3>1 DEF CallAt
    <3> QED
      BY <1>2, <2>1, <3>1, <3>2, LifeGoes
  <2>2. CASE (op[r] = "create" /\ Return(r, FALSE)) \/ (op[r] = "delete" /\ Return(r, FALSE))
    BY <1>2, <2>2, LifeReturns
  <2>3. CASE op[r] = "fence" /\ Return(r, ok)
    <3>1. ok => Answer(r, "fence")
      BY <1>2 DEF Answer
    <3> QED
      BY <1>2, <2>3, <3>1, LifeReturns
  <2> QED
    BY <1>2, <2>1, <2>2, <2>3 DEF fenced
<1>3. CASE GetRunnerByName(r)
  <2>1. CallAt(r, "removeRunner") /\ at[r] # "idle"
    BY <1>0, <1>3 DEF GetRunnerByName, CallAt
  <2>2. UNCHANGED <<inst, oper, guest, files, bound, gh, late>>
    BY <1>3 DEF GetRunnerByName, world
  <2> QED
    BY <1>2, <1>3, <2>1, <2>2, LifeGoes DEF GetRunnerByName
<1>4. CASE ConfirmFence(r)
  <2>1. UNCHANGED <<inst, oper, guest, files, bound, gh, late>> /\ at[r] # "idle"
    BY <1>4 DEF ConfirmFence, world
  <2> QED
    BY <1>2, <1>4, <2>1 DEF ConfirmFence
<1>5. CASE RemoveRunner(r)
  <2>1. /\ UNCHANGED <<inst, oper, guest, files, bound>> /\ at[r] = "removeRunner"
        /\ op[r] # "none"
    BY <1>0, <1>5 DEF RemoveRunner, CallAt
  <2>2. CASE fenced(r, FALSE) /\ UNCHANGED <<gh, late>>
    BY <1>2, <2>1, <2>2
  <2>3. CASE Unregistered(r) /\ (Goto(r, "confirmFence") \/ fenced(r, FALSE))
    <3>1. gh'[r] = "none"
      BY <1>0, <2>3 DEF Unregistered, JobTypeOK
    <3>2. OperInv(r)' /\ RegisteredInv(r)'
      <4>1. op'[r] \in {op[r], "none"}
        BY <1>0, <2>3 DEF fenced, Goto, Return, CallTypeOK
      <4> QED
        BY <1>0, <2>1, <3>1, <4>1 DEF OperInv, RegisteredInv, Blank
    <3>3. CASE Goto(r, "confirmFence")
      <4>1. at'[r] = "confirmFence" /\ op' = op
        BY <1>0, <3>3 DEF Goto, JobTypeOK
      <4>2. CallAt(r, at[r])' /\ AnswerInv(r)'
        BY <1>0, <2>1, <4>1 DEF CallAt, AnswerInv
      <4> QED
        BY <3>2, <4>2 DEF Life
    <3>4. CASE fenced(r, FALSE)
      <4>1. at'[r] = "idle" /\ op'[r] = "none" /\ ret'[r] = <<op[r], FALSE>>
        <5>1. Return(r, FALSE)
          BY <3>4, Zenon DEF fenced
        <5> QED
          BY <1>0, <5>1 DEF Return, JobTypeOK, CallTypeOK
      <4>2. ASSUME NEW call PROVE <<op[r], FALSE>> # <<call, TRUE>>
        BY Zenon
      <4>3. CallAt(r, at[r])' /\ AnswerInv(r)'
        BY <4>1, <4>2 DEF CallAt, AnswerInv
      <4> QED
        BY <3>2, <4>3 DEF Life
    <3> QED
      BY <2>3, <3>3, <3>4
  <2> QED
    BY <1>5, <2>2, <2>3 DEF RemoveRunner
<1> QED
  BY <1>1, <1>3, <1>4, <1>5

\* Delete keeps it.
LEMMA LifeDelete ==
    ASSUME NEW r \in Runner, Known(r),
           \/ BeginDelete(r) \/ GetInstance(r) \/ stopInstance(r)
           \/ collectDiagnostics(r) \/ VerifyBeforeDelete(r) \/ DeleteInstance(r)
    PROVE  Life(r)'
<1> USE DEF Step, AfterFenceSteps, BeforeJITSteps, WithJITSteps, FenceSteps
<1>0. JobTypeOK /\ CallTypeOK /\ JobInv(r) /\ CallAt(r, at[r]) /\ OperInv(r)
      /\ RegisteredInv(r) /\ AnswerInv(r)
  BY DEF Known, Life
<1>1. CASE BeginDelete(r)
  <2>1. /\ at'[r] = "get" /\ op'[r] = "delete" /\ oper[r] # "create"
        /\ UNCHANGED <<inst, oper, guest, files, bound, gh, late>>
    BY <1>0, <1>1 DEF BeginDelete, Begin, JobTypeOK, CallTypeOK, world
  <2>2. CallAt(r, at[r])' /\ OperInv(r)' /\ RegisteredInv(r)'
    BY <1>0, <2>1 DEF CallAt, Committed, OperInv, RegisteredInv, Blank
  <2>3. AnswerInv(r)'
    BY <2>1 DEF AnswerInv
  <2> QED
    BY <2>2, <2>3 DEF Life
<1> DEFINE Quiet == UNCHANGED <<inst, oper, guest, files, bound, gh, late>>
<1>2. ASSUME op[r] = "delete", Quiet, Return(r, FALSE) PROVE Life(r)'
  BY <1>2, LifeReturns
<1>3. ASSUME op[r] = "delete", Quiet, NEW s \in AfterFenceSteps, Goto(r, s) PROVE Life(r)'
  <2>1. CallAt(r, s)
    BY <1>3 DEF CallAt
  <2> QED
    BY <1>3, <2>1, LifeGoes
<1>4. ASSUME op[r] = "delete", Quiet, Return(r, TRUE), inst[r] = "none",
             gh[r] = "none" \/ late[r] = "landed"
      PROVE  Life(r)'
  <2>1. oper[r] = "none"
    BY <1>0, <1>4 DEF OperInv, JobTypeOK
  <2>2. Answer(r, "delete")
    BY <1>4, <2>1 DEF Answer
  <2> QED
    BY <1>4, <2>2, LifeReturns
<1>5. CASE GetInstance(r)
  <2>1. op[r] = "delete" /\ Quiet
    BY <1>0, <1>5 DEF GetInstance, CallAt, world
  <2>2. inst[r] = "none" => gh[r] = "none" \/ late[r] = "landed"
    BY <1>0 DEF RegisteredInv
  <2>3. CASE at' = [at EXCEPT ![r] = "getRunner"] /\ UNCHANGED <<op, ret>>
    <3>1. at'[r] = "getRunner"
      BY <1>0, <2>3 DEF JobTypeOK
    <3>2. CallAt(r, at[r])' /\ OperInv(r)' /\ RegisteredInv(r)'
      BY <1>0, <2>1, <2>3, <3>1 DEF CallAt, Committed, OperInv, RegisteredInv, Blank
    <3>3. AnswerInv(r)'
      BY <2>1, <2>3 DEF AnswerInv
    <3> QED
      BY <3>2, <3>3 DEF Life
  <2> QED
    BY <1>2, <1>4, <1>5, <2>1, <2>2, <2>3 DEF GetInstance
<1>6. at[r] \in AfterFenceSteps => op[r] = "delete" /\ (gh[r] = "none" \/ late[r] = "landed")
  BY <1>0 DEF CallAt, JobInv
<1>7. CASE collectDiagnostics(r)
  <2>1. Quiet /\ at[r] \in AfterFenceSteps
    BY <1>7 DEF collectDiagnostics, GetConsoleLog, Store, EntersStore, WriteLog, world
  <2> QED
    BY <1>2, <1>3, <1>6, <1>7, <2>1 DEF collectDiagnostics, GetConsoleLog, Store, WriteLog,
       getVerified
<1>8. CASE VerifyBeforeDelete(r)
  BY <1>2, <1>3, <1>6, <1>8 DEF VerifyBeforeDelete, getVerified, world
<1>9. ASSUME NEW s \in AfterFenceSteps, Goto(r, s), NEW o \in {"stop", "delete"},
             oper' = [oper EXCEPT ![r] = o], op[r] = "delete",
             IF o = "delete" THEN inst[r] = "stopped" ELSE inst[r] # "none",
             UNCHANGED <<inst, guest, files, bound, gh, late>>
      PROVE  Life(r)'
  <2>1. oper'[r] = o /\ at'[r] = s /\ op' = op
    BY <1>0, <1>9 DEF JobTypeOK, Goto
  <2>2. CallAt(r, at[r])' /\ OperInv(r)' /\ RegisteredInv(r)'
    BY <1>0, <1>9, <2>1 DEF CallAt, Committed, OperInv, RegisteredInv, Blank
  <2>3. AnswerInv(r)'
    BY <1>9, <2>1 DEF AnswerInv
  <2> QED
    BY <2>2, <2>3 DEF Life
<1>10. CASE stopInstance(r)
  <2>1. op[r] = "delete"
    BY <1>6, <1>10 DEF stopInstance
  <2> QED
    BY <1>2, <1>3, <1>9, <1>10, <2>1, LifeFails DEF stopInstance, getVerified, world
<1>11. CASE DeleteInstance(r)
  <2>1. op[r] = "delete" /\ (gh[r] = "none" \/ late[r] = "landed")
    BY <1>6, <1>11 DEF DeleteInstance
  <2> QED
    BY <1>2, <1>4, <1>9, <1>11, <2>1, LifeFails DEF DeleteInstance, world
<1> QED
  BY <1>1, <1>5, <1>7, <1>8, <1>10, <1>11

\* A crash keeps it.
LEMMA LifeCrash == ASSUME NEW r \in Runner, Known(r), Crash(r) PROVE Life(r)'
<1>1. late' = late \/ gh[r] = "none"
  BY DEF Crash, Known, JobInv, BeforeJITSteps
<1> QED
  BY <1>1, LifeReturns DEF Crash

\* What happens to a runner on its own keeps it.
LEMMA LifeWorld == ASSUME NEW r \in Runner, Known(r), WorldStep(r) PROVE Life(r)'
<1> USE DEF Step, AfterFenceSteps, BeforeJITSteps, WithJITSteps, FenceSteps
<1>0. JobTypeOK /\ CallTypeOK /\ JobInv(r) /\ CallAt(r, at[r]) /\ OperInv(r)
      /\ RegisteredInv(r) /\ AnswerInv(r)
  BY DEF Known, Life
<1>1. at' = at /\ op' = op /\ ret' = ret
  BY DEF WorldStep, ServerCompletes, BootstrapExpires, GuestRuns, GuestFinishes, PowersOff,
     GitHubActs, LateRegistration, calls
<1>2. CASE ServerCompletes(r)
  <2>1. /\ oper[r] # "none" /\ oper'[r] = "none"
        /\ inst'[r] = inst[r] \/ inst'[r] = Outcome[oper[r]]
        /\ UNCHANGED <<gh, late>>
    BY <1>0, <1>2 DEF ServerCompletes, JobTypeOK
  <2>2. /\ oper[r] = "create" => inst'[r] \in {"none", "stopped"}
        /\ oper[r] = "start" => inst'[r] \in {"stopped", "running"}
        /\ oper[r] = "stop" => inst'[r] # "none"
        /\ oper[r] \in {"create", "start", "stop", "delete"}
    BY <1>0, <2>1 DEF Outcome, OperInv, JobTypeOK
  <2>3. CASE inst'[r] = "none"
    <3>1. /\ guest'[r] = "off" /\ files'[r] = {} /\ Blank(r)'
          /\ oper[r] \in {"create", "delete"}
          /\ gh[r] = "none" \/ late[r] = "landed"
      BY <1>0, <1>2, <2>1, <2>2, <2>3
      DEF ServerCompletes, JobTypeOK, Blank, JobInv, OperInv, RegisteredInv
    <3>2. CallAt(r, at[r])' /\ OperInv(r)' /\ RegisteredInv(r)'
      BY <1>0, <1>1, <2>1, <2>2, <2>3, <3>1 DEF CallAt, Committed, OperInv, RegisteredInv, JobInv
    <3>3. ASSUME NEW call \in Call, op[r] = "none", ret[r] = <<call, TRUE>>
          PROVE  Answer(r, call)'
      BY <1>0, <3>3, <2>1, <2>3, <3>1 DEF AnswerInv, Answer
    <3>4. AnswerInv(r)'
      BY <1>1, <3>3 DEF AnswerInv
    <3> QED
      BY <3>2, <3>4 DEF Life
  <2>4. CASE inst'[r] # "none"
    <3>1. UNCHANGED <<guest, files, bound>>
      BY <1>2, <2>4 DEF ServerCompletes
    <3>2. CallAt(r, at[r])' /\ OperInv(r)' /\ RegisteredInv(r)'
      BY <1>0, <1>1, <2>1, <2>2, <2>4, <3>1
      DEF CallAt, Committed, OperInv, RegisteredInv, JobInv, Blank
    <3>3. ASSUME NEW call \in Call, op[r] = "none", ret[r] = <<call, TRUE>>
          PROVE  Answer(r, call)'
      BY <1>0, <3>3, <2>1, <3>1 DEF AnswerInv, Answer, Committed
    <3>4. AnswerInv(r)'
      BY <1>1, <3>3 DEF AnswerInv
    <3> QED
      BY <3>2, <3>4 DEF Life
  <2> QED
    BY <2>3, <2>4
<1>3. CASE BootstrapExpires(r)
  BY <1>0, <1>1, <1>3 DEF BootstrapExpires, Life, CallAt, OperInv, RegisteredInv, AnswerInv,
     Answer, Committed, Blank
<1>4. CASE GuestRuns(r) \/ GuestFinishes(r)
  <2>1. /\ inst[r] = "running" /\ ~Blank(r) /\ files'[r] = {}
        /\ guest'[r] \in {"running", "exited"}
        /\ UNCHANGED <<inst, oper, bound, gh, late>>
    BY <1>0, <1>4 DEF GuestRuns, GuestFinishes, JobTypeOK, Blank
  <2>2. CallAt(r, at[r])' /\ OperInv(r)' /\ RegisteredInv(r)'
    BY <1>0, <1>1, <2>1 DEF CallAt, Committed, OperInv, RegisteredInv, Blank
  <2>3. AnswerInv(r)'
    BY <1>0, <1>1, <2>1 DEF AnswerInv, Answer, Committed
  <2> QED
    BY <2>2, <2>3 DEF Life
<1>5. CASE PowersOff(r)
  <2>1. /\ inst[r] = "running" /\ inst'[r] = "stopped"
        /\ UNCHANGED <<oper, guest, files, bound, gh, late>>
    BY <1>0, <1>5 DEF PowersOff, JobTypeOK
  <2>2. CallAt(r, at[r])' /\ OperInv(r)' /\ RegisteredInv(r)'
    BY <1>0, <1>1, <2>1 DEF CallAt, Committed, OperInv, RegisteredInv, Blank
  <2>3. AnswerInv(r)'
    BY <1>0, <1>1, <2>1 DEF AnswerInv, Answer, Committed
  <2> QED
    BY <2>2, <2>3 DEF Life
<1>6. CASE GitHubActs(r) \/ LateRegistration(r)
  <2>1. UNCHANGED <<inst, oper, guest, files, bound>>
    BY <1>6 DEF GitHubActs, LateRegistration
  <2>2. \/ gh'[r] = "none" /\ (op[r] # "create" \/ Committed(r) \/ late[r] # "no")
        \/ gh'[r] = "idle" /\ late'[r] = "landed" /\ late[r] # "no"
        \/ /\ gh[r] = "idle" /\ gh'[r] = "busy" /\ guest[r] # "off" /\ inst[r] # "none"
           /\ late[r] = "no"
    BY <1>0, <1>6 DEF GitHubActs, LateRegistration, Unregistered, Connected, JobTypeOK,
       JobInv, Blank, Committed
  <2>3. CallAt(r, at[r])' /\ OperInv(r)' /\ RegisteredInv(r)'
    BY <1>0, <1>1, <2>1, <2>2 DEF CallAt, JobInv, Committed, OperInv, RegisteredInv, Blank
  <2>4. AnswerInv(r)'
    BY <1>0, <1>1, <2>1, <2>2 DEF AnswerInv, Answer, Committed
  <2> QED
    BY <2>3, <2>4 DEF Life
<1> QED
  BY <1>2, <1>3, <1>4, <1>5, <1>6 DEF WorldStep

(***************************************************************************)
(* What a step of a call does to the calls: it begins one, moves on,       *)
(* returns, or, in Delete, remembers the status it has read.               *)
(***************************************************************************)
Moved(r) ==
    \/ \E call \in Call, s \in Step : Begin(r, call, s)
    \/ \E s \in Step : Goto(r, s)
    \/ Return(r, TRUE) \/ Return(r, FALSE)
    \/ /\ seen' = [seen EXCEPT ![r] = inst[r]] /\ at' = [at EXCEPT ![r] = "getRunner"]
       /\ UNCHANGED <<op, ret>>

\* A step of a call moves this call only, and there is one to move.
LEMMA CallMoves ==
    ASSUME NEW r \in Runner, CallStep(r)
    PROVE  Moved(r) /\ ((\E call \in Call, s \in Step : Begin(r, call, s)) \/ at[r] # "idle"
                         \/ Crash(r))
<1> USE DEF Step, Call
<1>1. CASE BeginCreate(r) \/ BeginFence(r) \/ BeginDelete(r)
  BY <1>1 DEF BeginCreate, BeginFence, BeginDelete, Moved
<1>2. CASE \/ VerifyProfiles(r) \/ CreateInstance(r) \/ CreateWait(r)
           \/ Payload(r) \/ bindJITRegistration(r) \/ StartInstance(r) \/ StartWait(r)
           \/ pushPayload(r)
  BY <1>2 DEF VerifyProfiles, CreateInstance, CreateWait,
     provisioningFails, Fails, FailsCall, Payload, bindJITRegistration, StartInstance,
     StartWait, pushPayload, Moved
<1>3. ASSUME NEW ok \in BOOLEAN, fenced(r, ok) PROVE Moved(r)
  <2>1. AfterFence(r) \in Step
    BY DEF AfterFence
  <2>2. Return(r, ok) => Return(r, TRUE) \/ Return(r, FALSE)
    OBVIOUS
  <2> QED
    BY <1>3, <2>1, <2>2 DEF fenced, Moved
<1>4. CASE GetRunnerByName(r) \/ RemoveRunner(r) \/ ConfirmFence(r)
  BY <1>3, <1>4 DEF GetRunnerByName, RemoveRunner, ConfirmFence, Moved
<1>5. CASE Crash(r)
  BY <1>5 DEF Crash, Moved
<1>6. CASE \/ GetInstance(r) \/ stopInstance(r)
           \/ collectDiagnostics(r) \/ VerifyBeforeDelete(r) \/ DeleteInstance(r)
  BY <1>6 DEF GetInstance, stopInstance, collectDiagnostics, FailsCall,
     GetConsoleLog, Store, EntersStore, WriteLog, VerifyBeforeDelete, DeleteInstance, getVerified,
     Moved
<1> QED
  BY <1>1, <1>2, <1>4, <1>5, <1>6 DEF CallStep

\* Nothing about runner q changes.
Alone(q) ==
    /\ inst'[q] = inst[q] /\ oper'[q] = oper[q] /\ guest'[q] = guest[q]
    /\ files'[q] = files[q] /\ (q \in bound' <=> q \in bound) /\ (q \in aged' <=> q \in aged)
    /\ gh'[q] = gh[q] /\ late'[q] = late[q]
    /\ at'[q] = at[q] /\ op'[q] = op[q] /\ ret'[q] = ret[q]

\* A step about r leaves the other runners alone.
LEMMA OthersAlone ==
    ASSUME JobTypeOK, CallTypeOK, NEW r \in Runner, NEW q \in Runner, q # r,
           CallStep(r) \/ WorldStep(r)
    PROVE  Alone(q)
<1>1. /\ inst'[q] = inst[q] /\ oper'[q] = oper[q] /\ guest'[q] = guest[q]
      /\ files'[q] = files[q] /\ (q \in bound' <=> q \in bound)
      /\ (q \in aged' <=> q \in aged)
      /\ gh'[q] = gh[q] /\ late'[q] = late[q]
  <2> USE DEF JobTypeOK, world, Fails, FailsCall
  <2>1. CASE WorldStep(r)
    BY <2>1 DEF WorldStep, ServerCompletes, BootstrapExpires, GuestRuns, GuestFinishes,
       PowersOff, GitHubActs, LateRegistration, Unregistered
  <2>2. CASE \/ BeginCreate(r) \/ VerifyProfiles(r) \/ CreateInstance(r) \/ CreateWait(r)
             \/ Payload(r) \/ bindJITRegistration(r) \/ StartInstance(r) \/ StartWait(r)
             \/ pushPayload(r)
    BY <2>2 DEF BeginCreate, Begin, VerifyProfiles, CreateInstance, CreateWait,
       provisioningFails, Payload, bindJITRegistration, StartInstance, StartWait,
       pushPayload, Push
  <2>3. CASE \/ BeginFence(r) \/ GetRunnerByName(r) \/ RemoveRunner(r) \/ ConfirmFence(r)
             \/ Crash(r)
    BY <2>3 DEF BeginFence, Begin, GetRunnerByName, RemoveRunner, Unregistered,
       ConfirmFence, Crash
  <2>4. CASE \/ BeginDelete(r) \/ GetInstance(r) \/ stopInstance(r)
             \/ collectDiagnostics(r) \/ VerifyBeforeDelete(r) \/ DeleteInstance(r)
    BY <2>4 DEF BeginDelete, Begin, GetInstance, stopInstance, collectDiagnostics,
       GetConsoleLog, Store, WriteLog, VerifyBeforeDelete, DeleteInstance
  <2> QED
    BY <2>1, <2>2, <2>3, <2>4 DEF CallStep
<1>2. at'[q] = at[q] /\ op'[q] = op[q] /\ ret'[q] = ret[q]
  <2>1. CASE WorldStep(r)
    BY <2>1 DEF WorldStep, ServerCompletes, BootstrapExpires, GuestRuns, GuestFinishes,
       PowersOff, GitHubActs, LateRegistration, calls
  <2>2. CASE Moved(r)
    BY <2>2 DEF Moved, Begin, Goto, Return, JobTypeOK, CallTypeOK
  <2> QED
    BY <2>1, <2>2, CallMoves
<1> QED
  BY <1>1, <1>2 DEF Alone

\* The runners a step does not touch.
LEMMA LifeOthers ==
    ASSUME NEW q \in Runner, Alone(q), Life(q)
    PROVE  Life(q)'
<1> USE DEF Alone
<1>1. CallAt(q, at[q])' /\ OperInv(q)' /\ RegisteredInv(q)'
  BY DEF Life, CallAt, Committed, OperInv, RegisteredInv, Blank
<1>2. AnswerInv(q)'
  BY DEF Life, AnswerInv, Answer, Committed
<1> QED
  BY <1>1, <1>2 DEF Life

\* The types of the calls and of the listing.
LEMMA CallTypes ==
    ASSUME JobTypeOK, CallTypeOK, \A r \in Runner : Life(r), [Next]_vars
    PROVE  CallTypeOK'
<1>1. ASSUME NEW r \in Runner, CallStep(r) PROVE CallTypeOK'
  <2>1. UNCHANGED <<aged, listing>> /\ (bound' = bound \/ bound' = bound \cup {r})
    BY <1>1 DEF CallStep, BeginCreate, Begin, VerifyProfiles, CreateInstance, CreateWait,
       Payload, bindJITRegistration, StartInstance, StartWait, pushPayload, Push,
       provisioningFails, Fails, FailsCall, BeginFence, GetRunnerByName, RemoveRunner,
       ConfirmFence, BeginDelete, GetInstance, stopInstance, collectDiagnostics,
       GetConsoleLog, Store, WriteLog, VerifyBeforeDelete, DeleteInstance, Crash, world,
       lister
  <2>2. listed' = listed \/ listed' = [x \in Runner |-> "unread"]
    BY <1>1 DEF CallStep, BeginCreate, Begin, VerifyProfiles, CreateInstance, CreateWait,
       Payload, bindJITRegistration, StartInstance, StartWait, pushPayload, Push,
       provisioningFails, Fails, FailsCall, BeginFence, GetRunnerByName, RemoveRunner,
       ConfirmFence, BeginDelete, GetInstance, stopInstance, collectDiagnostics,
       GetConsoleLog, Store, WriteLog, VerifyBeforeDelete, DeleteInstance, Crash, lister
  <2>3. op' \in [Runner -> Call \cup {"none"}] /\ seen' \in [Runner -> Inst]
    <3>1. Moved(r) /\ "none" \in Inst
      BY <1>1, CallMoves DEF Inst
    <3>2. op' \in [Runner -> Call \cup {"none"}]
      BY <3>1 DEF Moved, Begin, Goto, Return, CallTypeOK
    <3>3. seen' \in [Runner -> Inst]
      <4>1. \/ seen' = seen
            \/ \E i \in Inst : seen' = [seen EXCEPT ![r] = i]
        <5>1. inst[r] \in Inst
          BY DEF JobTypeOK
        <5> QED
          BY <3>1, <5>1 DEF Moved, Begin, Goto, Return
      <4> QED
        BY <4>1 DEF CallTypeOK
    <3> QED
      BY <3>2, <3>3
  <2>4. ret' \in [Runner -> {<<"none", FALSE>>} \cup Call \X BOOLEAN]
    <3>1. CASE ret' = ret
      BY <3>1 DEF CallTypeOK
    <3>2. ASSUME NEW ok \in BOOLEAN, Return(r, ok), op[r] # "none"
          PROVE  ret' \in [Runner -> {<<"none", FALSE>>} \cup Call \X BOOLEAN]
      <4>1. <<op[r], ok>> \in Call \X BOOLEAN
        BY <3>2 DEF CallTypeOK
      <4> QED
        BY <3>2, <4>1 DEF CallTypeOK, Return
    <3>3. ret' = ret \/ op[r] # "none"
      BY <1>1, CallMoves DEF Life, CallAt, Crash, Begin
    <3> QED
      BY <1>1, <3>1, <3>2, <3>3, CallMoves DEF Moved, Begin, Goto
  <2> QED
    BY <2>1, <2>2, <2>3, <2>4 DEF CallTypeOK, Verdict
<1>2. ASSUME NEW r \in Runner, WorldStep(r) PROVE CallTypeOK'
  BY <1>2 DEF WorldStep, ServerCompletes, BootstrapExpires, GuestRuns, GuestFinishes,
     PowersOff, GitHubActs, LateRegistration, CallTypeOK, calls, lister
<1>3. CASE \/ \E r \in Runner : ReadStatus(r)
           \/ BeginList \/ ListFails \/ EndList
  BY <1>3 DEF ReadStatus, runnerState, BeginList, ListFails, EndList, CallTypeOK, calls,
     world, Verdict
<1>4. CASE \/ \E name \in Other : OtherWorker(name)
           \/ UNCHANGED vars
  BY <1>4 DEF OtherWorker, vars, calls, lister, world, CallTypeOK
<1> QED
  BY <1>1, <1>2, <1>3, <1>4 DEF Next

(***************************************************************************)
(* What a listing has found out stays true of the runner.  The first call  *)
(* forgets it, and what happens on its own never hands anything to a guest *)
(* and starts nothing that is not being started already.                   *)
(***************************************************************************)
LEMMA ListStep ==
    ASSUME JobTypeOK, LifeInv, [Next]_vars, NEW r \in Runner
    PROVE  ListInv(r)'
<1>0. CallTypeOK /\ ListInv(r) /\ Life(r)
  BY DEF LifeInv
<1>1. ASSUME NEW q \in Runner, CallStep(q) PROVE ListInv(r)'
  <2>1. CASE \E call \in Call, s \in Step : Begin(q, call, s)
    BY <1>0, <2>1 DEF Begin, ListInv, CallTypeOK
  <2>2. CASE ~ \E call \in Call, s \in Step : Begin(q, call, s)
    <3>1. op[q] # "none" /\ UNCHANGED lister
      <4>1. op[q] # "none"
        BY <1>1, <2>2, CallMoves DEF LifeInv, Life, CallAt, Crash
      <4>2. ~ (BeginCreate(q) \/ BeginFence(q) \/ BeginDelete(q))
        BY <4>1 DEF BeginCreate, BeginFence, BeginDelete, Begin
      <4> QED
        BY <1>1, <4>1, <4>2 DEF CallStep, VerifyProfiles, CreateInstance, CreateWait,
           Payload, bindJITRegistration, StartInstance, StartWait, pushPayload, Push,
           provisioningFails, Fails, FailsCall, GetRunnerByName, RemoveRunner,
           ConfirmFence, GetInstance, stopInstance, collectDiagnostics,
           GetConsoleLog, Store, WriteLog, VerifyBeforeDelete, DeleteInstance, Crash
    <3>2. ~listing /\ listed[r] = "unread"
      BY <1>0, <3>1 DEF ListInv
    <3> QED
      BY <3>1, <3>2 DEF ListInv, lister
  <2> QED
    BY <2>1, <2>2
<1>2. ASSUME NEW q \in Runner, WorldStep(q) PROVE ListInv(r)'
  <2>1. UNCHANGED <<op, listing, listed>>
    BY <1>2 DEF WorldStep, ServerCompletes, BootstrapExpires, GuestRuns, GuestFinishes,
       PowersOff, GitHubActs, LateRegistration, calls, lister
  <2>2. CASE q # r
    <3>1. /\ inst'[r] = inst[r] /\ oper'[r] = oper[r] /\ guest'[r] = guest[r]
          /\ files'[r] = files[r] /\ (r \in aged' <=> r \in aged)
      BY <1>0, <1>2, <2>2 DEF WorldStep, ServerCompletes, BootstrapExpires, GuestRuns,
         GuestFinishes, PowersOff, GitHubActs, LateRegistration, JobTypeOK
    <3> QED
      BY <1>0, <2>1, <3>1 DEF ListInv, Blank
  <2>3. CASE q = r /\ ServerCompletes(r)
    <3>1. /\ oper[r] # "none" /\ oper'[r] = "none"
          /\ inst'[r] = inst[r] \/ inst'[r] = Outcome[oper[r]]
      BY <2>3 DEF ServerCompletes, JobTypeOK
    <3>2. inst'[r] = "running" => inst[r] = "running" \/ oper[r] = "start"
      BY <3>1 DEF Outcome, JobTypeOK
    <3>3. CASE inst'[r] = "none"
      <4>1. Blank(r)'
        BY <2>3, <3>3 DEF ServerCompletes, JobTypeOK, Blank
      <4> QED
        BY <1>0, <2>1, <3>1, <3>3, <4>1 DEF ListInv
    <3>4. CASE inst'[r] # "none"
      <4>1. UNCHANGED <<guest, files, aged>>
        BY <2>3, <3>4 DEF ServerCompletes
      <4> QED
        BY <1>0, <2>1, <3>1, <3>2, <4>1 DEF ListInv, Blank
    <3> QED
      BY <3>3, <3>4
  <2>4. CASE q = r /\ (GuestRuns(r) \/ GuestFinishes(r) \/ PowersOff(r))
    <3>1. /\ oper' = oper /\ aged' = aged /\ inst[r] = "running"
          /\ \/ inst'[r] = "running" /\ ~Blank(r) /\ guest[r] # "exited"
             \/ inst'[r] = "stopped" /\ UNCHANGED <<guest, files>>
      BY <2>4 DEF GuestRuns, GuestFinishes, PowersOff, JobTypeOK, Blank
    <3> QED
      BY <1>0, <2>1, <3>1 DEF ListInv, Blank
  <2>5. CASE q = r /\ (BootstrapExpires(r) \/ GitHubActs(r) \/ LateRegistration(r))
    BY <1>0, <2>1, <2>5 DEF BootstrapExpires, GitHubActs, LateRegistration, ListInv, Blank
  <2> QED
    BY <1>2, <2>2, <2>3, <2>4, <2>5 DEF WorldStep
<1>3. ASSUME NEW q \in Runner, ReadStatus(q) PROVE ListInv(r)'
  <2>1. /\ UNCHANGED <<op, listing, inst, oper, guest, files, aged>> /\ listing
        /\ listed' = [listed EXCEPT ![q] = runnerState(q)] /\ inst[q] = "running"
    BY <1>3 DEF ReadStatus, world, calls
  <2>2. runnerState(q) = "terminal" => guest[q] = "exited" \/ q \in aged
    BY <2>1 DEF runnerState
  <2>3. runnerState(q) # "absent"
    BY DEF runnerState
  <2> QED
    BY <1>0, <2>1, <2>2, <2>3 DEF ListInv, Blank, CallTypeOK
<1>4. CASE BeginList
  <2>1. listed'[r] = "terminal" => inst[r] = "stopped"
    BY <1>4 DEF BeginList
  <2>2. listed'[r] = "absent" => inst[r] = "none"
    BY <1>4 DEF BeginList
  <2>3. UNCHANGED <<op, inst, oper, guest, files, aged>> /\ \A q \in Runner : op[q] = "none"
    BY <1>4 DEF BeginList, world, calls
  <2> QED
    BY <1>0, <2>1, <2>2, <2>3 DEF ListInv, Blank, Life, OperInv
<1>5. CASE ListFails \/ EndList
  BY <1>0, <1>5 DEF ListFails, EndList, world, calls, ListInv, Blank
<1>6. CASE \/ \E name \in Other : OtherWorker(name)
           \/ UNCHANGED vars
  BY <1>0, <1>6 DEF OtherWorker, vars, calls, lister, world, ListInv, Blank
<1> QED
  BY <1>1, <1>2, <1>3, <1>4, <1>5, <1>6 DEF Next

\* Every step keeps every life.
LEMMA LifeStep == ASSUME Inv, LifeInv, [Next]_vars PROVE LifeInv'
<1>0. JobTypeOK /\ CallTypeOK /\ \A r \in Runner : Known(r)
  BY DEF Inv, LifeInv, Known
<1>1. CallTypeOK'
  BY <1>0, CallTypes DEF LifeInv
<1>2. ASSUME NEW r \in Runner PROVE Life(r)'
  <2>1. ASSUME NEW q \in Runner, CallStep(q) \/ WorldStep(q) PROVE Life(r)'
    <3>1. CASE q = r
      BY <1>0, <2>1, <3>1, LifeCreate, LifeFence, LifeDelete, LifeCrash, LifeWorld DEF CallStep
    <3>2. CASE q # r
      BY <1>0, <2>1, <3>2, OthersAlone, LifeOthers DEF LifeInv
    <3> QED
      BY <3>1, <3>2
  <2>2. CASE UNCHANGED <<world, calls>>
    BY <1>0, <2>2 DEF world, calls, Known, Life, CallAt, OperInv, RegisteredInv, AnswerInv,
       Answer, Committed, Blank
  <2> QED
    BY <2>1, <2>2 DEF Next, ReadStatus, OtherWorker, BeginList, ListFails, EndList, vars
<1> QED
  BY <1>0, <1>1, <1>2, ListStep DEF LifeInv

\* Nothing has been created and nothing answered.
LEMMA LifeInit == Init => LifeInv
<1> SUFFICES ASSUME Init PROVE LifeInv
  OBVIOUS
<1>1. CallTypeOK
  BY DEF Init, CallTypeOK, Inst, Verdict
<1>2. ASSUME NEW r \in Runner PROVE CallAt(r, at[r]) /\ OperInv(r) /\ RegisteredInv(r)
  BY DEF Init, CallAt, OperInv, RegisteredInv, Blank, AfterFenceSteps, BeforeJITSteps,
     WithJITSteps, FenceSteps
<1>3. ASSUME NEW r \in Runner PROVE AnswerInv(r) /\ ListInv(r)
  BY DEF Init, AnswerInv, ListInv, Call
<1> QED
  BY <1>1, <1>2, <1>3 DEF LifeInv, Life

\* What JobsSurvive rests on.
LEMMA JobInvariant == Spec => []Inv
<1>1. Init => Inv
  BY DEF Init, Inv, JobTypeOK, JobInv, Blank, Step, Inst, AfterFenceSteps, BeforeJITSteps,
     WithJITSteps
<1> QED
  BY <1>1, InvStep, PTL DEF Spec

\* What the theorems about the answers rest on.
LEMMA LifeInvariant == Spec => []LifeInv
<1>1. Inv /\ LifeInv /\ [Next]_vars => LifeInv'
  BY LifeStep
<1> QED
  BY LifeInit, JobInvariant, <1>1, PTL DEF Spec

\* What a call reports is true when it returns and stays so until the next
\* call about the runner, whatever Incus and GitHub were still busy with.
THEOREM AnswersTrue == Spec => []AnswersAreTrue
<1>1. Inv /\ LifeInv => AnswersAreTrue
  <2> SUFFICES ASSUME Inv, LifeInv, NEW r \in Runner, op[r] = "none"
               PROVE  /\ ret[r] = <<"create", TRUE>> => Committed(r) /\ r \in bound
                      /\ ret[r] = <<"fence", TRUE>> => gh[r] = "none" \/ Unusable(r)
                      /\ ret[r] = <<"delete", TRUE>> =>
                           inst[r] = "none" /\ (gh[r] = "none" \/ Unusable(r))
    BY DEF AnswersAreTrue
  <2>1. \A call \in Call : ret[r] = <<call, TRUE>> => Answer(r, call)
    BY DEF LifeInv, Life, AnswerInv
  <2>2. late[r] = "landed" => Unusable(r)
    BY DEF Inv, JobInv, Unusable
  <2> QED
    BY <2>1, <2>2 DEF Call, Answer
<1> QED
  BY <1>1, JobInvariant, LifeInvariant, PTL

\* A runner that a listing calls terminal never comes to work unless it was
\* given up for its age, and a VM that a listing leaves out is not up.
THEOREM VerdictsTrue == Spec => []VerdictsStand
<1>1. LifeInv => VerdictsStand
  BY DEF LifeInv, ListInv, VerdictsStand, Connected, Blank
<1> QED
  BY <1>1, LifeInvariant, PTL

\* Only a VM that carries its registration metadata runs a job.
THEOREM JobsBound == Spec => []JobIsBound
<1>1. LifeInv => JobIsBound
  BY DEF LifeInv, Life, RegisteredInv, JobIsBound, Blank
<1> QED
  BY <1>1, LifeInvariant, PTL

-----------------------------------------------------------------------------
(* The refinement of Fleet *)

\* What Fleet lets happen to one runner, as its VM and its registration.
FleetMove(v, g, w, h) ==
    \/ w = v /\ h = g
    \/ v \in {"booting", "overdue"} /\ w = "ready" /\ h = g
    \/ v = "booting" /\ w = "overdue" /\ h = g
    \/ v = "ready" /\ g = "idle" /\ w = "ready" /\ h = "busy"
    \/ v = "ready" /\ g = "busy" /\ w = "ready" /\ h = "none"
    \/ v \in {"booting", "overdue", "ready"} /\ w = "ended" /\ h = g
    \/ v \notin {"booting", "overdue", "ready"} /\ g # "none" /\ w = v /\ h = "none"
    \/ v = "coming" /\ w \in {"absent", "ended"} /\ h = g
    \/ v = "starting" /\ w \in {"booting", "overdue", "ended"} /\ h = g
    \/ v = "ended" /\ g = "none" /\ w = "absent" /\ h = "none"
    \/ /\ v = "absent" /\ g = "none"
       /\ \/ w = "coming" /\ h = "none"
          \/ w \in {"starting", "booting", "overdue", "ended"} /\ h \in {"none", "idle"}
    \/ g # "busy" /\ w = v /\ h = "none"

\* A move of one runner is a step of Fleet, or none at all.
LEMMA FleetMoves ==
    ASSUME NEW r \in Runner,
           FleetMove(vmOf(r), ghOf(r), vmOf(r)', ghOf(r)'),
           \A q \in Runner : q # r => vmOf(q)' = vmOf(q) /\ ghOf(q)' = ghOf(q)
    PROVE  F!FleetNext \/ UNCHANGED F!fleetVars
<1> DEFINE v == vmOf(r)
           g == ghOf(r)
<1>1. PICK w, h : w = vmOf(r)' /\ h = ghOf(r)'
  OBVIOUS
<1>2. F!Set(r, w, h)
  BY <1>1 DEF F!Set
<1>3. FleetMove(v, g, w, h)
  BY <1>1
<1>4. CASE w = v /\ h = g
  BY <1>1, <1>4 DEF F!fleetVars
<1> HIDE DEF v, g
<1>5. CASE v \in {"booting", "overdue"} /\ w = "ready" /\ h = g
  BY <1>2, <1>5 DEF F!FleetNext, F!GuestStep, F!GuestReady, v, g
<1>6. CASE v = "booting" /\ w = "overdue" /\ h = g
  BY <1>2, <1>6 DEF F!FleetNext, F!GuestStep, F!BootstrapExpires, v, g
<1>7. CASE v = "ready" /\ g = "idle" /\ w = "ready" /\ h = "busy"
  BY <1>2, <1>7 DEF F!FleetNext, F!GuestStep, F!AssignJob, v, g
<1>8. CASE v = "ready" /\ g = "busy" /\ w = "ready" /\ h = "none"
  BY <1>2, <1>8 DEF F!FleetNext, F!GuestStep, F!FinishJob, v, g
<1>9. CASE v \in {"booting", "overdue", "ready"} /\ w = "ended" /\ h = g
  BY <1>2, <1>9 DEF F!FleetNext, F!GuestStep, F!GuestExit, F!Up, v, g
<1>10. CASE v \notin {"booting", "overdue", "ready"} /\ g # "none" /\ w = v /\ h = "none"
  BY <1>2, <1>10 DEF F!FleetNext, F!GuestStep, F!ForgetRunner, F!Up, v, g
<1>11. CASE v = "coming" /\ w \in {"absent", "ended"} /\ h = g
  BY <1>2, <1>11 DEF F!FleetNext, F!GuestStep, F!LateCreate, v, g
<1>12. CASE v = "starting" /\ w \in {"booting", "overdue", "ended"} /\ h = g
  BY <1>2, <1>12 DEF F!FleetNext, F!GuestStep, F!LateStart, v, g
<1>13. CASE v = "ended" /\ g = "none" /\ w = "absent" /\ h = "none"
  BY <1>2, <1>13 DEF F!FleetNext, F!GuestStep, F!LateDelete, v, g
<1>14. CASE /\ v = "absent" /\ g = "none"
            /\ \/ w = "coming" /\ h = "none"
               \/ w \in {"starting", "booting", "overdue", "ended"} /\ h \in {"none", "idle"}
  BY <1>2, <1>14 DEF F!FleetNext, F!CreateFails, v, g
<1>15. CASE g # "busy" /\ w = v /\ h = "none"
  BY <1>2, <1>15 DEF F!FleetNext, F!FenceOK, v, g
<1> QED
  BY <1>3, <1>4, <1>5, <1>6, <1>7, <1>8, <1>9, <1>10, <1>11, <1>12, <1>13, <1>14, <1>15
  DEF FleetMove

\* Nothing about r changes but its call, and that neither to nor from a create.
LEMMA StillFleet ==
    ASSUME NEW r \in Runner, inst'[r] = inst[r], oper'[r] = oper[r], guest'[r] = guest[r],
           files'[r] = files[r], r \in aged' <=> r \in aged, gh'[r] = gh[r],
           late'[r] = late[r], op'[r] = "create" <=> op[r] = "create"
    PROVE  vmOf(r)' = vmOf(r) /\ ghOf(r)' = ghOf(r)
BY DEF vmOf, ghOf, Hidden, Committed

\* A create goes on and can still be forgotten as a whole.
LEMMA HiddenFleet ==
    ASSUME NEW r \in Runner, Hidden(r), Hidden(r)'
    PROVE  FleetMove(vmOf(r), ghOf(r), vmOf(r)', ghOf(r)')
BY DEF vmOf, ghOf, FleetMove

(***************************************************************************)
(* A create ends without having succeeded: if its runner was hidden, it    *)
(* now appears in whatever state it was left, as one of Fleet's failed     *)
(* creates; otherwise at most its registration has gone.                   *)
(***************************************************************************)
LEMMA AppearsFleet ==
    ASSUME NEW r \in Runner, Known(r), op[r] = "create", op'[r] = "none",
           inst'[r] = inst[r], oper'[r] = oper[r], guest'[r] = guest[r],
           files'[r] = files[r], r \in aged' <=> r \in aged,
           gh'[r] = gh[r] \/ (gh'[r] = "none" /\ gh[r] # "busy"),
           late'[r] = late[r] \/ gh'[r] = "none"
    PROVE  FleetMove(vmOf(r), ghOf(r), vmOf(r)', ghOf(r)')
<1>0. /\ inst[r] \in {"none", "stopped", "running"}
      /\ guest[r] \in {"off", "running", "exited"} /\ gh[r] \in {"none", "idle", "busy"}
      /\ gh[r] # "none" /\ late[r] # "landed" => inst[r] # "none"
      /\ gh[r] = "busy" => guest[r] # "off"
      /\ ~Hidden(r)'
  BY DEF Known, JobTypeOK, Life, RegisteredInv, Inst, Hidden
<1>1. CASE Hidden(r)
  <2>1. vmOf(r) = "absent" /\ ghOf(r) = "none" /\ guest[r] = "off"
    BY <1>1 DEF vmOf, ghOf, Hidden, Committed
  <2>2. ghOf(r)' \in {"none", "idle"} /\ (inst[r] = "none" => ghOf(r)' = "none")
    BY <1>0, <2>1 DEF ghOf
  <2>3. IF inst[r] = "none" THEN vmOf(r)' \in {"absent", "coming"}
        ELSE vmOf(r)' \in {"starting", "booting", "overdue", "ended"}
    BY <1>0, <2>1 DEF vmOf
  <2> QED
    BY <2>1, <2>2, <2>3 DEF FleetMove
<1>2. CASE ~Hidden(r)
  <2>1. vmOf(r)' = vmOf(r)
    BY <1>0, <1>2 DEF vmOf
  <2>2. ghOf(r)' = ghOf(r) \/ (ghOf(r)' = "none" /\ ghOf(r) # "busy")
    BY <1>0, <1>2 DEF ghOf
  <2> QED
    BY <2>1, <2>2 DEF FleetMove
<1> QED
  BY <1>1, <1>2

\* A call moves on or returns while nothing else happens.
LEMMA QuietFleet ==
    ASSUME NEW r \in Runner, Known(r), op[r] # "none",
           UNCHANGED <<inst, oper, guest, files, aged, gh, late>>,
           \/ \E s \in Step : Goto(r, s)
           \/ \E ok \in BOOLEAN : Return(r, ok)
    PROVE  FleetMove(vmOf(r), ghOf(r), vmOf(r)', ghOf(r)')
<1>1. op' = op \/ op'[r] = "none"
  BY DEF Goto, Return, Known, CallTypeOK
<1>2. CASE op'[r] = "create" <=> op[r] = "create"
  BY <1>2, StillFleet DEF FleetMove
<1>3. CASE op[r] = "create" /\ op'[r] = "none"
  BY <1>3, AppearsFleet
<1> QED
  BY <1>1, <1>2, <1>3

\* Create, up to its last request, stays hidden or is a failed create.
LEMMA CreateFleet ==
    ASSUME NEW r \in Runner, Known(r),
           \/ BeginCreate(r) \/ VerifyProfiles(r) \/ CreateInstance(r) \/ CreateWait(r)
           \/ Payload(r) \/ bindJITRegistration(r) \/ StartInstance(r) \/ StartWait(r)
           \/ pushPayload(r)
    PROVE  FleetMove(vmOf(r), ghOf(r), vmOf(r)', ghOf(r)')
<1> USE DEF Step, BeforeJITSteps, WithJITSteps
<1>0. JobTypeOK /\ CallTypeOK /\ JobInv(r) /\ CallAt(r, at[r]) /\ OperInv(r)
      /\ RegisteredInv(r)
  BY DEF Known, Life
<1>1. CASE BeginCreate(r)
  <2>1. /\ UNCHANGED <<inst, oper, guest, files, aged, gh, late>> /\ op'[r] = "create"
        /\ inst[r] = "none" /\ oper[r] = "none" /\ gh[r] = "none" /\ Blank(r)
        /\ op[r] = "none"
    BY <1>0, <1>1 DEF BeginCreate, Begin, CallTypeOK, JobInv, world
  <2>2. vmOf(r) = "absent" /\ ghOf(r) = "none"
    BY <2>1 DEF vmOf, ghOf, Hidden
  <2>3. vmOf(r)' = "absent" /\ ghOf(r)' = "none"
    BY <2>1 DEF vmOf, ghOf, Hidden, Committed, Blank
  <2> QED
    BY <2>2, <2>3 DEF FleetMove
<1>2. ASSUME at[r] \in BeforeJITSteps \cup {"bind", "start"} PROVE Hidden(r)
  BY <1>0, <1>2 DEF CallAt, JobInv, Hidden, Committed, Blank
<1>3. ASSUME at[r] \in BeforeJITSteps \cup {"bind", "start"}, UNCHANGED <<guest, files>>,
             NEW s \in Step, Goto(r, s)
      PROVE  FleetMove(vmOf(r), ghOf(r), vmOf(r)', ghOf(r)')
  <2>1. Hidden(r)'
    BY <1>2, <1>3 DEF Hidden, Committed, Goto
  <2> QED
    BY <1>2, <1>3, <2>1, HiddenFleet
<1>4. ASSUME FailsCall(r), at[r] \in BeforeJITSteps
      PROVE FleetMove(vmOf(r), ghOf(r), vmOf(r)', ghOf(r)')
  BY <1>0, <1>4, QuietFleet DEF FailsCall, world, CallAt
<1>5. ASSUME provisioningFails(r), at[r] \in WithJITSteps \cup {"payload"}
      PROVE FleetMove(vmOf(r), ghOf(r), vmOf(r)', ghOf(r)')
  BY <1>0, <1>5, QuietFleet DEF provisioningFails, Fails, world, CallAt
<1>6. CASE VerifyProfiles(r) \/ CreateInstance(r) \/ CreateWait(r)
  BY <1>3, <1>4, <1>6 DEF VerifyProfiles, CreateInstance, CreateWait, world
<1>7. CASE Payload(r) \/ bindJITRegistration(r) \/ StartInstance(r)
  BY <1>3, <1>5, <1>7 DEF Payload, bindJITRegistration, StartInstance
<1>8. CASE StartWait(r)
  <2>1. op[r] # "none"
    BY <1>0, <1>8 DEF StartWait, CallAt
  <2> QED
    BY <1>5, <1>8, <2>1, QuietFleet DEF StartWait, world
<1>9. CASE pushPayload(r)
  <2>0. /\ op[r] = "create" /\ late[r] = "no" /\ oper[r] = "none"
        /\ Committed(r) \/ gh[r] = "idle"
    BY <1>0, <1>9 DEF pushPayload, CallAt, JobInv
  <2>1. ASSUME Push(r, "payload"), NEW s \in Step, Goto(r, s)
        PROVE  FleetMove(vmOf(r), ghOf(r), vmOf(r)', ghOf(r)')
    <3>1. Committed(r)' <=> Committed(r)
      BY <1>0, <2>1 DEF Push, Committed, JobTypeOK
    <3>2. UNCHANGED <<inst, oper, guest, aged, gh, late, op>>
      BY <2>1 DEF Push, Goto
    <3>3. vmOf(r)' = vmOf(r) /\ ghOf(r)' = ghOf(r)
      BY <3>1, <3>2 DEF vmOf, ghOf, Hidden
    <3> QED
      BY <3>3 DEF FleetMove
  <2>2. ASSUME Push(r, "ready")
        PROVE  FleetMove(vmOf(r), ghOf(r), vmOf(r)', ghOf(r)')
    <3>1. /\ Committed(r)' /\ inst[r] = "running"
          /\ UNCHANGED <<inst, oper, guest, aged, gh, late>>
      BY <1>0, <2>2 DEF Push, Committed, JobTypeOK
    <3>2. ~Hidden(r)'
      BY <3>1 DEF Hidden
    <3>3. CASE Hidden(r)
      <4>1. vmOf(r) = "absent" /\ ghOf(r) = "none" /\ guest[r] = "off" /\ gh[r] = "idle"
        BY <2>0, <3>3 DEF vmOf, ghOf, Hidden, Committed
      <4>2. ghOf(r)' = "idle" /\ vmOf(r)' \in {"booting", "overdue"}
        BY <2>0, <3>1, <3>2, <4>1 DEF vmOf, ghOf
      <4> QED
        BY <4>1, <4>2 DEF FleetMove
    <3>4. CASE ~Hidden(r)
      <4>1. vmOf(r)' = vmOf(r) /\ ghOf(r)' = ghOf(r)
        BY <3>1, <3>2, <3>4 DEF vmOf, ghOf
      <4> QED
        BY <4>1 DEF FleetMove
    <3> QED
      BY <3>3, <3>4
  <2> QED
    BY <1>5, <1>9, <2>1, <2>2 DEF pushPayload
<1> QED
  BY <1>1, <1>6, <1>7, <1>8, <1>9

\* Fence is a fence, or part of what the failed create leaves.
LEMMA FenceFleet ==
    ASSUME NEW r \in Runner, Known(r),
           BeginFence(r) \/ GetRunnerByName(r) \/ RemoveRunner(r) \/ ConfirmFence(r)
    PROVE  FleetMove(vmOf(r), ghOf(r), vmOf(r)', ghOf(r)')
<1> USE DEF Step
<1>0. JobTypeOK /\ CallTypeOK /\ JobInv(r) /\ CallAt(r, at[r])
  BY DEF Known, Life
<1>1. CASE BeginFence(r)
  <2>1. /\ op[r] = "none" /\ op'[r] = "fence"
        /\ UNCHANGED <<inst, oper, guest, files, aged, gh, late>>
    BY <1>0, <1>1 DEF BeginFence, Begin, CallTypeOK, world
  <2> QED
    BY <2>1, StillFleet DEF FleetMove
<1>2. ASSUME NEW ok \in BOOLEAN, fenced(r, ok)
      PROVE  (\E s \in Step : Goto(r, s)) \/ (\E k \in BOOLEAN : Return(r, k))
  BY <1>2 DEF fenced, AfterFence
<1>3. CASE GetRunnerByName(r) \/ ConfirmFence(r)
  <2>1. op[r] # "none" /\ UNCHANGED <<inst, oper, guest, files, aged, gh, late>>
    BY <1>0, <1>3 DEF GetRunnerByName, ConfirmFence, CallAt, world
  <2> QED
    BY <1>2, <1>3, <2>1, QuietFleet DEF GetRunnerByName, ConfirmFence
<1>4. CASE RemoveRunner(r)
  <2>1. op[r] # "none" /\ UNCHANGED <<inst, oper, guest, files, aged>>
    BY <1>0, <1>4 DEF RemoveRunner, CallAt
  <2>2. CASE fenced(r, FALSE) /\ UNCHANGED <<gh, late>>
    BY <1>2, <2>1, <2>2, QuietFleet
  <2>3. CASE /\ gh[r] # "busy" /\ Unregistered(r)
             /\ Goto(r, "confirmFence") \/ fenced(r, FALSE)
    <3>1. gh'[r] = "none"
      BY <1>0, <2>3 DEF Unregistered, JobTypeOK
    <3>2. op'[r] = op[r] \/ op'[r] = "none"
      BY <1>0, <1>2, <2>3 DEF Goto, Return, CallTypeOK
    <3>3. CASE op[r] = "create" /\ op'[r] = "none"
      BY <2>1, <2>3, <3>1, <3>3, AppearsFleet
    <3>4. CASE op'[r] = "create" <=> op[r] = "create"
      <4>1. Hidden(r)' <=> Hidden(r)
        BY <2>1, <3>4 DEF Hidden, Committed
      <4>2. vmOf(r)' = vmOf(r)
        BY <2>1, <4>1 DEF vmOf
      <4>3. ghOf(r)' = "none" /\ ghOf(r) # "busy"
        BY <2>3, <3>1 DEF ghOf
      <4> QED
        BY <4>2, <4>3 DEF FleetMove
    <3> QED
      BY <3>2, <3>3, <3>4
  <2> QED
    BY <1>4, <2>2, <2>3 DEF RemoveRunner
<1> QED
  BY <1>1, <1>3, <1>4

\* Delete, apart from its fence, asks Incus for what LateDelete and
\* GuestExit say will happen.
LEMMA DeleteFleet ==
    ASSUME NEW r \in Runner, Known(r),
           \/ BeginDelete(r) \/ GetInstance(r) \/ stopInstance(r)
           \/ collectDiagnostics(r) \/ VerifyBeforeDelete(r) \/ DeleteInstance(r)
    PROVE  FleetMove(vmOf(r), ghOf(r), vmOf(r)', ghOf(r)')
<1> USE DEF Step, AfterFenceSteps
<1>0. JobTypeOK /\ CallTypeOK /\ CallAt(r, at[r])
  BY DEF Known, Life
<1>1. CASE BeginDelete(r)
  <2>1. /\ op[r] = "none" /\ op'[r] = "delete"
        /\ UNCHANGED <<inst, oper, guest, files, aged, gh, late>>
    BY <1>0, <1>1 DEF BeginDelete, Begin, CallTypeOK, world
  <2> QED
    BY <2>1, StillFleet DEF FleetMove
<1>2. op[r] = "delete" \/ BeginDelete(r)
  BY <1>0 DEF CallAt, GetInstance, stopInstance, collectDiagnostics, GetConsoleLog, Store,
     EntersStore, WriteLog, VerifyBeforeDelete, DeleteInstance
<1>3. CASE GetInstance(r)
  <2>1. /\ UNCHANGED <<inst, oper, guest, files, aged, gh, late>>
        /\ op' = op \/ (op'[r] = "none" /\ op[r] = "delete")
    BY <1>0, <1>3 DEF GetInstance, Return, CallAt, CallTypeOK, world
  <2> QED
    BY <2>1, StillFleet DEF FleetMove
<1>4. CASE collectDiagnostics(r) \/ VerifyBeforeDelete(r)
  <2>1. op[r] # "none" /\ UNCHANGED <<inst, oper, guest, files, aged, gh, late>>
    BY <1>0, <1>4 DEF collectDiagnostics, GetConsoleLog, Store, EntersStore, WriteLog,
       VerifyBeforeDelete, CallAt, world
  <2> QED
    BY <1>4, <2>1, QuietFleet DEF collectDiagnostics, GetConsoleLog, Store, WriteLog,
       VerifyBeforeDelete, getVerified
<1>5. ASSUME NEW s \in Step, Goto(r, s), NEW o \in {"stop", "delete"}, op[r] = "delete",
             oper' = [oper EXCEPT ![r] = o], inst[r] # "none", oper[r] = "none",
             UNCHANGED <<inst, guest, files, aged, gh, late>>
      PROVE  FleetMove(vmOf(r), ghOf(r), vmOf(r)', ghOf(r)')
  <2>1. oper'[r] = o /\ op' = op
    BY <1>0, <1>5 DEF Goto, JobTypeOK
  <2>2. vmOf(r)' = vmOf(r) /\ ghOf(r)' = ghOf(r)
    BY <1>5, <2>1 DEF vmOf, ghOf, Hidden, Committed
  <2> QED
    BY <2>2 DEF FleetMove
<1>6. CASE stopInstance(r)
  <2>1. op[r] = "delete"
    BY <1>0, <1>6 DEF stopInstance, CallAt
  <2> QED
    BY <1>5, <1>6, <2>1, QuietFleet DEF stopInstance, getVerified, FailsCall, world
<1>7. CASE DeleteInstance(r)
  <2>1. op[r] = "delete"
    BY <1>0, <1>7 DEF DeleteInstance, CallAt
  <2> QED
    BY <1>5, <1>7, <2>1, QuietFleet DEF DeleteInstance, FailsCall, world
<1> QED
  BY <1>1, <1>3, <1>4, <1>6, <1>7

\* A process that dies leaves a failed create, or nothing new.
LEMMA CrashFleet ==
    ASSUME NEW r \in Runner, Known(r), Crash(r)
    PROVE  FleetMove(vmOf(r), ghOf(r), vmOf(r)', ghOf(r)')
<1>1. /\ op[r] # "none" /\ op'[r] = "none"
      /\ UNCHANGED <<inst, oper, guest, files, aged, gh>>
      /\ late'[r] = late[r] \/ (gh[r] = "none" /\ op[r] = "create")
  BY DEF Crash, Return, Known, Life, CallAt, CallTypeOK, JobInv, BeforeJITSteps
<1>2. CASE op[r] = "create"
  BY <1>1, <1>2, AppearsFleet
<1>3. CASE op[r] # "create"
  BY <1>1, <1>3, StillFleet DEF FleetMove
<1> QED
  BY <1>2, <1>3

\* What happens to a runner on its own is what Fleet calls a guest step.
LEMMA WorldFleet ==
    ASSUME NEW r \in Runner, Known(r), WorldStep(r)
    PROVE  FleetMove(vmOf(r), ghOf(r), vmOf(r)', ghOf(r)')
<1>0. JobTypeOK /\ CallTypeOK /\ JobInv(r) /\ CallAt(r, at[r]) /\ OperInv(r)
      /\ RegisteredInv(r)
  BY DEF Known, Life
<1>1. op' = op /\ at' = at
  BY DEF WorldStep, ServerCompletes, BootstrapExpires, GuestRuns, GuestFinishes, PowersOff,
     GitHubActs, LateRegistration, calls
<1>2. CASE ServerCompletes(r)
  <2>1. /\ oper[r] # "none" /\ oper'[r] = "none"
        /\ inst'[r] = inst[r] \/ inst'[r] = Outcome[oper[r]]
        /\ UNCHANGED <<gh, late>>
        /\ oper[r] \in {"create", "start", "stop", "delete"}
        /\ inst[r] \in {"none", "stopped", "running"}
    BY <1>0, <1>2 DEF ServerCompletes, JobTypeOK, Inst
  <2>2. \/ inst'[r] = "none" /\ guest'[r] = "off" /\ files'[r] = {}
        \/ inst'[r] # "none" /\ UNCHANGED <<guest, files, aged>>
    BY <1>0, <1>2 DEF ServerCompletes, JobTypeOK
  <2>3. CASE Hidden(r)
    <3>1. Hidden(r)'
      BY <1>1, <2>2, <2>3 DEF Hidden, Committed
    <3> QED
      BY <2>3, <3>1, HiddenFleet
  <2>4. CASE ~Hidden(r)
    <3>1. Hidden(r)' => oper[r] \in {"create", "delete"} /\ inst'[r] = "none"
      <4>1. Hidden(r)' => inst'[r] = "none"
        BY <1>1, <2>2, <2>4 DEF Hidden, Committed
      <4> QED
        BY <1>0, <2>1, <4>1 DEF OperInv, Outcome
    <3>2. CASE oper[r] = "create"
      <4>1. vmOf(r) = "coming" /\ inst'[r] \in {"none", "stopped"}
        BY <1>0, <2>1, <2>4, <3>2 DEF vmOf, OperInv, Outcome
      <4>2. vmOf(r)' \in {"absent", "ended"}
        BY <2>1, <4>1 DEF vmOf
      <4>3. ghOf(r) = "none" /\ ghOf(r)' = "none"
        BY <1>0, <2>1, <3>2 DEF ghOf, OperInv, RegisteredInv
      <4> QED
        BY <4>1, <4>2, <4>3 DEF FleetMove
    <3>3. CASE oper[r] = "start"
      <4>1. /\ vmOf(r) = "starting" /\ inst'[r] \in {"running", "stopped"}
            /\ guest[r] = "off" /\ UNCHANGED <<guest, files, aged>>
        BY <1>0, <2>1, <2>2, <2>4, <3>3 DEF vmOf, OperInv, Outcome, Blank
      <4>2. ~Hidden(r)'
        BY <3>1, <3>3
      <4>3. vmOf(r)' \in {"booting", "overdue", "ended"} /\ ghOf(r)' = ghOf(r)
        BY <2>1, <2>4, <4>1, <4>2 DEF vmOf, ghOf
      <4> QED
        BY <4>1, <4>3 DEF FleetMove
    <3>4. CASE oper[r] = "stop"
      <4>1. /\ inst'[r] = inst[r] \/ inst'[r] = "stopped"
            /\ inst[r] # "none" /\ inst'[r] # "none" /\ UNCHANGED <<guest, files, aged>>
        BY <1>0, <2>1, <2>2, <3>4 DEF OperInv, Outcome
      <4>2. ~Hidden(r)'
        BY <3>1, <3>4
      <4>3. ghOf(r)' = ghOf(r)
        BY <2>1, <2>4, <4>2 DEF ghOf
      <4>4. vmOf(r)' = vmOf(r) \/ vmOf(r)' = "ended"
        BY <2>1, <2>4, <3>4, <4>1, <4>2 DEF vmOf
      <4>5. vmOf(r) \in {"booting", "overdue", "ready", "ended"}
        BY <1>0, <2>1, <2>4, <3>4, <4>1 DEF vmOf
      <4> QED
        BY <4>3, <4>4, <4>5 DEF FleetMove
    <3>5. CASE oper[r] = "delete"
      <4>1. vmOf(r) = "ended" /\ inst'[r] \in {"none", "stopped"}
        BY <1>0, <2>1, <2>4, <3>5 DEF vmOf, OperInv, Outcome
      <4>2. vmOf(r)' \in {"absent", "ended"}
        BY <2>1, <4>1 DEF vmOf
      <4>3. ghOf(r) = "none" /\ ghOf(r)' = "none"
        BY <1>0, <2>1, <3>5 DEF ghOf, JobInv
      <4> QED
        BY <4>1, <4>2, <4>3 DEF FleetMove
    <3> QED
      BY <2>1, <3>2, <3>3, <3>4, <3>5
  <2> QED
    BY <2>3, <2>4
<1>3. CASE BootstrapExpires(r)
  <2>1. /\ UNCHANGED <<inst, oper, guest, files, gh, late>> /\ r \notin aged /\ r \in aged'
        /\ inst[r] \in {"stopped", "running"} /\ guest[r] \in {"off", "running", "exited"}
    BY <1>0, <1>3 DEF BootstrapExpires, JobTypeOK, Inst
  <2>2. ghOf(r)' = ghOf(r)
    BY <1>1, <2>1 DEF ghOf, Hidden, Committed
  <2>3. vmOf(r)' = vmOf(r) \/ (vmOf(r) = "booting" /\ vmOf(r)' = "overdue")
    BY <1>1, <2>1 DEF vmOf, Hidden, Committed
  <2> QED
    BY <2>2, <2>3 DEF FleetMove
<1>4. CASE GuestRuns(r) \/ GuestFinishes(r)
  <2>1. /\ UNCHANGED <<inst, oper, aged, gh, late>> /\ inst[r] = "running"
        /\ Committed(r) /\ Committed(r)'
        /\ \/ guest[r] = "off" /\ guest'[r] \in {"running", "exited"}
           \/ guest[r] = "running" /\ guest'[r] = "exited"
    BY <1>0, <1>4 DEF GuestRuns, GuestFinishes, JobTypeOK, Committed
  <2>2. ~Hidden(r) /\ ~Hidden(r)'
    BY <2>1 DEF Hidden
  <2>3. ghOf(r)' = ghOf(r)
    BY <2>1, <2>2 DEF ghOf
  <2>4. \/ vmOf(r) \in {"booting", "overdue"} /\ vmOf(r)' \in {"ready", "ended"}
        \/ vmOf(r) = "ready" /\ vmOf(r)' = "ended"
    BY <2>1, <2>2 DEF vmOf
  <2> QED
    BY <2>3, <2>4 DEF FleetMove
<1>5. CASE PowersOff(r)
  <2>1. /\ UNCHANGED <<oper, guest, files, aged, gh, late>> /\ inst[r] = "running"
        /\ inst'[r] = "stopped" /\ oper[r] # "start"
    BY <1>0, <1>5 DEF PowersOff, JobTypeOK, OperInv
  <2>2. Hidden(r)' <=> Hidden(r)
    BY <1>1, <2>1 DEF Hidden, Committed
  <2>3. ghOf(r)' = ghOf(r)
    BY <2>1, <2>2 DEF ghOf
  <2>4. CASE Hidden(r)
    BY <2>2, <2>4, HiddenFleet
  <2>5. CASE ~Hidden(r)
    <3>1. vmOf(r) \in {"booting", "overdue", "ready", "ended"} /\ vmOf(r)' = "ended"
      BY <2>1, <2>2, <2>5 DEF vmOf
    <3> QED
      BY <2>3, <3>1 DEF FleetMove
  <2> QED
    BY <2>4, <2>5
<1>6. CASE GitHubActs(r)
  <2>1. UNCHANGED <<inst, oper, guest, files, aged>>
    BY <1>6 DEF GitHubActs
  <2>2. Hidden(r)' <=> Hidden(r)
    BY <1>1, <2>1 DEF Hidden, Committed
  <2>3. vmOf(r)' = vmOf(r)
    BY <2>1, <2>2 DEF vmOf
  <2>4. CASE gh[r] = "idle" /\ Connected(r) /\ gh' = [gh EXCEPT ![r] = "busy"] /\ UNCHANGED late
    <3>1. gh'[r] = "busy" /\ late[r] # "landed" /\ ~Hidden(r) /\ vmOf(r) = "ready"
      BY <1>0, <2>4 DEF JobTypeOK, Connected, JobInv, Blank, Hidden, Committed, vmOf
    <3>2. ghOf(r) = "idle" /\ ghOf(r)' = "busy"
      BY <2>2, <2>4, <3>1 DEF ghOf
    <3> QED
      BY <2>3, <3>1, <3>2 DEF FleetMove
  <2>5. CASE gh[r] = "busy" /\ Connected(r) /\ Unregistered(r)
    <3>1. gh'[r] = "none" /\ late[r] # "landed" /\ ~Hidden(r) /\ vmOf(r) = "ready"
      BY <1>0, <2>5 DEF JobTypeOK, Connected, Unregistered, JobInv, Hidden, Committed, vmOf
    <3>2. ghOf(r) = "busy" /\ ghOf(r)' = "none"
      BY <2>2, <2>5, <3>1 DEF ghOf
    <3> QED
      BY <2>3, <3>1, <3>2 DEF FleetMove
  <2>6. CASE /\ gh[r] # "none" /\ op[r] # "create"
             /\ inst[r] # "running" \/ guest[r] = "exited"
             /\ Unregistered(r)
    <3>1. vmOf(r) \notin {"booting", "overdue", "ready"}
      BY <1>0, <2>6 DEF vmOf, Hidden, JobTypeOK, Inst
    <3>2. ghOf(r)' = "none"
      BY <1>0, <2>6 DEF ghOf, Unregistered, JobTypeOK
    <3> QED
      BY <2>3, <3>1, <3>2 DEF FleetMove
  <2> QED
    BY <1>6, <2>4, <2>5, <2>6 DEF GitHubActs
<1>7. CASE LateRegistration(r)
  <2>1. /\ UNCHANGED <<inst, oper, guest, files, aged>>
        /\ gh[r] = "none" /\ (gh'[r] = "none" \/ late'[r] = "landed")
    BY <1>0, <1>7 DEF LateRegistration, JobInv, JobTypeOK
  <2>2. Hidden(r)' <=> Hidden(r)
    BY <1>1, <2>1 DEF Hidden, Committed
  <2>3. vmOf(r)' = vmOf(r)
    BY <2>1, <2>2 DEF vmOf
  <2>4. ghOf(r) = "none" /\ ghOf(r)' = "none"
    BY <2>1 DEF ghOf
  <2> QED
    BY <2>3, <2>4 DEF FleetMove
<1> QED
  BY <1>2, <1>3, <1>4, <1>5, <1>6, <1>7 DEF WorldStep

\* Every step is a step of Fleet, or none.
LEMMA FleetStep == Inv /\ LifeInv /\ [Next]_vars => [F!FleetNext]_(F!fleetVars)
<1> SUFFICES ASSUME Inv, LifeInv, [Next]_vars
             PROVE  F!FleetNext \/ UNCHANGED F!fleetVars
  OBVIOUS
<1>0. JobTypeOK /\ CallTypeOK /\ \A r \in Runner : Known(r)
  BY DEF Inv, LifeInv, Known
<1>1. ASSUME NEW r \in Runner, CallStep(r) \/ WorldStep(r)
      PROVE  F!FleetNext \/ UNCHANGED F!fleetVars
  <2>1. FleetMove(vmOf(r), ghOf(r), vmOf(r)', ghOf(r)')
    BY <1>0, <1>1, CreateFleet, FenceFleet, DeleteFleet, CrashFleet, WorldFleet DEF CallStep
  <2>2. ASSUME NEW q \in Runner, q # r PROVE vmOf(q)' = vmOf(q) /\ ghOf(q)' = ghOf(q)
    <3>1. Alone(q)
      BY <1>0, <1>1, <2>2, OthersAlone
    <3> QED
      BY <3>1, StillFleet DEF Alone
  <2> QED
    BY <2>1, <2>2, FleetMoves
<1>2. CASE UNCHANGED <<world, calls>>
  <2>1. ASSUME NEW q \in Runner PROVE vmOf(q)' = vmOf(q) /\ ghOf(q)' = ghOf(q)
    BY <1>2, StillFleet DEF world, calls
  <2> QED
    BY <2>1 DEF F!fleetVars
<1> QED
  BY <1>1, <1>2 DEF Next, ReadStatus, OtherWorker, BeginList, ListFails, EndList, vars

(***************************************************************************)
(* The requests of Create, Fence and Delete implement Fleet, which the     *)
(* controller is verified against: for any number of runners, whatever     *)
(* request fails and wherever the process dies, a create is all or nothing *)
(* or one of Fleet's failed creates, and nothing else registers a runner.  *)
(***************************************************************************)
THEOREM FleetImplemented == Spec => ImplementsFleet
<1>1. Init => F!FleetInit
  <2> SUFFICES ASSUME Init PROVE F!FleetInit
    OBVIOUS
  <2>1. ASSUME NEW r \in Runner PROVE vmOf(r) = "absent" /\ ghOf(r) = "none"
    BY DEF Init, vmOf, ghOf, Hidden
  <2> QED
    BY <2>1 DEF F!FleetInit
<1> QED
  BY <1>1, JobInvariant, LifeInvariant, FleetStep, PTL DEF Spec, ImplementsFleet, F!FleetSpec

-----------------------------------------------------------------------------
(* The directory of the console logs *)

\* The ages order the logs that are stored, and no others.
AgeOrder ==
    /\ older \subseteq Names \X Names
    /\ \A m, n \in Names : m = n \/ <<m, n>> \in older \/ <<n, m>> \in older
    /\ \A m, n \in Names : <<m, n>> \in older => <<n, m>> \notin older
    /\ \A l, m, n \in Names : <<l, m>> \in older /\ <<m, n>> \in older => <<l, n>> \in older

\* RetentionBound, and that the directory is finite, without which its
\* cardinality says nothing.
DirInv == /\ logs \in [Name -> Kind]
          /\ IsFiniteSet(Names) /\ RetentionBound
          /\ AgeOrder

\* The ages of a part of the logs order that part.
LEMMA OrderedPart ==
    ASSUME AgeOrder, Names' \subseteq Names, older' = older \cap (Names' \X Names')
    PROVE  AgeOrder'
  BY DEF AgeOrder

\* A prune, complete or not, keeps some of the logs.
LEMMA NewestKept ==
    ASSUME DirInv, NEW retain \in Nat, NEW kept \in Newest(retain)
    PROVE  /\ kept \subseteq Sized /\ IsFiniteSet(kept) /\ Cardinality(kept) \in Nat
           /\ IsFiniteSet(Sized) /\ Cardinality(Sized) \in Nat
           /\ Cardinality(kept) <= retain
           /\ kept = Sized \/ Cardinality(kept) = retain
           /\ \A m \in Sized \ kept, n \in kept : <<m, n>> \in older
<1>1. Sized \subseteq Names /\ IsFiniteSet(Names)
  BY DEF Sized, DirInv
<1>2. IsFiniteSet(Sized) /\ Cardinality(Sized) \in Nat
  BY <1>1, FS_Subset, FS_CardinalityType
<1>3. /\ kept \subseteq Sized
      /\ Cardinality(kept) = IF Cardinality(Sized) <= retain THEN Cardinality(Sized) ELSE retain
      /\ \A m \in Sized \ kept, n \in kept : <<m, n>> \in older
  BY DEF Newest
<1>4. IsFiniteSet(kept) /\ Cardinality(kept) \in Nat
  BY <1>2, <1>3, FS_Subset, FS_CardinalityType
<1>5. Cardinality(kept) = Cardinality(Sized) => kept = Sized
  BY <1>2, <1>3, FS_Subset
<1> QED
  BY <1>2, <1>3, <1>4, <1>5

\* A prune that is cut short has removed nothing but oversized logs, or it was
\* complete: of the others there is at most one to remove.
LEMMA PartlyKept ==
    ASSUME DirInv, NEW kept \in PartlyPruned(MaxFiles - 1)
    PROVE  /\ kept \subseteq Names
           /\ \A n \in Names \ kept :
                \/ logs[n] = "oversized"
                \/ /\ Cardinality(kept) = MaxFiles - 1
                   /\ \A m \in kept : <<n, m>> \in older
<1>1. CASE \E gone \in SUBSET (Names \ Sized) : kept = Names \ gone
  BY <1>1 DEF Sized
<1>2. CASE \E n \in (MaxFiles - 1)..Cardinality(Sized) : kept \in Newest(n)
  <2>1. PICK n \in (MaxFiles - 1)..Cardinality(Sized) : kept \in Newest(n)
    BY <1>2
  <2>2. IsFiniteSet(Names) /\ Sized \subseteq Names /\ Cardinality(Names) <= MaxFiles
    BY DEF DirInv, Sized, RetentionBound
  <2>3. IsFiniteSet(Sized) /\ Cardinality(Sized) <= Cardinality(Names)
    BY <2>2, FS_Subset
  <2>4. Cardinality(Sized) \in Nat /\ Cardinality(Names) \in Nat
    BY <2>2, <2>3, FS_CardinalityType
  <2>5. n \in Nat /\ (n = MaxFiles - 1 \/ n = Cardinality(Sized))
    BY <2>1, <2>2, <2>3, <2>4, MaxFilesAssumption
  <2>6. /\ kept \subseteq Sized
        /\ kept = Sized \/ Cardinality(kept) = n
        /\ \A m \in Sized \ kept, k \in kept : <<m, k>> \in older
    BY <2>1, <2>5, NewestKept
  <2>7. n = Cardinality(Sized) => kept = Sized
    BY <2>3, <2>6, FS_Subset
  <2> QED
    BY <2>5, <2>6, <2>7 DEF Sized
<1> QED
  BY <1>1, <1>2 DEF PartlyPruned

\* Removing logs keeps the rest as it is.
LEMMA LeftKeeps ==
    ASSUME DirInv, NEW kept \in SUBSET Names, Left(kept)
    PROVE  /\ DirInv' /\ Names' = kept
           /\ \A n \in Name : logs'[n] = IF n \in kept THEN logs[n] ELSE "none"
<1>1. \A n \in Name : logs'[n] = IF n \in kept THEN logs[n] ELSE "none"
  BY DEF Left
<1>2. Names' = kept
  BY <1>1 DEF Names
<1>3. logs' \in [Name -> Kind]
  BY DEF Left, DirInv, Kind
<1>4. IsFiniteSet(Names)' /\ RetentionBound'
  <2>1. IsFiniteSet(kept) /\ Cardinality(kept) <= Cardinality(Names)
    BY FS_Subset DEF DirInv
  <2>2. Cardinality(kept) \in Nat /\ Cardinality(Names) \in Nat /\ Cardinality(Names) <= MaxFiles
    BY <2>1, FS_CardinalityType DEF DirInv, RetentionBound
  <2> QED
    BY <1>2, <2>1, <2>2, MaxFilesAssumption DEF RetentionBound
<1>5. AgeOrder'
  BY <1>2, OrderedPart DEF DirInv, Left
<1> QED
  BY <1>1, <1>2, <1>3, <1>4, <1>5 DEF DirInv

\* A prune leaves room for the one file that is then created, and what it
\* removes is oversized or older than all that is left.
LEMMA CreatedKeeps ==
    ASSUME DirInv, NEW name \in Name, name \notin Names, NEW kind \in Kind \ {"none"},
           Created(name, kind)
    PROVE  /\ DirInv' /\ logs'[name] = kind
           /\ \A n \in Name \ {name} : logs'[n] = IF n \in Names' THEN logs[n] ELSE "none"
           /\ \A n \in Names \ Names' :
                \/ logs[n] = "oversized"
                \/ /\ Cardinality(Names \cap Names') = MaxFiles - 1
                   /\ \A m \in Names \cap Names' : <<n, m>> \in older
<1>0. MaxFiles \in Nat /\ MaxFiles - 1 \in Nat
  BY MaxFilesAssumption
<1>1. PICK kept \in Newest(MaxFiles - 1) :
        /\ logs' = [n \in Name |-> IF n = name THEN kind
                                   ELSE IF n \in kept THEN logs[n] ELSE "none"]
        /\ older' = (older \cap (kept \X kept)) \cup (kept \X {name})
  BY DEF Created, pruneDiagnostics
<1>2. /\ kept \subseteq Sized /\ IsFiniteSet(kept) /\ Cardinality(kept) \in Nat
      /\ Cardinality(kept) <= MaxFiles - 1
      /\ kept = Sized \/ Cardinality(kept) = MaxFiles - 1
      /\ \A m \in Sized \ kept, n \in kept : <<m, n>> \in older
  BY <1>0, NewestKept
<1>3. kept \subseteq Names /\ name \notin kept
  BY <1>2 DEF Sized
<1>4. Names' = kept \cup {name}
  BY <1>1, <1>3 DEF Names
<1>5. IsFiniteSet(Names)' /\ Cardinality(Names') = Cardinality(kept) + 1
  BY <1>2, <1>3, <1>4, FS_AddElement
<1>6. logs' \in [Name -> Kind]
  BY <1>1 DEF DirInv, Kind
<1>7. RetentionBound'
  BY <1>0, <1>2, <1>5 DEF RetentionBound
<1>8. AgeOrder'
  <2>1. older' \subseteq Names' \X Names'
    BY <1>1, <1>3, <1>4
  <2>2. ASSUME NEW m \in Names', NEW n \in Names'
        PROVE  <<m, n>> \in older' <=> \/ m \in kept /\ n \in kept /\ <<m, n>> \in older
                                       \/ m \in kept /\ n = name
    BY <1>1, <1>3, <1>4
  <2> QED
    BY <1>3, <1>4, <2>1, <2>2 DEF DirInv, AgeOrder
<1>9. ASSUME NEW n \in Names \ Names', logs[n] # "oversized"
      PROVE  /\ Cardinality(Names \cap Names') = MaxFiles - 1
             /\ \A m \in Names \cap Names' : <<n, m>> \in older
  <2>1. n \in Sized \ kept
    BY <1>4, <1>9 DEF Sized
  <2>2. Names \cap Names' = kept
    BY <1>3, <1>4
  <2> QED
    BY <1>2, <2>1, <2>2
<1>10. ASSUME NEW n \in Name \ {name} PROVE logs'[n] = IF n \in Names' THEN logs[n] ELSE "none"
  BY <1>1, <1>4, <1>10
<1>11. logs'[name] = kind
  BY <1>1
<1> QED
  BY <1>5, <1>6, <1>7, <1>8, <1>9, <1>10, <1>11 DEF DirInv

\* What earlier processes left is such a directory.
LEMMA DirectoryOK == DirectoryInit => DirInv
  BY DEF DirectoryInit, DirInv, RetentionBound, AgeOrder

-----------------------------------------------------------------------------
(* What became of the console logs *)

\* The steps of Delete behind its Store.
Tried == {"verify", "delete", "deleteWait"}

(***************************************************************************)
(* EvidenceKept is not inductive.  A file that is being written is one the *)
(* Store created itself, so it is nobody's complete log; a log found under *)
(* the name of r is one that Delete stored in the life of this r, so that  *)
(* finding it there is as good as storing it; and a Delete that has come   *)
(* past its Store has tried.                                               *)
(***************************************************************************)
KeptInv(r) ==
    /\ at[r] = "write" => logs[r] = "partial"
    /\ logs[r] # "none" /\ at[r] # "write" => evidence[r] # "none"
    /\ at[r] \in Tried => evidence[r] # "none"
    /\ oper[r] = "delete" => evidence[r] # "none"
    /\ evidence[r] = "whole" => logs[r] = "whole"

\* The sink's mutex: one Store writes at a time.
OneWriter == \A q, r \in Runner : at[q] = "write" /\ at[r] = "write" => q = r

StoreInv == /\ DirInv
            /\ evidence \in [Runner -> {"none", "whole", "evicted", "lost"}]
            /\ OneWriter
            /\ \A r \in Runner : KeptInv(r)

\* A step that has nothing to do with the log of r.
NotStoring(r) ==
    /\ at'[r] = "write" <=> at[r] = "write"
    /\ at'[r] \in Tried => at[r] \in Tried
    /\ oper'[r] = "delete" => oper[r] = "delete" \/ at[r] \in Tried

\* Nothing happens to the logs.
LEMMA QuietKeeps ==
    ASSUME StoreInv, UNCHANGED store, \A r \in Runner : NotStoring(r)
    PROVE  StoreInv'
<1>1. UNCHANGED <<logs, older, evidence>>
  BY DEF store, directory
<1>2. DirInv'
  BY <1>1 DEF StoreInv, DirInv, Names, RetentionBound, AgeOrder
<1>3. OneWriter'
  BY DEF StoreInv, OneWriter, NotStoring
<1>4. ASSUME NEW r \in Runner PROVE KeptInv(r)'
  BY <1>1 DEF StoreInv, KeptInv, NotStoring
<1> QED
  BY <1>1, <1>2, <1>3, <1>4 DEF StoreInv

\* Create has nothing to do with the logs.
LEMMA CreateQuiet ==
    ASSUME NEW r \in Runner, Known(r),
           \/ VerifyProfiles(r) \/ CreateInstance(r) \/ CreateWait(r)
           \/ Payload(r) \/ bindJITRegistration(r) \/ StartInstance(r) \/ StartWait(r)
           \/ pushPayload(r)
    PROVE  UNCHANGED store /\ NotStoring(r)
<1> USE DEF Tried
<1>0. JobTypeOK
  BY DEF Known
<1>1. UNCHANGED store
  BY DEF VerifyProfiles, CreateInstance, CreateWait, Payload, bindJITRegistration,
     StartInstance, StartWait, pushPayload, Push, provisioningFails, Fails, FailsCall
<1>2. at'[r] \notin Tried \cup {"write"} /\ at[r] # "write"
  BY <1>0 DEF VerifyProfiles, CreateInstance, CreateWait, Payload, bindJITRegistration,
     StartInstance, StartWait, pushPayload, provisioningFails, Fails, FailsCall, Goto, Return,
     JobTypeOK
<1>3. oper'[r] = "delete" => oper[r] = "delete"
  BY <1>0 DEF VerifyProfiles, CreateInstance, CreateWait, Payload, bindJITRegistration,
     StartInstance, StartWait, pushPayload, Push, provisioningFails, Fails, FailsCall, world,
     JobTypeOK
<1> QED
  BY <1>1, <1>2, <1>3 DEF NotStoring

\* Neither has Fence, nor the beginning of Delete.
LEMMA FenceQuiet ==
    ASSUME NEW r \in Runner, Known(r),
           \/ BeginFence(r) \/ GetRunnerByName(r) \/ RemoveRunner(r) \/ ConfirmFence(r)
           \/ BeginDelete(r)
    PROVE  UNCHANGED store /\ NotStoring(r)
<1> USE DEF Tried
<1>0. JobTypeOK /\ CallAt(r, at[r])
  BY DEF Known, Life
<1>1. UNCHANGED store /\ UNCHANGED oper
  BY DEF BeginFence, BeginDelete, Begin, GetRunnerByName, RemoveRunner, ConfirmFence, store, world
<1>2. at'[r] \notin Tried \cup {"write"} /\ at[r] # "write"
  BY <1>0 DEF BeginFence, BeginDelete, Begin, GetRunnerByName, RemoveRunner, ConfirmFence, fenced,
     AfterFence, Goto, Return, JobTypeOK, CallAt
<1> QED
  BY <1>1, <1>2 DEF NotStoring

\* The steps of Delete before the console log is read and after its Store:
\* Incus is asked to delete only behind the Store.
LEMMA DeleteQuiet ==
    ASSUME NEW r \in Runner, Known(r),
           \/ GetInstance(r) \/ stopInstance(r) \/ VerifyBeforeDelete(r) \/ DeleteInstance(r)
           \/ /\ at[r] = "diagnostics"
              /\ getVerified(r, "console") \/ Return(r, FALSE)
              /\ UNCHANGED <<world, store, lister>>
    PROVE  UNCHANGED store /\ NotStoring(r)
<1> USE DEF Tried
<1>0. JobTypeOK
  BY DEF Known
<1>1. UNCHANGED store
  BY DEF GetInstance, stopInstance, VerifyBeforeDelete, DeleteInstance, FailsCall
<1>2. at'[r] # "write" /\ at[r] # "write" /\ (at'[r] \in Tried => at[r] \in Tried)
  BY <1>0 DEF GetInstance, stopInstance, VerifyBeforeDelete, DeleteInstance, FailsCall,
     getVerified, Goto, Return, JobTypeOK
<1>3. oper'[r] = "delete" => oper[r] = "delete" \/ at[r] \in Tried
  BY <1>0 DEF GetInstance, stopInstance, VerifyBeforeDelete, DeleteInstance, FailsCall,
     world, JobTypeOK
<1> QED
  BY <1>1, <1>2, <1>3 DEF NotStoring

\* Incus, GitHub and the guests never touch the logs.
LEMMA WorldQuiet ==
    ASSUME NEW r \in Runner, Known(r), WorldStep(r)
    PROVE  UNCHANGED store /\ NotStoring(r)
<1>0. JobTypeOK
  BY DEF Known
<1>1. UNCHANGED store /\ UNCHANGED at
  BY DEF WorldStep, ServerCompletes, BootstrapExpires, GuestRuns, GuestFinishes, PowersOff,
     GitHubActs, LateRegistration, calls
<1>2. oper' = oper \/ oper'[r] = "none"
  BY <1>0 DEF WorldStep, ServerCompletes, BootstrapExpires, GuestRuns, GuestFinishes, PowersOff,
     GitHubActs, LateRegistration, JobTypeOK
<1> QED
  BY <1>1, <1>2 DEF NotStoring

\* A step about r does not store the log of another runner.
LEMMA OthersNotStoring ==
    ASSUME JobTypeOK, CallTypeOK, NEW r \in Runner, NEW q \in Runner, q # r,
           CallStep(r) \/ WorldStep(r)
    PROVE  at'[q] = at[q] /\ oper'[q] = oper[q] /\ NotStoring(q)
  BY OthersAlone DEF Alone, NotStoring

\* As many logs stay as may be kept beside a new one, and all of them are
\* newer than that of r.
Pushed(r) == /\ Cardinality(Names \cap Names') = MaxFiles - 1
             /\ \A n \in Names \cap Names' : <<r, n>> \in older

(***************************************************************************)
(* A complete log goes only to make room for a new one in a full           *)
(* directory, and goes as the oldest: the logs that stay are newer, and    *)
(* they are as many as a new one leaves room for.  Whether the new one     *)
(* then appears is another matter: its creation may fail, or the process   *)
(* die before it.                                                          *)
(***************************************************************************)
EvictedByNewer ==
    [][\A r \in Runner : evidence[r] = "whole" /\ evidence'[r] # "whole" => Pushed(r)]_vars

\* The step does not cost r its complete log, unless it is pushed out.
Safe(r) == evidence[r] = "whole" /\ evidence'[r] # "whole" => Pushed(r)

\* A Store, of whichever worker, is done to the log of q.
LEMMA Evicts ==
    ASSUME StoreInv, NEW q \in Runner, at[q] # "write",
           at'[q] = at[q], oper'[q] = oper[q], evidence'[q] = Evictions[q],
           logs'[q] = IF q \in Names' THEN logs[q] ELSE "none",
           q \in Names \ Names' => logs[q] = "oversized" \/ Pushed(q)
    PROVE  KeptInv(q)' /\ Safe(q)
<1>1. KeptInv(q) /\ q \in Name
  BY DEF StoreInv, Name
<1>2. evidence'[q] = IF evidence[q] = "whole" /\ q \notin Names' THEN "evicted" ELSE evidence[q]
  BY DEF Evictions
<1>3. KeptInv(q)'
  BY <1>1, <1>2 DEF KeptInv
<1>4. evidence[q] = "whole" /\ evidence'[q] # "whole" => q \in Names \ Names' /\ logs[q] = "whole"
  BY <1>1, <1>2 DEF KeptInv, Names
<1> QED
  BY <1>3, <1>4 DEF Safe

\* The name of r has no log when its life begins.
LEMMA BeginKeeps ==
    ASSUME StoreInv, Inv, LifeInv, NEW r \in Runner, BeginCreate(r)
    PROVE  StoreInv' /\ \A q \in Runner : Safe(q)
<1>0. JobTypeOK /\ CallTypeOK /\ CallAt(r, at[r]) /\ r \in Name
  BY DEF Inv, LifeInv, Life, Name
<1>1. /\ at' = [at EXCEPT ![r] = "verifyProfiles"] /\ UNCHANGED <<oper, logs, older>>
      /\ evidence' = [evidence EXCEPT ![r] = "none"]
      /\ at[r] = "idle" /\ logs[r] = "none" /\ oper[r] = "none"
  BY <1>0 DEF BeginCreate, Begin, CallAt, Names, directory, world
<1>2. DirInv'
  BY <1>1 DEF StoreInv, DirInv, Names, RetentionBound, AgeOrder
<1>3. evidence' \in [Runner -> {"none", "whole", "evicted", "lost"}] /\ OneWriter'
  BY <1>0, <1>1 DEF StoreInv, OneWriter, JobTypeOK
<1>4. ASSUME NEW q \in Runner PROVE KeptInv(q)' /\ Safe(q)
  BY <1>0, <1>1 DEF StoreInv, KeptInv, Safe, JobTypeOK, Tried
<1> QED
  BY <1>2, <1>3, <1>4 DEF StoreInv

\* Delete goes on without the console log.
LEMMA ConsoleKeeps ==
    ASSUME StoreInv, JobTypeOK, NEW r \in Runner, GetConsoleLog(r)
    PROVE  StoreInv' /\ \A q \in Runner : Safe(q)
<1>1. /\ UNCHANGED <<oper, logs, older>> /\ at[r] = "console"
      /\ \/ at' = [at EXCEPT ![r] = "store"] /\ UNCHANGED evidence
         \/ at' = [at EXCEPT ![r] = "verify"] /\ NotKept(r)
  BY DEF GetConsoleLog, Goto, directory, world
<1>2. DirInv'
  BY <1>1 DEF StoreInv, DirInv, Names, RetentionBound, AgeOrder
<1>3. evidence' \in [Runner -> {"none", "whole", "evicted", "lost"}] /\ OneWriter'
  BY <1>1 DEF StoreInv, OneWriter, JobTypeOK, NotKept
<1>4. ASSUME NEW q \in Runner PROVE KeptInv(q)' /\ Safe(q)
  BY <1>1 DEF StoreInv, KeptInv, Safe, JobTypeOK, Tried, NotKept
<1> QED
  BY <1>2, <1>3, <1>4 DEF StoreInv

\* The write ends, well or badly; only the file of r is touched.
LEMMA WriteKeeps ==
    ASSUME StoreInv, JobTypeOK, NEW r \in Runner, WriteLog(r)
    PROVE  StoreInv' /\ \A q \in Runner : Safe(q)
<1>0. r \in Name /\ at[r] = "write" /\ logs[r] = "partial" /\ r \in Names /\ DirInv
  BY DEF Name, WriteLog, StoreInv, KeptInv, Names
<1>1. at' = [at EXCEPT ![r] = "verify"] /\ UNCHANGED oper
  BY DEF WriteLog, Goto, world
<1>2. /\ DirInv' /\ \A n \in Name \ {r} : logs'[n] = logs[n]
      /\ \/ logs'[r] = "whole" /\ evidence' = [evidence EXCEPT ![r] = "whole"]
         \/ NotKept(r)
  <2>1. CASE Written(r) /\ evidence' = [evidence EXCEPT ![r] = "whole"]
    <3>1. /\ logs' \in [Name -> Kind] /\ logs'[r] = "whole" /\ older' = older
          /\ \A n \in Name \ {r} : logs'[n] = logs[n]
      BY <1>0, <2>1 DEF Written, DirInv, Kind
    <3>2. Names' = Names
      BY <1>0, <3>1 DEF Names
    <3> QED
      BY <2>1, <3>1, <3>2 DEF StoreInv, DirInv, RetentionBound, AgeOrder
  <2>2. CASE UNCHANGED directory /\ NotKept(r)
    BY <2>2 DEF directory, StoreInv, DirInv, Names, RetentionBound, AgeOrder
  <2>3. CASE Removed(r) /\ NotKept(r)
    <3>1. DirInv' /\ \A n \in Name : logs'[n] = IF n \in Names \ {r} THEN logs[n] ELSE "none"
      BY <1>0, <2>3, LeftKeeps DEF Removed
    <3>2. \A n \in Name \ Names : logs[n] = "none"
      BY DEF Names
    <3> QED
      BY <2>3, <3>1, <3>2
  <2> QED
    BY <2>1, <2>2, <2>3 DEF WriteLog
<1>3. evidence' \in [Runner -> {"none", "whole", "evicted", "lost"}] /\ OneWriter'
  BY <1>1, <1>2 DEF StoreInv, OneWriter, JobTypeOK, NotKept
<1>4. ASSUME NEW q \in Runner PROVE KeptInv(q)' /\ Safe(q)
  <2>1. q \in Name /\ KeptInv(q) /\ KeptInv(r)
    BY DEF Name, StoreInv
  <2>2. CASE q = r
    BY <1>0, <1>1, <1>2, <2>1, <2>2 DEF StoreInv, KeptInv, Safe, JobTypeOK, Tried, NotKept
  <2>3. CASE q # r
    BY <1>0, <1>1, <1>2, <2>1, <2>3 DEF StoreInv, KeptInv, Safe, JobTypeOK, NotKept
  <2> QED
    BY <2>2, <2>3
<1> QED
  BY <1>2, <1>3, <1>4 DEF StoreInv

\* Whoever it is that prunes and creates no file.
LEMMA OnlyPrunesKeeps ==
    ASSUME DirInv, OnlyPrunes
    PROVE  /\ DirInv' /\ Names' \subseteq Names
           /\ \A n \in Name : logs'[n] = IF n \in Names' THEN logs[n] ELSE "none"
           /\ \A n \in Names \ Names' : logs[n] = "oversized" \/ Pushed(n)
<1>1. PICK kept \in PartlyPruned(MaxFiles - 1) : Left(kept)
  BY DEF OnlyPrunes
<1>2. /\ kept \subseteq Names
      /\ \A n \in Names \ kept : \/ logs[n] = "oversized"
                                 \/ /\ Cardinality(kept) = MaxFiles - 1
                                    /\ \A m \in kept : <<n, m>> \in older
  BY PartlyKept
<1>3. /\ DirInv' /\ Names' = kept
      /\ \A n \in Name : logs'[n] = IF n \in kept THEN logs[n] ELSE "none"
  BY <1>1, <1>2, LeftKeeps
<1>4. Names \cap Names' = kept
  BY <1>2, <1>3
<1> QED
  BY <1>2, <1>3, <1>4 DEF Pushed

\* The process dies in a call about r, perhaps in the middle of its write or
\* of its prune.
LEMMA CrashStores ==
    ASSUME StoreInv, JobTypeOK, NEW r \in Runner, Crash(r)
    PROVE  StoreInv' /\ \A q \in Runner : Safe(q)
<1>0. UNCHANGED oper /\ at' = [at EXCEPT ![r] = "idle"] /\ DirInv /\ r \in Name
  BY DEF Crash, Return, StoreInv, Name
<1>1. CASE /\ UNCHANGED directory
           /\ IF at[r] = "write" THEN NotKept(r) ELSE UNCHANGED evidence
  <2>1. UNCHANGED <<logs, older>>
    BY <1>1 DEF directory
  <2>2. DirInv'
    BY <2>1 DEF StoreInv, DirInv, Names, RetentionBound, AgeOrder
  <2>3. evidence' \in [Runner -> {"none", "whole", "evicted", "lost"}] /\ OneWriter'
    BY <1>0, <1>1 DEF StoreInv, OneWriter, JobTypeOK, NotKept
  <2>4. ASSUME NEW q \in Runner PROVE KeptInv(q)' /\ Safe(q)
    BY <1>0, <1>1, <2>1 DEF StoreInv, KeptInv, Safe, JobTypeOK, Tried, NotKept
  <2> QED
    BY <2>2, <2>3, <2>4 DEF StoreInv
<1>2. CASE EntersStore(r) /\ r \notin Names /\ OnlyPrunes /\ evidence' = Evictions
  <2>1. \A q \in Runner : at[q] # "write"
    BY <1>2 DEF EntersStore
  <2>2. /\ DirInv' /\ Names' \subseteq Names
        /\ \A n \in Name : logs'[n] = IF n \in Names' THEN logs[n] ELSE "none"
        /\ \A n \in Names \ Names' : logs[n] = "oversized" \/ Pushed(n)
    BY <1>0, <1>2, OnlyPrunesKeeps
  <2>3. evidence' \in [Runner -> {"none", "whole", "evicted", "lost"}] /\ OneWriter'
    BY <1>0, <1>2, <2>1 DEF StoreInv, OneWriter, JobTypeOK, Evictions
  <2>4. ASSUME NEW q \in Runner, q # r PROVE KeptInv(q)' /\ Safe(q)
    <3>1. /\ at'[q] = at[q] /\ oper'[q] = oper[q] /\ evidence'[q] = Evictions[q] /\ q \in Name
          /\ logs'[q] = IF q \in Names' THEN logs[q] ELSE "none"
          /\ q \in Names \ Names' => logs[q] = "oversized" \/ Pushed(q)
      BY <1>0, <1>2, <2>2, <2>4 DEF JobTypeOK, Name
    <3> QED
      BY <2>1, <3>1, Evicts
  <2>5. KeptInv(r)' /\ Safe(r)
    <3>1. /\ logs[r] = "none" /\ logs'[r] = "none" /\ KeptInv(r) /\ at'[r] = "idle"
          /\ oper'[r] = oper[r]
      BY <1>0, <1>2, <2>2 DEF Names, StoreInv, JobTypeOK
    <3>2. evidence[r] # "whole" /\ evidence'[r] = evidence[r]
      BY <1>2, <3>1 DEF Evictions, KeptInv
    <3> QED
      BY <3>1, <3>2 DEF KeptInv, Safe, Tried
  <2> QED
    BY <2>2, <2>3, <2>4, <2>5 DEF StoreInv
<1> QED
  BY <1>1, <1>2 DEF Crash

\* A Store up to its write: it finds the log there, gives up, or prunes.
LEMMA StoreKeeps ==
    ASSUME StoreInv, JobTypeOK, NEW r \in Runner, Store(r)
    PROVE  StoreInv' /\ \A q \in Runner : Safe(q)
<1>0. /\ at[r] = "store" /\ \A q \in Runner : at[q] # "write"
      /\ r \in Name /\ UNCHANGED oper /\ DirInv
  BY DEF Store, EntersStore, Name, world, StoreInv
<1>1. CASE \/ r \in Names /\ Goto(r, "verify") /\ UNCHANGED store
           \/ Goto(r, "verify") /\ NotKept(r) /\ UNCHANGED directory
  <2>1. /\ UNCHANGED <<logs, older>> /\ at' = [at EXCEPT ![r] = "verify"]
        /\ (logs[r] # "none" /\ evidence' = evidence) \/ NotKept(r)
    BY <1>0, <1>1 DEF Goto, store, directory, Names
  <2>2. DirInv'
    BY <2>1 DEF StoreInv, DirInv, Names, RetentionBound, AgeOrder
  <2>3. evidence' \in [Runner -> {"none", "whole", "evicted", "lost"}] /\ OneWriter'
    BY <2>1 DEF StoreInv, OneWriter, JobTypeOK, NotKept
  <2>4. ASSUME NEW q \in Runner PROVE KeptInv(q)' /\ Safe(q)
    BY <1>0, <2>1 DEF StoreInv, KeptInv, Safe, JobTypeOK, Tried, NotKept
  <2> QED
    BY <2>2, <2>3, <2>4 DEF StoreInv
<1>2. CASE /\ r \notin Names /\ OnlyPrunes /\ Goto(r, "verify")
           /\ evidence' = [Evictions EXCEPT ![r] = IF @ = "none" THEN "lost" ELSE @]
  <2>3. /\ DirInv' /\ Names' \subseteq Names
        /\ \A n \in Name : logs'[n] = IF n \in Names' THEN logs[n] ELSE "none"
        /\ \A n \in Names \ Names' : logs[n] = "oversized" \/ Pushed(n)
    BY <1>0, <1>2, OnlyPrunesKeeps
  <2>4. at' = [at EXCEPT ![r] = "verify"]
    BY <1>2 DEF Goto
  <2>5. evidence' \in [Runner -> {"none", "whole", "evicted", "lost"}] /\ OneWriter'
    BY <1>0, <1>2, <2>4 DEF StoreInv, OneWriter, JobTypeOK, Evictions
  <2>6. ASSUME NEW q \in Runner, q # r PROVE KeptInv(q)' /\ Safe(q)
    <3>1. /\ at'[q] = at[q] /\ oper'[q] = oper[q] /\ evidence'[q] = Evictions[q] /\ q \in Name
          /\ logs'[q] = IF q \in Names' THEN logs[q] ELSE "none"
          /\ q \in Names \ Names' => logs[q] = "oversized" \/ Pushed(q)
      BY <1>0, <1>2, <2>3, <2>4, <2>6 DEF JobTypeOK, Evictions, Name
    <3> QED
      BY <1>0, <3>1, Evicts
  <2>7. KeptInv(r)' /\ Safe(r)
    <3>1. logs[r] = "none" /\ logs'[r] = "none" /\ evidence[r] # "whole" /\ at'[r] = "verify"
      BY <1>0, <1>2, <2>3, <2>4 DEF Names, StoreInv, KeptInv, JobTypeOK
    <3>2. evidence'[r] = IF evidence[r] = "none" THEN "lost" ELSE evidence[r]
      BY <1>2, <3>1 DEF Evictions
    <3> QED
      BY <3>1, <3>2 DEF KeptInv, Safe
  <2> QED
    BY <2>3, <2>5, <2>6, <2>7 DEF StoreInv
<1>3. CASE /\ r \notin Names /\ Created(r, "partial") /\ Goto(r, "write")
           /\ evidence' = Evictions
  <2>1. /\ DirInv' /\ logs'[r] = "partial"
        /\ \A n \in Name \ {r} : logs'[n] = IF n \in Names' THEN logs[n] ELSE "none"
        /\ \A n \in Names \ Names' : logs[n] = "oversized" \/ Pushed(n)
    BY <1>0, <1>3, CreatedKeeps DEF Kind, Pushed
  <2>2. at' = [at EXCEPT ![r] = "write"]
    BY <1>3 DEF Goto
  <2>3. evidence' \in [Runner -> {"none", "whole", "evicted", "lost"}] /\ OneWriter'
    BY <1>0, <1>3, <2>2 DEF StoreInv, OneWriter, JobTypeOK, Evictions
  <2>4. ASSUME NEW q \in Runner, q # r PROVE KeptInv(q)' /\ Safe(q)
    <3>1. /\ at'[q] = at[q] /\ oper'[q] = oper[q] /\ evidence'[q] = Evictions[q] /\ q \in Name
          /\ logs'[q] = IF q \in Names' THEN logs[q] ELSE "none"
          /\ q \in Names \ Names' => logs[q] = "oversized" \/ Pushed(q)
      BY <1>0, <1>3, <2>1, <2>2, <2>4 DEF JobTypeOK, Name
    <3> QED
      BY <1>0, <3>1, Evicts
  <2>5. KeptInv(r)' /\ Safe(r)
    <3>1. logs[r] = "none" /\ KeptInv(r) /\ at'[r] = "write"
      BY <1>0, <1>3, <2>2 DEF Names, StoreInv, JobTypeOK
    <3>2. evidence[r] # "whole" /\ evidence'[r] = evidence[r]
      BY <1>3, <3>1 DEF Evictions, KeptInv
    <3> QED
      BY <1>0, <2>1, <3>1, <3>2 DEF KeptInv, Safe, Tried
  <2> QED
    BY <2>1, <2>3, <2>4, <2>5 DEF StoreInv
<1> QED
  BY <1>1, <1>2, <1>3 DEF Store

\* The whole Store of another worker.
LEMMA OtherKeeps ==
    ASSUME StoreInv, NEW name \in Other, OtherWorker(name)
    PROVE  StoreInv' /\ \A q \in Runner : Safe(q)
<1>0. /\ \A q \in Runner : at[q] # "write" /\ q # name
      /\ name \in Name /\ name \notin Names /\ UNCHANGED <<at, oper>> /\ DirInv
      /\ evidence' = Evictions
  BY OtherAssumption DEF OtherWorker, OtherStores, Name, world, calls, StoreInv
<1>1. /\ DirInv'
      /\ \A n \in Name \ {name} : logs'[n] = IF n \in Names' THEN logs[n] ELSE "none"
      /\ \A n \in Names \ Names' : logs[n] = "oversized" \/ Pushed(n)
  <2>1. CASE Created(name, "whole") \/ Created(name, "partial")
    BY <1>0, <2>1, CreatedKeeps DEF Kind, Pushed
  <2>2. CASE OnlyPrunes
    BY <1>0, <2>2, OnlyPrunesKeeps
  <2> QED
    BY <2>1, <2>2 DEF OtherWorker, OtherStores
<1>2. evidence' \in [Runner -> {"none", "whole", "evicted", "lost"}] /\ OneWriter'
  BY <1>0 DEF StoreInv, OneWriter, Evictions
<1>3. ASSUME NEW q \in Runner PROVE KeptInv(q)' /\ Safe(q)
  <2>1. /\ at'[q] = at[q] /\ oper'[q] = oper[q] /\ evidence'[q] = Evictions[q] /\ q \in Name
        /\ logs'[q] = IF q \in Names' THEN logs[q] ELSE "none"
        /\ q \in Names \ Names' => logs[q] = "oversized" \/ Pushed(q)
    BY <1>0, <1>1 DEF Name
  <2> QED
    BY <1>0, <2>1, Evicts
<1> QED
  BY <1>1, <1>2, <1>3 DEF StoreInv

\* Every step of the system keeps it.
LEMMA StoreStep ==
    ASSUME Inv, LifeInv, StoreInv, [Next]_vars
    PROVE  StoreInv' /\ \A q \in Runner : Safe(q)
<1>0. JobTypeOK /\ CallTypeOK /\ \A r \in Runner : Known(r)
  BY DEF Inv, LifeInv, Known
<1>1. ASSUME UNCHANGED store, \A r \in Runner : NotStoring(r)
      PROVE  StoreInv' /\ \A q \in Runner : Safe(q)
  <2>1. evidence' = evidence
    BY <1>1 DEF store
  <2> QED
    BY <1>1, <2>1, QuietKeeps DEF Safe
<1>2. ASSUME NEW r \in Runner, CallStep(r) \/ WorldStep(r), UNCHANGED store /\ NotStoring(r)
      PROVE  StoreInv' /\ \A q \in Runner : Safe(q)
  BY <1>0, <1>1, <1>2, OthersNotStoring
<1>3. ASSUME NEW r \in Runner, CallStep(r)
      PROVE  StoreInv' /\ \A q \in Runner : Safe(q)
  <2>1. CASE BeginCreate(r)
    BY <2>1, BeginKeeps
  <2>2. CASE Crash(r)
    BY <1>0, <2>2, CrashStores
  <2>3. CASE GetConsoleLog(r)
    BY <1>0, <2>3, ConsoleKeeps
  <2>4. CASE Store(r)
    BY <1>0, <2>4, StoreKeeps
  <2>5. CASE WriteLog(r)
    BY <1>0, <2>5, WriteKeeps
  <2>6. CASE ~(BeginCreate(r) \/ Crash(r) \/ GetConsoleLog(r) \/ Store(r) \/ WriteLog(r))
    <3>1. UNCHANGED store /\ NotStoring(r)
      BY <1>0, <1>3, <2>6, CreateQuiet, FenceQuiet, DeleteQuiet DEF CallStep, collectDiagnostics
    <3> QED
      BY <1>2, <1>3, <3>1
  <2> QED
    BY <2>1, <2>2, <2>3, <2>4, <2>5, <2>6
<1>4. ASSUME NEW r \in Runner, WorldStep(r)
      PROVE  StoreInv' /\ \A q \in Runner : Safe(q)
  BY <1>0, <1>2, <1>4, WorldQuiet
<1>5. CASE \/ \E r \in Runner : ReadStatus(r)
           \/ BeginList \/ ListFails \/ EndList \/ UNCHANGED vars
  <2>1. UNCHANGED store /\ UNCHANGED <<at, oper>>
    BY <1>5 DEF ReadStatus, BeginList, ListFails, EndList, vars, calls, world
  <2> QED
    BY <1>1, <2>1 DEF NotStoring
<1> QED
  BY <1>3, <1>4, <1>5, OtherKeeps DEF Next

\* The names of new runners have no logs yet.
LEMMA StoreInit == Init => StoreInv
<1> SUFFICES ASSUME Init PROVE StoreInv
  OBVIOUS
<1>1. DirInv
  BY DirectoryOK DEF Init
<1>2. \A r \in Runner : logs[r] = "none"
  BY OtherAssumption DEF Init, DirectoryInit, Names, Name
<1>3. evidence \in [Runner -> {"none", "whole", "evicted", "lost"}] /\ OneWriter
  BY DEF Init, OneWriter
<1>4. ASSUME NEW r \in Runner PROVE KeptInv(r)
  BY <1>2 DEF Init, KeptInv, Tried
<1> QED
  BY <1>1, <1>3, <1>4 DEF StoreInv

\* What the theorems about the logs rest on.
LEMMA StoreInvariant == Spec => []StoreInv
<1>1. Inv /\ LifeInv /\ StoreInv /\ [Next]_vars => StoreInv'
  BY StoreStep
<1> QED
  BY <1>1, StoreInit, JobInvariant, LifeInvariant, PTL DEF Spec

(***************************************************************************)
(* The directory never holds more than maximumDiagnosticsFiles logs,       *)
(* whatever removals fail, wherever a Store is cut off and however many    *)
(* workers store.                                                          *)
(***************************************************************************)
THEOREM LogsBounded == Spec => []RetentionBound
<1>1. StoreInv => RetentionBound
  BY DEF StoreInv, DirInv
<1> QED
  BY <1>1, StoreInvariant, PTL

(***************************************************************************)
(* Incus is asked to delete a VM only after Delete has tried to keep its   *)
(* console log, and a log that was stored whole is neither cut short nor   *)
(* removed by a Delete that is tried again.                                *)
(***************************************************************************)
THEOREM EvidenceStays == Spec => []EvidenceKept
<1>1. StoreInv => EvidenceKept
  BY DEF StoreInv, KeptInv, EvidenceKept
<1> QED
  BY <1>1, StoreInvariant, PTL

(***************************************************************************)
(* The only way a complete log is lost is that pruneDiagnostics removes it *)
(* as the oldest of a full directory.  A Store that is cut short and tried *)
(* again, of whichever worker, costs no second one.                        *)
(***************************************************************************)
THEOREM LogsPushedOut == Spec => EvictedByNewer
<1>1. Inv /\ LifeInv /\ StoreInv /\ [Next]_vars =>
        [\A r \in Runner : evidence[r] = "whole" /\ evidence'[r] # "whole" => Pushed(r)]_vars
  BY StoreStep DEF Safe
<1> QED
  BY <1>1, StoreInvariant, JobInvariant, LifeInvariant, PTL DEF Spec, EvictedByNewer

\* Every variable of Backend and of Diagnostics keeps its type.
THEOREM TypeCorrect == Spec => []TypeOK
<1>1. Inv /\ LifeInv /\ StoreInv => TypeOK
  <2> SUFFICES ASSUME Inv, LifeInv, StoreInv PROVE TypeOK
    OBVIOUS
  <2>1. older \subseteq Name \X Name
    BY DEF StoreInv, DirInv, AgeOrder, Names
  <2> QED
    BY <2>1 DEF Inv, JobTypeOK, LifeInv, CallTypeOK, StoreInv, DirInv, TypeOK
<1> QED
  BY <1>1, StoreInvariant, JobInvariant, LifeInvariant, PTL

\* The logs that pruneDiagnostics leaves are determined by what is stored.
PruneDetermined ==
    \A retain \in Nat : \A k, l \in pruneDiagnostics(retain) : k = l

(***************************************************************************)
(* The sort by modification time and the removals that follow leave one    *)
(* set of logs: the ages stay an order through every Store, so that which  *)
(* of the logs are the newest is never a choice of the model.              *)
(***************************************************************************)
THEOREM PruneIsDetermined == Spec => []PruneDetermined
<1>1. StoreInv => PruneDetermined
  <2> SUFFICES ASSUME StoreInv, NEW retain \in Nat,
                      NEW k \in Newest(retain), NEW l \in Newest(retain), k # l
               PROVE  FALSE
    BY DEF PruneDetermined, pruneDiagnostics
  <2>0. DirInv /\ AgeOrder
    BY DEF StoreInv, DirInv
  <2>1. /\ k \subseteq Sized /\ IsFiniteSet(k)
        /\ \A m \in Sized \ k, n \in k : <<m, n>> \in older
    BY <2>0, NewestKept
  <2>2. /\ l \subseteq Sized /\ IsFiniteSet(l)
        /\ \A m \in Sized \ l, n \in l : <<m, n>> \in older
    BY <2>0, NewestKept
  <2>3. Cardinality(k) = Cardinality(l)
    BY DEF Newest
  <2>4. ~(k \subseteq l) /\ ~(l \subseteq k)
    BY <2>1, <2>2, <2>3, FS_Subset
  <2>5. PICK m \in k, n \in l : m \notin l /\ n \notin k
    BY <2>4
  <2>6. <<m, n>> \in older /\ <<n, m>> \in older
    BY <2>1, <2>2, <2>5
  <2>7. m \in Names /\ n \in Names
    BY <2>1, <2>2 DEF Sized
  <2> QED
    BY <2>0, <2>6, <2>7 DEF AgeOrder
<1> QED
  BY <1>1, StoreInvariant, PTL
=============================================================================
