------------------------------- MODULE Fleet -------------------------------
(***************************************************************************)
(* The runners as they really are: one Incus VM and one GitHub             *)
(* registration per runner name.  This module says what the controller may *)
(* rely on when it calls Backend.ListOwned, Backend.Create, Backend.Delete *)
(* and Fencer.Fence (src/internal/controller/types.go), each operation as  *)
(* one atomic effect, together with everything that happens to a runner    *)
(* behind the controller's back.  Backend.tla breaks the operations into   *)
(* the requests the adapters send and is shown to implement this module.   *)
(***************************************************************************)
CONSTANTS Runner,         \* instance names; GitHub runners carry the same name
          HasJobs         \* bound: whether GitHub has jobs to hand out at all

ASSUME JobsAssumption == HasJobs \in BOOLEAN

VARIABLES vm,             \* vm[r]: what Incus and the guest hold for name r
          gh              \* gh[r]: the scale set's registration of name r

fleetVars == <<vm, gh>>

(***************************************************************************)
(* absent   no instance of that name                                       *)
(* coming   the client gave up on a create that Incus still carries out    *)
(* starting stopped, and Incus still carries out a start given up on       *)
(* booting  started, no "running" guest status yet                         *)
(* overdue  booting for longer than the bootstrap timeout                  *)
(* ready    the guest status file says "running"                           *)
(* ended    stopped, failed or "exited": it will never run a job again     *)
(***************************************************************************)
VMState == {"absent", "coming", "starting", "booting", "overdue", "ready", "ended"}

\* A registration is absent, waiting for a job or running one.
GHState == {"none", "idle", "busy"}

\* The three lifecycle states the Incus backend reports.
RunnerState == {"provisioning", "ready", "terminal"}

FleetTypeOK == /\ vm \in [Runner -> VMState]
               /\ gh \in [Runner -> GHState]

FleetInit == /\ vm = [r \in Runner |-> "absent"]
             /\ gh = [r \in Runner |-> "none"]

Up(r) == vm[r] \in {"booting", "overdue", "ready"}
Owned(r) == vm[r] \notin {"absent", "coming"}

-----------------------------------------------------------------------------
(* What ListOwned reports ("absent": the name is not listed).  A VM that    *)
(* did not come up in time counts as terminal, whatever it still becomes.   *)

Snapshot ==
    [r \in Runner |-> CASE vm[r] = "booting" -> "provisioning"
                        [] vm[r] = "ready" -> "ready"
                        [] vm[r] \in {"starting", "overdue", "ended"} -> "terminal"
                        [] OTHER -> "absent"]

-----------------------------------------------------------------------------
(* Guests, Incus and GitHub, on their own. *)

Set(r, v, g) == /\ vm' = [vm EXCEPT ![r] = v]
                /\ gh' = [gh EXCEPT ![r] = g]

GuestReady(r) == vm[r] \in {"booting", "overdue"} /\ Set(r, "ready", gh[r])

BootstrapExpires(r) == vm[r] = "booting" /\ Set(r, "overdue", gh[r])

\* GitHub gives a job only to a registered runner that is connected.
AssignJob(r) == /\ HasJobs
                /\ vm[r] = "ready" /\ gh[r] = "idle"
                /\ Set(r, "ready", "busy")

\* A JIT registration serves one job and disappears with it.
FinishJob(r) == vm[r] = "ready" /\ gh[r] = "busy" /\ Set(r, "ready", "none")

\* The runner process ends, or the VM stops or breaks, with or without a job.
GuestExit(r) == Up(r) /\ Set(r, "ended", gh[r])

\* GitHub drops the registration of a runner that has been gone for long.
ForgetRunner(r) == ~Up(r) /\ gh[r] # "none" /\ Set(r, vm[r], "none")

\* A create the client no longer waits for leaves a stopped VM or nothing.
LateCreate(r) == /\ vm[r] = "coming"
                 /\ \E v \in {"absent", "ended"} : Set(r, v, gh[r])

\* A start the client no longer waits for boots the VM in the end, or fails.
LateStart(r) == /\ vm[r] = "starting"
                /\ \E v \in {"booting", "overdue", "ended"} : Set(r, v, gh[r])

\* A delete the client no longer waits for came after the fence.
LateDelete(r) == vm[r] = "ended" /\ gh[r] = "none" /\ Set(r, "absent", "none")

GuestStep(r) == \/ GuestReady(r)
                \/ BootstrapExpires(r)
                \/ AssignJob(r)
                \/ FinishJob(r)
                \/ GuestExit(r)
                \/ ForgetRunner(r)
                \/ LateCreate(r)
                \/ LateStart(r)
                \/ LateDelete(r)

-----------------------------------------------------------------------------
(* The operations.  Each has a successful and a failing form; a failing     *)
(* one may have had none, some or all of its effect.                        *)

CreateOK(r) == /\ vm[r] = "absent"
               /\ gh[r] = "none"
               /\ \E v \in {"booting", "overdue"} : Set(r, v, "idle")

\* Create sends the instance first, then registers, then starts it.
CreateFails(r) ==
    /\ vm[r] = "absent"
    /\ gh[r] = "none"
    /\ \/ \E v \in {"absent", "coming"} : Set(r, v, "none")
       \/ \E v \in {"starting", "booting", "overdue", "ended"}, g \in {"none", "idle"} :
            Set(r, v, g)

\* GitHub refuses to remove a runner that is running a job.
FenceOK(r) == gh[r] # "busy" /\ Set(r, vm[r], "none")

FenceFails(r) == \/ UNCHANGED fleetVars
                 \/ gh[r] # "busy" /\ Set(r, vm[r], "none")

\* An instance that is not found counts as deleted; any other is fenced first.
\* Incus refuses to delete one that it is starting.
DeleteOK(r) == \/ ~Owned(r) /\ UNCHANGED fleetVars
               \/ /\ Owned(r) /\ vm[r] # "starting"
                  /\ gh[r] # "busy"
                  /\ Set(r, "absent", "none")

DeleteFails(r) ==
    \/ UNCHANGED fleetVars
    \/ /\ Owned(r)
       /\ gh[r] # "busy"
       /\ \/ Set(r, vm[r], "none")
          \/ vm[r] # "starting" /\ \E v \in {"ended", "absent"} : Set(r, v, "none")

FleetNext == \E r \in Runner : \/ GuestStep(r)
                               \/ CreateOK(r)
                               \/ CreateFails(r)
                               \/ FenceOK(r)
                               \/ FenceFails(r)
                               \/ DeleteOK(r)
                               \/ DeleteFails(r)

FleetSpec == FleetInit /\ [][FleetNext]_fleetVars
=============================================================================
