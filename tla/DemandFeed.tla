----------------------------- MODULE DemandFeed -----------------------------
(***************************************************************************)
(* What the reconciler may rely on when it reads the demand mailbox: the   *)
(* message sessions of one process as an atomic source of demand.  A       *)
(* session has a generation above all earlier ones and starts without      *)
(* knowing any job; a demand carries the generation of its session and     *)
(* the runners that session announced as busy; a newer demand replaces one *)
(* nobody has taken.  Controller.tla uses these actions, Session.tla       *)
(* breaks them into the steps of the message loop and implements them.     *)
(***************************************************************************)
EXTENDS Integers

CONSTANTS Runner,
          MaxAssigned,    \* bound: assigned jobs in one demand
          MaxGeneration   \* bound: message sessions opened by one process

VARIABLES mailbox,        \* {} or the newest demand
          session,        \* generation of the current session, 0 before the first
          started         \* runners it announced as busy in its last demand

feedVars == <<mailbox, session, started>>

AtMostOne(S) == {{}} \cup {{r} : r \in S}

FeedInit == mailbox = {} /\ session = 0 /\ started = {}

\* A new message session has a new generation and a handler that knows no job.
OpenSession == /\ session < MaxGeneration
               /\ session' = session + 1
               /\ started' = {}
               /\ UNCHANGED mailbox

\* A message announces jobs that began and jobs that are over, and the count.
Message(n, begun, over) ==
    /\ session > 0
    /\ started' = (started \cup begun) \ over
    /\ mailbox' = {[jobs |-> n, gen |-> session, busy |-> started']}
    /\ UNCHANGED session

Take == mailbox # {} /\ mailbox' = {} /\ UNCHANGED <<session, started>>

FeedNext == \/ OpenSession
            \/ \E n \in 0..MaxAssigned,
                  begun \in AtMostOne(Runner), over \in AtMostOne(Runner) :
                 Message(n, begun, over)
            \/ Take

FeedSpec == FeedInit /\ [][FeedNext]_feedVars
=============================================================================
