---------------------------- MODULE SessionProofs ----------------------------
(***************************************************************************)
(* Theorems about Session, for any number of runners, sessions and events  *)
(* and any reconnect delays: its types, its safety properties, and that it *)
(* implements DemandFeed.                                                  *)
(***************************************************************************)
EXTENDS Session, SequenceTheorems, TLAPS

(***************************************************************************)
(* What the program counter says of the session and of the generation: Run *)
(* holds a handle only inside a session, and whenever it may come to open  *)
(* another one, a generation is left.                                      *)
(***************************************************************************)
LoopInv ==
    /\ pc \in PC
    /\ generation \in 0..MaxGeneration
    /\ handle => InSession \/ pc = "close"
    /\ InSession => generation > 0
    /\ pc = "close" => MayDrop
    /\ pc \in {"idle", "opening", "wait", "reopen"} => generation < MaxGeneration

\* The delay in store is the initial one, or no shorter than the last one.
DelayInv ==
    /\ current \in ReconnectInitial..ReconnectMaximum
    /\ waited \in ReconnectInitial..ReconnectMaximum
    /\ IF contact THEN current = ReconnectInitial ELSE current >= waited

\* What is published and not taken is what Publish was given last.
BoxInv ==
    /\ demand \subseteq Demand /\ mailbox \subseteq Demand /\ taken \subseteq Demand
    /\ demand = {} => mailbox = {} /\ pc # "publish"
    /\ NewestDemandWins

(***************************************************************************)
(* How far the busy set has moved from the one published last: a message   *)
(* brings at most one job that began and one that is over, and both are    *)
(* applied when the count is published.                                    *)
(***************************************************************************)
BusyInv ==
    /\ busy \subseteq Runner /\ shown \subseteq Runner
    /\ hand \in [events : 0..2, begun : Feed!AtMostOne(Runner),
                 over : Feed!AtMostOne(Runner)]
    /\ pc \in {"run", "poll", "started", "publish", "ack"} => busy = shown
    /\ pc = "completed" => busy = shown \cup hand.begun
    /\ pc = "count" => busy = (shown \cup hand.begun) \ hand.over

\* The job of r goes on, or the event that it is over is undeleted.
Pending(r) == job[r] = "running" \/ \E i \in DOMAIN queue : queue[i] = <<"completed", r>>

(***************************************************************************)
(* NoPhantomBusy rests on the order of GitHub's events: a job that began   *)
(* goes on, or its completion comes later in the queue.  As long as the    *)
(* message in hand is not deleted, it is the front of the queue; what it   *)
(* says is over has left the busy set before it is acknowledged.           *)
(***************************************************************************)
QueueInv ==
    /\ job \in [Runner -> {"none", "running", "over"}]
    /\ queue \in Seq(Event)
    /\ \A i \in DOMAIN queue, r \in Runner : queue[i] = <<"started", r>> =>
         job[r] = "running" \/ \E j \in DOMAIN queue : j > i /\ queue[j] = <<"completed", r>>
    /\ pc \in {"started", "completed", "count", "publish", "ack"} /\ ~acked =>
         /\ hand.events <= Len(queue)
         /\ \A i \in 1..hand.events, r \in Runner :
              queue[i] = <<"completed", r>> => r \in hand.over
    /\ pc \notin {"started", "completed", "count", "publish", "ack"} => acked
    /\ pc = "started" => \A r \in hand.begun : Pending(r) \/ r \in hand.over
    /\ pc \in {"count", "publish", "ack"} /\ ~acked => busy \cap hand.over = {}
    /\ NoPhantomBusy

\* The types that nothing else depends on.
RestType ==
    /\ available \in BOOLEAN /\ handle \in BOOLEAN /\ acked \in BOOLEAN
    /\ canceled \in BOOLEAN /\ initialFailed \in BOOLEAN /\ contact \in BOOLEAN
ProofsType == proofs \in Seq(Runner) /\ Len(proofs) <= QueueCapacity

Inv == LoopInv /\ DelayInv /\ BoxInv /\ BusyInv /\ QueueInv /\ RestType /\ ProofsType

\* The steps between the opening of a session and its end.
Listening == \/ PollFails \/ PollEmpty \/ PollMessage \/ DeleteMessage \/ DeleteFails
             \/ HandleJobStarted \/ HandleJobCompleted \/ HandleDesiredRunnerCount
             \/ Publish

\* Steps of the other goroutines and of GitHub.
Outside == \/ TakeDemand \/ TakeEvent \/ Cancel
           \/ \E r \in Runner : JobStarts(r) \/ JobEnds(r)

\* Steps of Run outside a session, Opened and Reconnecting apart.
LEMMA Steps ==
    Next <=> \/ Close \/ Claim \/ openInitial \/ closeSession \/ waitForRetry
             \/ ReopenOK \/ ReopenFails \/ Listening \/ Outside
  BY DEF Next, RunStep, Listening, Outside

-----------------------------------------------------------------------------
(* The loop of Run *)

\* The position of Run and the generation move together.
LEMMA LoopStep == LoopInv /\ [Next]_vars => LoopInv'
<1> SUFFICES ASSUME LoopInv, [Next]_vars PROVE LoopInv'
  OBVIOUS
<1> USE DEF LoopInv, InSession, MayDrop, PC
<1>1. CASE Close \/ Outside \/ UNCHANGED vars
  <2>1. UNCHANGED <<pc, handle, generation>> /\ (canceled => canceled')
    BY <1>1 DEF Close, Outside, TakeDemand, TakeEvent, Cancel, JobStarts, JobEnds,
                ServerFrame, vars, loopVars
  <2> QED
    BY <2>1
<1>2. CASE Claim
  BY <1>2 DEF Claim
<1>3. CASE Opened /\ pc \in {"opening", "reopen"}
  BY <1>3, SessionBounds DEF Opened
<1>4. CASE openInitial \/ ReopenOK \/ ReopenFails
  <2>1. CASE Opened
    BY <1>3, <1>4, <2>1 DEF openInitial, ReopenOK, ReopenFails
  <2>2. CASE Reconnecting \/ Return
    BY <1>4, <2>2 DEF openInitial, ReopenFails, ReopenOK, Reconnecting, Return, Opened
  <2> QED
    BY <1>4, <2>1, <2>2 DEF openInitial, ReopenOK, ReopenFails
<1>5. CASE closeSession
  BY <1>5 DEF closeSession, Reconnecting, Return
<1>6. CASE waitForRetry
  BY <1>6 DEF waitForRetry
<1>7. CASE Listening
  <2>1. UNCHANGED <<handle, generation, canceled>>
    BY <1>7 DEF Listening, PollFails, PollEmpty, PollMessage, DeleteMessage, DeleteFails,
                HandleJobStarted, HandleJobCompleted, HandleDesiredRunnerCount, Publish,
                ListenerFrame, HandlerFrame
  <2>2. InSession /\ pc' \in {"poll", "started", "completed", "count", "publish", "ack", "close"}
        /\ (pc' = "close" => MayDrop)
    BY <1>7 DEF Listening, PollFails, PollEmpty, PollMessage, DeleteMessage, DeleteFails,
                HandleJobStarted, HandleJobCompleted, HandleDesiredRunnerCount, Publish
  <2> QED
    BY <2>1, <2>2
<1> QED
  BY <1>1, <1>2, <1>4, <1>5, <1>6, <1>7, Steps

-----------------------------------------------------------------------------
(* The reconnect delay *)

\* Two's complement arithmetic does not change what lies in the interval.
LEMMA WrapFits ==
    ASSUME NEW x \in 0..2 * ReconnectMaximum
    PROVE  Timing!Wrap(x) = x
<1> DEFINE m == 2 * ReconnectMaximum + 1
           y == x + 2 * ReconnectMaximum + 1
<1>1. m \in Nat \ {0} /\ y \in Nat /\ y < 2 * m
  BY ReconnectAssumption
<1>2. y % (2 * m) = y
  <2> HIDE DEF m, y
  <2>1. 2 * m \in Nat \ {0}
    BY <1>1
  <2> QED
    BY <1>1, <2>1
<1> QED
  BY <1>2, ReconnectAssumption DEF Timing!Wrap

\* Next never shortens the delay and never exceeds its maximum.
LEMMA AdvanceGrows ==
    ASSUME NEW now \in ReconnectInitial..ReconnectMaximum
    PROVE  Timing!Advance(now, ReconnectMaximum) \in now..ReconnectMaximum
<1>1. Timing!Wrap(ReconnectMaximum - now) = ReconnectMaximum - now
  BY WrapFits, ReconnectAssumption
<1>2. Timing!Wrap(now * 2) = now * 2
  BY WrapFits, ReconnectAssumption
<1> QED
  BY <1>1, <1>2, ReconnectAssumption DEF Timing!Advance

\* What Reconnecting does to the delays.
LEMMA ReconnectDelay ==
    ASSUME DelayInv, Reconnecting
    PROVE  DelayInv'
  BY AdvanceGrows, ReconnectAssumption DEF DelayInv, Reconnecting

\* A delay starts over only after contact.
LEMMA DelayStep == DelayInv /\ [Next]_vars => DelayInv'
<1> SUFFICES ASSUME DelayInv, [Next]_vars PROVE DelayInv'
  OBVIOUS
<1>1. CASE Reconnecting
  BY <1>1, ReconnectDelay
<1>2. CASE HandleDesiredRunnerCount
  BY <1>2, ReconnectAssumption DEF HandleDesiredRunnerCount, HandlerFrame, DelayInv
<1>3. CASE UNCHANGED <<current, waited, contact>>
  BY <1>3 DEF DelayInv
<1>4. CASE openInitial \/ closeSession \/ waitForRetry \/ ReopenOK \/ ReopenFails
  BY <1>1, <1>3, <1>4 DEF openInitial, closeSession, waitForRetry, ReopenOK, ReopenFails,
                          Opened, Return, ghostVars
<1>5. CASE Close \/ Claim \/ Outside \/ UNCHANGED vars
  BY <1>3, <1>5 DEF Close, Claim, Outside, TakeDemand, TakeEvent, Cancel, JobStarts, JobEnds,
                    ServerFrame, vars, loopVars, ghostVars
<1>6. CASE Listening
  BY <1>2, <1>3, <1>6 DEF Listening, PollFails, PollEmpty, PollMessage, DeleteMessage,
                          DeleteFails, HandleJobStarted, HandleJobCompleted, Publish,
                          ListenerFrame, HandlerFrame, ghostVars
<1> QED
  BY <1>4, <1>5, <1>6, Steps

-----------------------------------------------------------------------------
(* The mailbox *)

\* The mailbox holds what was published last, or nothing.
LEMMA BoxStep ==
    LoopInv /\ BusyInv /\ BoxInv /\ [Next]_vars => BoxInv'
<1> SUFFICES ASSUME LoopInv, BusyInv, BoxInv, [Next]_vars PROVE BoxInv'
  OBVIOUS
<1>1. CASE HandleDesiredRunnerCount
  <2>1. PICK count \in -1..MaxAssigned : demand' = {Published(count)}
    BY <1>1 DEF HandleDesiredRunnerCount
  <2>2. generation \in 1..MaxGeneration
    BY <1>1, SessionBounds DEF HandleDesiredRunnerCount, LoopInv, InSession
  <2>3. (IF count > 0 THEN count ELSE 0) \in 0..MaxAssigned
    BY SessionBounds
  <2>4. Published(count) \in Demand
    BY <2>2, <2>3 DEF Published, Demand, BusyInv
  <2>5. /\ mailbox' = {} /\ taken' = taken /\ pc' = "publish"
    BY <1>1 DEF HandleDesiredRunnerCount, HandlerFrame
  <2> QED
    BY <2>1, <2>4, <2>5 DEF BoxInv, NewestDemandWins
<1>2. CASE Publish
  <2>1. /\ pc = "publish" /\ mailbox' = demand /\ demand' = demand /\ taken' = taken
        /\ pc' # "publish"
    BY <1>2 DEF Publish, HandlerFrame
  <2> QED
    BY <2>1 DEF BoxInv, NewestDemandWins
<1>3. CASE TakeDemand
  <2>1. /\ mailbox # {} /\ taken' = mailbox /\ mailbox' = {} /\ UNCHANGED <<demand, pc>>
    BY <1>3 DEF TakeDemand, loopVars
  <2> QED
    BY <2>1 DEF BoxInv, NewestDemandWins
<1>4. CASE UNCHANGED boxVars /\ pc # "publish" /\ pc' # "publish"
  BY <1>4 DEF boxVars, BoxInv, NewestDemandWins
<1>5. CASE UNCHANGED boxVars /\ UNCHANGED pc
  BY <1>5 DEF boxVars, BoxInv, NewestDemandWins
<1>6. CASE \/ Close \/ Claim \/ openInitial \/ closeSession \/ waitForRetry
           \/ ReopenOK \/ ReopenFails
  BY <1>4, <1>5, <1>6 DEF Close, Claim, openInitial, closeSession, waitForRetry, ReopenOK,
                          ReopenFails, OutsideFrame, Opened, Reconnecting, Return
<1>7. CASE Listening
  <2>1. CASE \/ PollFails \/ PollEmpty \/ PollMessage \/ DeleteMessage \/ DeleteFails
    BY <1>4, <2>1 DEF PollFails, PollEmpty, PollMessage, DeleteMessage, DeleteFails,
                      ListenerFrame
  <2>2. CASE HandleJobStarted \/ HandleJobCompleted
    BY <1>4, <2>2 DEF HandleJobStarted, HandleJobCompleted, HandlerFrame, boxVars
  <2> QED
    BY <1>1, <1>2, <1>7, <2>1, <2>2 DEF Listening
<1>8. CASE Outside \/ UNCHANGED vars
  BY <1>3, <1>5, <1>8 DEF Outside, TakeEvent, Cancel, JobStarts, JobEnds, ServerFrame, vars,
                          loopVars
<1> QED
  BY <1>6, <1>7, <1>8, Steps

-----------------------------------------------------------------------------
(* The busy set *)

\* A set with at most one element.
LEMMA OneOrNone ==
    ASSUME NEW S, S \subseteq Runner, \A r, q \in S : r = q
    PROVE  S \in Feed!AtMostOne(Runner)
<1>1. CASE S = {}
  BY <1>1 DEF Feed!AtMostOne
<1>2. CASE S # {}
  <2>1. PICK r \in S : TRUE
    BY <1>2
  <2>2. S = {r}
    BY <2>1
  <2> QED
    BY <2>1, <2>2 DEF Feed!AtMostOne
<1> QED
  BY <1>1, <1>2

\* A message has at most one event of each kind.
LEMMA SubjectsOne ==
    ASSUME NEW kind, NEW n \in 1..2, n = 2 => queue[1][1] # queue[2][1]
    PROVE  Subjects(kind, n) \in Feed!AtMostOne(Runner)
<1>1. ASSUME NEW r \in Subjects(kind, n), NEW q \in Subjects(kind, n) PROVE r = q
  <2>1. PICK i \in 1..n : queue[i] = <<kind, r>>
    BY DEF Subjects
  <2>2. PICK j \in 1..n : queue[j] = <<kind, q>>
    BY DEF Subjects
  <2>3. i = j
    <3>1. queue[i][1] = queue[j][1]
      BY <2>1, <2>2
    <3>2. i \in {1, 2} /\ j \in {1, 2} /\ (i # j => n = 2)
      BY <2>1, <2>2
    <3> QED
      BY <3>1, <3>2
  <2> QED
    BY <2>1, <2>2, <2>3
<1>2. Subjects(kind, n) \subseteq Runner
  BY DEF Subjects
<1> QED
  BY <1>1, <1>2, OneOrNone

\* Nothing is at most one, and at most one runner is a set of runners.
LEMMA AtMostOneRunner ==
    /\ {} \in Feed!AtMostOne(Runner)
    /\ \A S \in Feed!AtMostOne(Runner) : S \subseteq Runner
  BY DEF Feed!AtMostOne

\* The message in hand, field by field.
LEMMA HandFields ==
    ASSUME BusyInv
    PROVE  /\ hand.events \in 0..2
           /\ hand.begun \in Feed!AtMostOne(Runner) /\ hand.begun \subseteq Runner
           /\ hand.over \in Feed!AtMostOne(Runner) /\ hand.over \subseteq Runner
<1>1. /\ hand.events \in 0..2 /\ hand.begun \in Feed!AtMostOne(Runner)
      /\ hand.over \in Feed!AtMostOne(Runner)
  BY DEF BusyInv
<1> QED
  BY <1>1, AtMostOneRunner

\* The busy set moves by what the message in hand says.
LEMMA BusyStep == BusyInv /\ [Next]_vars => BusyInv'
<1> SUFFICES ASSUME BusyInv, [Next]_vars PROVE BusyInv'
  OBVIOUS
<1> DEFINE Messages == [events : 0..2, begun : Feed!AtMostOne(Runner),
                        over : Feed!AtMostOne(Runner)]
<1>1. hand \in Messages /\ busy \subseteq Runner /\ shown \subseteq Runner
  BY DEF BusyInv
<1>2. CASE UNCHANGED <<busy, hand, shown>> /\ pc' = pc
  BY <1>2 DEF BusyInv
<1>3. CASE /\ UNCHANGED <<busy, hand, shown>>
           /\ pc' \notin {"run", "poll", "started", "publish", "ack", "completed", "count"}
  BY <1>3 DEF BusyInv
<1>4. CASE Opened
  BY <1>1, <1>4 DEF Opened, BusyInv
<1>5. CASE \/ Close \/ Claim \/ openInitial \/ closeSession \/ waitForRetry
           \/ ReopenOK \/ ReopenFails
  BY <1>2, <1>3, <1>4, <1>5 DEF Close, Claim, openInitial, closeSession, waitForRetry,
       ReopenOK, ReopenFails, handlerVars, ghostVars, Reconnecting, Return
<1>6. CASE Outside \/ UNCHANGED vars
  BY <1>2, <1>6 DEF Outside, TakeDemand, TakeEvent, Cancel, JobStarts, JobEnds, ServerFrame,
                    vars, loopVars, handlerVars, ghostVars
<1>7. CASE PollFails \/ DeleteFails
  BY <1>3, <1>7 DEF PollFails, DeleteFails, ListenerFrame, ghostVars
<1>8. CASE DeleteMessage
  <2>1. /\ UNCHANGED <<busy, hand, shown>>
        /\ pc \in {"started", "ack"} /\ pc' \in {"started", "poll"}
    BY <1>8 DEF DeleteMessage, ListenerFrame, ghostVars
  <2> QED
    BY <2>1 DEF BusyInv
<1>9. CASE PollEmpty
  <2>1. /\ UNCHANGED <<busy, shown>> /\ pc = "poll" /\ pc' = "count"
        /\ hand' = [events |-> 0, begun |-> {}, over |-> {}]
    BY <1>9 DEF PollEmpty, NoMessage, ListenerFrame, ghostVars
  <2>2. hand' \in Messages
    BY <2>1, AtMostOneRunner
  <2>3. busy' = (shown' \cup hand'.begun) \ hand'.over
    BY <2>1 DEF BusyInv
  <2> QED
    BY <1>1, <2>1, <2>2, <2>3 DEF BusyInv
<1>10. CASE PollMessage
  <2>1. PICK n \in 1..2 : /\ n = 2 => queue[1][1] # queue[2][1]
                          /\ hand' = [events |-> n, begun |-> Subjects("started", n),
                                      over |-> Subjects("completed", n)]
    BY <1>10 DEF PollMessage
  <2>2. n \in 0..2
    OBVIOUS
  <2>3. hand' \in Messages
    BY <2>1, <2>2, SubjectsOne
  <2>4. UNCHANGED <<busy, shown>> /\ pc = "poll" /\ pc' = "started"
    BY <1>10 DEF PollMessage, ListenerFrame, ghostVars
  <2> QED
    BY <1>1, <2>3, <2>4 DEF BusyInv
<1>11. CASE HandleJobStarted
  <2>1. /\ UNCHANGED <<hand, shown>> /\ pc = "started" /\ pc' = "completed"
        /\ busy' = busy \cup hand.begun
    BY <1>11 DEF HandleJobStarted, HandlerFrame
  <2> QED
    BY <1>1, <2>1, HandFields DEF BusyInv
<1>12. CASE HandleJobCompleted
  <2>1. /\ UNCHANGED <<hand, shown>> /\ pc = "completed" /\ pc' = "count"
        /\ busy' = busy \ hand.over
    BY <1>12 DEF HandleJobCompleted, HandlerFrame
  <2> QED
    BY <1>1, <2>1, HandFields DEF BusyInv
<1>13. CASE HandleDesiredRunnerCount
  <2>1. UNCHANGED <<busy, hand>> /\ shown' = busy /\ pc' = "publish"
    BY <1>13 DEF HandleDesiredRunnerCount, HandlerFrame
  <2> QED
    BY <1>1, <2>1 DEF BusyInv
<1>14. CASE Publish
  <2>1. UNCHANGED <<busy, hand, shown>> /\ pc = "publish" /\ pc' \in {"poll", "ack"}
    BY <1>14 DEF Publish, HandlerFrame
  <2> QED
    BY <2>1 DEF BusyInv
<1> QED
  BY <1>5, <1>6, <1>7, <1>8, <1>9, <1>10, <1>11, <1>12, <1>13, <1>14, Steps DEF Listening

-----------------------------------------------------------------------------
(* GitHub's events *)

\* A job that began goes on, or its completion comes later in the queue.
Ordered(q, jobs) ==
    \A i \in DOMAIN q, r \in Runner : q[i] = <<"started", r>> =>
       jobs[r] = "running" \/ \E j \in DOMAIN q : j > i /\ q[j] = <<"completed", r>>

\* What is left of the queue when its first n events are deleted.
LEMMA RestOf ==
    ASSUME NEW q \in Seq(Event), NEW n \in Nat, n <= Len(q)
    PROVE  LET rest == SubSeq(q, n + 1, Len(q))
           IN /\ rest \in Seq(Event)
              /\ Len(rest) = Len(q) - n
              /\ \A i \in 1..Len(q) - n : rest[i] = q[n + i]
<1>1. n + 1 \in Int /\ Len(q) \in Int
  OBVIOUS
<1>2. \A i \in n + 1 .. Len(q) : q[i] \in Event
  OBVIOUS
<1>3. /\ SubSeq(q, n + 1, Len(q)) \in Seq(Event)
      /\ Len(SubSeq(q, n + 1, Len(q))) = IF n + 1 <= Len(q) THEN Len(q) - (n + 1) + 1 ELSE 0
      /\ \A i \in 1 .. Len(q) - (n + 1) + 1 : SubSeq(q, n + 1, Len(q))[i] = q[n + 1 + i - 1]
  BY <1>1, <1>2, SubSeqProperties
<1> QED
  BY <1>3

\* Deleting the oldest events keeps the order.
LEMMA RestOrdered ==
    ASSUME NEW q \in Seq(Event), NEW n \in Nat, n <= Len(q), NEW jobs, Ordered(q, jobs)
    PROVE  Ordered(SubSeq(q, n + 1, Len(q)), jobs)
<1> DEFINE rest == SubSeq(q, n + 1, Len(q))
<1>1. /\ rest \in Seq(Event) /\ Len(rest) = Len(q) - n
      /\ \A i \in 1..Len(q) - n : rest[i] = q[n + i]
  BY RestOf
<1>2. DOMAIN rest = 1..Len(q) - n /\ DOMAIN q = 1..Len(q) /\ Len(q) \in Nat
  BY <1>1
<1> HIDE DEF rest
<1> SUFFICES ASSUME NEW i \in DOMAIN rest, NEW r \in Runner, rest[i] = <<"started", r>>,
                    jobs[r] # "running"
             PROVE  \E j \in DOMAIN rest : j > i /\ rest[j] = <<"completed", r>>
  BY DEF Ordered, rest
<1>3. q[n + i] = <<"started", r>> /\ n + i \in DOMAIN q
  BY <1>1, <1>2
<1>4. PICK j \in DOMAIN q : j > n + i /\ q[j] = <<"completed", r>>
  BY <1>3 DEF Ordered
<1>5. j - n \in DOMAIN rest /\ j - n > i /\ rest[j - n] = q[j]
  BY <1>1, <1>2, <1>4
<1> QED
  BY <1>4, <1>5

\* QueueInv, by what it says of the queue and of the message in hand.
FrontInv ==
    /\ pc \in {"started", "completed", "count", "publish", "ack"} /\ ~acked =>
         /\ hand.events <= Len(queue)
         /\ \A i \in 1..hand.events, r \in Runner :
              queue[i] = <<"completed", r>> => r \in hand.over
    /\ pc \notin {"started", "completed", "count", "publish", "ack"} => acked
    /\ pc \in {"count", "publish", "ack"} /\ ~acked => busy \cap hand.over = {}

QType == job \in [Runner -> {"none", "running", "over"}] /\ queue \in Seq(Event)

BegunInv == pc = "started" => \A r \in hand.begun : Pending(r) \/ r \in hand.over

\* The parts of QueueInv, each about what some steps change.
LEMMA QueueParts ==
    /\ QueueInv <=> QType /\ Ordered(queue, job) /\ FrontInv /\ BegunInv /\ NoPhantomBusy
    /\ QueueInv' <=> /\ QType' /\ Ordered(queue', job') /\ FrontInv' /\ BegunInv'
                     /\ NoPhantomBusy'
  BY DEF QueueInv, QType, Ordered, FrontInv, BegunInv

\* An event is appended and its job moves on.
LEMMA EventComes ==
    ASSUME QueueInv, BusyInv, NEW r \in Runner, JobStarts(r) \/ JobEnds(r)
    PROVE  QueueInv'
<1>1. QType /\ Ordered(queue, job) /\ FrontInv /\ BegunInv /\ NoPhantomBusy
  BY QueueParts
<1>2. UNCHANGED <<pc, hand, acked, busy>>
  BY DEF JobStarts, JobEnds, ServerFrame, loopVars, handlerVars
<1>3. PICK kind \in {"started", "completed"} :
        /\ queue' = Append(queue, <<kind, r>>)
        /\ job' = [job EXCEPT ![r] = IF kind = "started" THEN "running" ELSE "over"]
        /\ kind = "started" => job[r] = "none"
  BY DEF JobStarts, JobEnds
<1>4. /\ queue' \in Seq(Event) /\ Len(queue') = Len(queue) + 1 /\ Len(queue) \in Nat
      /\ DOMAIN queue = 1..Len(queue) /\ DOMAIN queue' = 1..Len(queue) + 1
      /\ \A i \in 1..Len(queue) : queue'[i] = queue[i]
      /\ queue'[Len(queue) + 1] = <<kind, r>>
  BY <1>1, <1>3 DEF QType, Event
<1>5. job' \in [Runner -> {"none", "running", "over"}]
  BY <1>1, <1>3 DEF QType
<1>6. /\ \A q \in Runner \ {r} : job'[q] = job[q]
      /\ kind = "started" => job'[r] = "running"
  BY <1>1, <1>3 DEF QType
<1>7. \A q \in Runner : Pending(q) => Pending(q)'
  <2> SUFFICES ASSUME NEW q \in Runner, Pending(q) PROVE Pending(q)'
    OBVIOUS
  <2>1. CASE q = r /\ kind = "completed"
    <3>1. Len(queue) + 1 \in DOMAIN queue' /\ queue'[Len(queue) + 1] = <<"completed", q>>
      BY <1>4, <2>1
    <3> QED
      BY <3>1 DEF Pending
  <2>2. CASE job'[q] = "running"
    BY <2>2 DEF Pending
  <2>3. CASE \E i \in DOMAIN queue : queue[i] = <<"completed", q>>
    BY <1>4, <2>3 DEF Pending
  <2> QED
    BY <1>3, <1>6, <2>1, <2>2, <2>3 DEF Pending
<1>8. Ordered(queue', job')
  <2> SUFFICES ASSUME NEW i \in DOMAIN queue', NEW q \in Runner,
                      queue'[i] = <<"started", q>>, job'[q] # "running"
               PROVE  \E j \in DOMAIN queue' : j > i /\ queue'[j] = <<"completed", q>>
    BY DEF Ordered
  <2>1. i # Len(queue) + 1
    <3> SUFFICES ASSUME i = Len(queue) + 1 PROVE FALSE
      OBVIOUS
    <3>1. <<kind, r>> = <<"started", q>>
      BY <1>4
    <3> QED
      BY <1>6, <3>1
  <2>2. i \in DOMAIN queue /\ queue[i] = <<"started", q>>
    BY <1>4, <2>1
  <2>3. CASE q = r /\ kind = "completed"
    <3>1. /\ Len(queue) + 1 \in DOMAIN queue' /\ queue'[Len(queue) + 1] = <<"completed", q>>
          /\ Len(queue) + 1 > i
      BY <1>4, <2>2, <2>3
    <3> QED
      BY <3>1
  <2>4. CASE ~(q = r /\ kind = "completed")
    <3>1. job[q] # "running"
      BY <1>3, <1>6, <2>4
    <3>2. PICK j \in DOMAIN queue : j > i /\ queue[j] = <<"completed", q>>
      BY <1>1, <2>2, <3>1 DEF Ordered
    <3> QED
      BY <1>4, <3>2
  <2> QED
    BY <2>3, <2>4
<1>9. FrontInv'
  BY <1>1, <1>2, <1>4, HandFields DEF FrontInv
<1>10. BegunInv' /\ NoPhantomBusy'
  <2>1. busy \subseteq Runner /\ hand.begun \subseteq Runner
    BY HandFields DEF BusyInv
  <2> QED
    BY <1>1, <1>2, <1>7, <2>1 DEF BegunInv, NoPhantomBusy, InSession, Pending
<1> QED
  BY <1>4, <1>5, <1>8, <1>9, <1>10, QueueParts DEF QType

\* The message in hand is deleted, or GitHub was asked to and nobody knows.
LEMMA MessageDeleted ==
    ASSUME QueueInv, BusyInv, DeleteMessage \/ DeleteFails
    PROVE  QueueInv'
<1>1. QType /\ Ordered(queue, job) /\ FrontInv /\ BegunInv /\ NoPhantomBusy
  BY QueueParts
<1>2. /\ UNCHANGED <<hand, busy, job>> /\ acked' /\ pc \in {"started", "ack"} /\ ~acked
      /\ pc' \in {"started", "poll", "close"}
      /\ pc' = "started" => pc = "started"
      /\ queue' \in {queue, Deleted}
      /\ pc' = "close" \/ queue' = Deleted
  BY DEF DeleteMessage, DeleteFails, ListenerFrame
<1>3. /\ hand.events \in Nat /\ hand.events <= Len(queue)
      /\ \A i \in 1..hand.events, r \in Runner :
           queue[i] = <<"completed", r>> => r \in hand.over
      /\ pc = "ack" => busy \cap hand.over = {}
      /\ hand.begun \subseteq Runner /\ busy \subseteq Runner
  BY <1>1, <1>2, HandFields DEF FrontInv, BusyInv
<1>4. /\ Deleted \in Seq(Event) /\ Len(Deleted) = Len(queue) - hand.events
      /\ \A i \in 1..Len(queue) - hand.events : Deleted[i] = queue[hand.events + i]
  BY <1>1, <1>3, RestOf DEF QType, Deleted
<1>5. QType' /\ Ordered(queue', job')
  BY <1>1, <1>2, <1>3, <1>4, RestOrdered DEF QType, Deleted
<1>6. FrontInv'
  BY <1>2 DEF FrontInv
<1>7. ASSUME NEW r \in Runner, Pending(r), queue' = Deleted
      PROVE  Pending(r)' \/ r \in hand.over
  <2>1. CASE job[r] = "running"
    BY <1>2, <2>1 DEF Pending
  <2>2. CASE \E i \in DOMAIN queue : queue[i] = <<"completed", r>>
    <3>1. PICK i \in DOMAIN queue : queue[i] = <<"completed", r>>
      BY <2>2
    <3>2. i \in Nat /\ 1 <= i /\ i <= Len(queue) /\ Len(queue) \in Nat
      BY <1>1 DEF QType
    <3>3. CASE i <= hand.events
      BY <1>3, <3>1, <3>2, <3>3
    <3>4. CASE i > hand.events
      <4>1. i - hand.events \in 1..Len(queue) - hand.events
        BY <1>3, <3>2, <3>4
      <4>2. Deleted[i - hand.events] = queue[hand.events + (i - hand.events)]
        BY <1>4, <4>1
      <4>3. hand.events + (i - hand.events) = i
        BY <1>3, <3>2
      <4>4. i - hand.events \in DOMAIN Deleted
        BY <1>4, <4>1
      <4> QED
        BY <1>7, <3>1, <4>2, <4>3, <4>4 DEF Pending
    <3> QED
      BY <1>3, <3>2, <3>3, <3>4
  <2> QED
    BY <1>7, <2>1, <2>2 DEF Pending
<1>8. BegunInv'
  BY <1>1, <1>2, <1>3, <1>7 DEF BegunInv
<1>9. NoPhantomBusy'
  <2> SUFFICES ASSUME pc' # "close", NEW r \in busy
               PROVE  Pending(r)' \/ (pc' = "started" /\ r \in hand.over)
    BY <1>2 DEF NoPhantomBusy, InSession, Pending
  <2>1. Pending(r) \/ (pc = "started" /\ r \in hand.over)
    BY <1>1, <1>2 DEF NoPhantomBusy, InSession, Pending
  <2>2. pc = "started" => pc' = "started"
    BY DEF DeleteMessage, DeleteFails
  <2> QED
    BY <1>2, <1>3, <1>7, <2>1, <2>2
<1> QED
  BY <1>5, <1>6, <1>8, <1>9, QueueParts

\* A step that leaves GitHub alone and is not in a session afterwards, or moves
\* nothing.
LEMMA QueueFrame ==
    ASSUME QueueInv, UNCHANGED <<job, queue>>,
           \/ UNCHANGED <<pc, hand, acked, busy>>
           \/ /\ pc \in PC \ {"started", "completed", "count", "publish", "ack"}
              /\ acked' = acked
              /\ \/ pc' \in {"idle", "opening", "close", "wait", "reopen", "returned"}
                 \/ pc' = "run" /\ busy' = {}
    PROVE  QueueInv'
<1>1. QType /\ Ordered(queue, job) /\ FrontInv /\ BegunInv /\ NoPhantomBusy
  BY QueueParts
<1>2. QType' /\ Ordered(queue', job')
  BY <1>1 DEF QType
<1>3. FrontInv'
  BY <1>1 DEF FrontInv
<1>4. BegunInv' /\ NoPhantomBusy'
  BY <1>1 DEF BegunInv, NoPhantomBusy, InSession, Pending
<1> QED
  BY <1>2, <1>3, <1>4, QueueParts

\* The callbacks and polls.
LEMMA QueueRead ==
    ASSUME QueueInv, BusyInv,
           \/ PollEmpty \/ PollMessage \/ HandleJobStarted \/ HandleJobCompleted
           \/ HandleDesiredRunnerCount \/ Publish
    PROVE  QueueInv'
<1>1. QType /\ Ordered(queue, job) /\ FrontInv /\ BegunInv /\ NoPhantomBusy
  BY QueueParts
<1>2. UNCHANGED <<job, queue>>
  BY DEF PollEmpty, PollMessage, HandleJobStarted, HandleJobCompleted,
         HandleDesiredRunnerCount, Publish, ListenerFrame, HandlerFrame, serverVars
<1>3. QType' /\ Ordered(queue', job') /\ \A r \in Runner : Pending(r)' <=> Pending(r)
  BY <1>1, <1>2 DEF QType, Pending
<1>4. busy \subseteq Runner /\ hand.begun \subseteq Runner
  BY HandFields DEF BusyInv
<1>5. CASE PollEmpty
  <2>1. pc = "poll" /\ pc' = "count" /\ acked' /\ busy' = busy
    BY <1>5 DEF PollEmpty, ListenerFrame
  <2>2. FrontInv' /\ BegunInv'
    BY <2>1 DEF FrontInv, BegunInv
  <2>3. NoPhantomBusy'
    BY <1>1, <1>2, <2>1 DEF NoPhantomBusy, InSession
  <2> QED
    BY <1>3, <2>2, <2>3, QueueParts
<1>6. CASE PollMessage
  <2>1. PICK n \in 1..2 : /\ n <= Len(queue)
                          /\ hand' = [events |-> n, begun |-> Subjects("started", n),
                                      over |-> Subjects("completed", n)]
    BY <1>6 DEF PollMessage
  <2>2. pc = "poll" /\ pc' = "started" /\ busy' = busy
    BY <1>6 DEF PollMessage, ListenerFrame
  <2>3. /\ hand'.events = n /\ hand'.begun = Subjects("started", n)
        /\ hand'.over = Subjects("completed", n)
    BY <2>1
  <2>4. FrontInv'
    BY <1>2, <2>1, <2>2, <2>3 DEF FrontInv, Subjects
  <2>5. BegunInv'
    <3> SUFFICES ASSUME NEW r \in Subjects("started", n) PROVE Pending(r)
      BY <1>3, <2>3 DEF BegunInv, Subjects
    <3>1. PICK i \in 1..n : queue[i] = <<"started", r>>
      BY DEF Subjects
    <3>2. i \in DOMAIN queue /\ r \in Runner
      BY <1>1, <2>1, <3>1 DEF QType, Subjects
    <3> QED
      BY <1>1, <3>1, <3>2 DEF Ordered, Pending
  <2>6. NoPhantomBusy'
    BY <1>1, <1>2, <2>2 DEF NoPhantomBusy, InSession
  <2> QED
    BY <1>3, <2>4, <2>5, <2>6, QueueParts
<1>7. CASE HandleJobStarted
  <2>1. /\ UNCHANGED <<hand, acked>> /\ pc = "started" /\ pc' = "completed"
        /\ busy' = busy \cup hand.begun
    BY <1>7 DEF HandleJobStarted, HandlerFrame
  <2>2. FrontInv' /\ BegunInv'
    BY <1>1, <1>2, <2>1 DEF FrontInv, BegunInv
  <2>3. NoPhantomBusy'
    BY <1>1, <1>2, <2>1 DEF NoPhantomBusy, InSession, BegunInv, Pending
  <2> QED
    BY <1>3, <2>2, <2>3, QueueParts
<1>8. CASE HandleJobCompleted
  <2>1. /\ UNCHANGED <<hand, acked>> /\ pc = "completed" /\ pc' = "count"
        /\ busy' = busy \ hand.over
    BY <1>8 DEF HandleJobCompleted, HandlerFrame
  <2>2. FrontInv' /\ BegunInv'
    BY <1>1, <1>2, <2>1 DEF FrontInv, BegunInv
  <2>3. NoPhantomBusy'
    BY <1>1, <1>2, <2>1 DEF NoPhantomBusy, InSession
  <2> QED
    BY <1>3, <2>2, <2>3, QueueParts
<1>9. CASE HandleDesiredRunnerCount
  <2>1. UNCHANGED <<hand, acked, busy>> /\ pc \in {"run", "count"} /\ pc' = "publish"
    BY <1>9 DEF HandleDesiredRunnerCount, HandlerFrame
  <2>2. NoPhantomBusy' /\ BegunInv'
    BY <1>1, <1>2, <2>1 DEF NoPhantomBusy, InSession, BegunInv
  <2>3. FrontInv'
    <3>1. pc = "run" => acked
      BY <1>1 DEF FrontInv
    <3> QED
      BY <1>1, <1>2, <2>1, <3>1 DEF FrontInv
  <2> QED
    BY <1>3, <2>2, <2>3, QueueParts
<1>10. CASE Publish
  <2>1. /\ UNCHANGED <<hand, acked, busy>> /\ pc = "publish"
        /\ pc' = IF acked THEN "poll" ELSE "ack"
    BY <1>10 DEF Publish, HandlerFrame
  <2>2. FrontInv' /\ BegunInv'
    BY <1>1, <1>2, <2>1 DEF FrontInv, BegunInv
  <2>3. NoPhantomBusy'
    BY <1>1, <1>2, <2>1 DEF NoPhantomBusy, InSession
  <2> QED
    BY <1>3, <2>2, <2>3, QueueParts
<1> QED
  BY <1>5, <1>6, <1>7, <1>8, <1>9, <1>10

\* Events stay in order until the message that brought them is deleted.
LEMMA QueueStep == QueueInv /\ BusyInv /\ [Next]_vars => QueueInv'
<1> SUFFICES ASSUME QueueInv, BusyInv, [Next]_vars PROVE QueueInv'
  OBVIOUS
<1>1. CASE \/ Close \/ Claim \/ openInitial \/ closeSession \/ waitForRetry
           \/ ReopenOK \/ ReopenFails \/ PollFails
  BY <1>1, QueueFrame DEF Close, Claim, openInitial, closeSession, waitForRetry, ReopenOK,
       ReopenFails, PollFails, PC, OutsideFrame, ListenerFrame, serverVars, handlerVars, Opened,
       Reconnecting, Return
<1>2. CASE TakeDemand \/ TakeEvent \/ Cancel \/ UNCHANGED vars
  BY <1>2, QueueFrame DEF TakeDemand, TakeEvent, Cancel, vars, loopVars, handlerVars, serverVars
<1> QED
  BY <1>1, <1>2, EventComes, MessageDeleted, QueueRead, Steps DEF Listening, Outside

-----------------------------------------------------------------------------
(* The rest of the types *)

\* The flags stay Booleans.
LEMMA RestStep == RestType /\ [Next]_vars => RestType'
<1> SUFFICES ASSUME RestType, [Next]_vars PROVE RestType'
  OBVIOUS
<1> USE DEF RestType
<1>1. CASE Close \/ Claim \/ Outside \/ UNCHANGED vars
  BY <1>1 DEF Close, Claim, Outside, TakeDemand, TakeEvent, Cancel, JobStarts, JobEnds,
              ServerFrame, vars, loopVars, handlerVars, ghostVars
<1>2. CASE openInitial \/ closeSession \/ waitForRetry \/ ReopenOK \/ ReopenFails
  BY <1>2 DEF openInitial, closeSession, waitForRetry, ReopenOK, ReopenFails, OutsideFrame,
              Opened, Reconnecting, Return, ghostVars
<1>3. CASE Listening
  BY <1>3 DEF Listening, PollFails, PollEmpty, PollMessage, DeleteMessage, DeleteFails,
              HandleJobStarted, HandleJobCompleted, HandleDesiredRunnerCount, Publish,
              ListenerFrame, HandlerFrame, ghostVars
<1> QED
  BY <1>1, <1>2, <1>3, Steps

\* The proof queue drops what it has no room for.
LEMMA ProofsStep == ProofsType /\ BusyInv /\ [Next]_vars => ProofsType'
<1> SUFFICES ASSUME ProofsType, BusyInv, [Next]_vars PROVE ProofsType'
  OBVIOUS
<1>1. CASE proofs' = proofs
  BY <1>1 DEF ProofsType
<1>2. CASE TakeEvent
  <2>1. proofs \in Seq(Runner) /\ proofs # <<>> /\ proofs' = Tail(proofs)
    BY <1>2 DEF TakeEvent, ProofsType
  <2>2. proofs' \in Seq(Runner) /\ Len(proofs') = Len(proofs) - 1 /\ Len(proofs) \in Nat
    BY <2>1
  <2> QED
    BY <2>2, SessionBounds DEF ProofsType
<1>3. CASE HandleJobStarted
  <2>1. CASE \E r \in hand.begun : Len(proofs) < QueueCapacity /\ proofs' = Append(proofs, r)
    <3>1. PICK r \in Runner : Len(proofs) < QueueCapacity /\ proofs' = Append(proofs, r)
      BY <2>1, HandFields
    <3>2. proofs' \in Seq(Runner) /\ Len(proofs') = Len(proofs) + 1 /\ Len(proofs) \in Nat
      BY <3>1 DEF ProofsType
    <3> QED
      BY <3>1, <3>2, SessionBounds DEF ProofsType
  <2> QED
    BY <1>1, <1>3, <2>1 DEF HandleJobStarted, TryEnqueue
<1>4. CASE \/ Close \/ Claim \/ openInitial \/ closeSession \/ waitForRetry \/ ReopenOK
           \/ ReopenFails \/ TakeDemand \/ Cancel \/ UNCHANGED vars
           \/ \E r \in Runner : JobStarts(r) \/ JobEnds(r)
  BY <1>1, <1>4 DEF Close, Claim, openInitial, closeSession, waitForRetry, ReopenOK,
       ReopenFails, OutsideFrame, TakeDemand, Cancel, JobStarts, JobEnds, ServerFrame, vars,
       handlerVars
<1>5. CASE Listening /\ ~HandleJobStarted
  BY <1>1, <1>5 DEF Listening, PollFails, PollEmpty, PollMessage, DeleteMessage, DeleteFails,
       HandleJobCompleted, HandleDesiredRunnerCount, Publish, ListenerFrame
<1> QED
  BY <1>2, <1>3, <1>4, <1>5, Steps DEF Outside

-----------------------------------------------------------------------------

\* Nothing is published, busy or queued at first.
LEMMA InitInv == Init => Inv
<1> SUFFICES ASSUME Init PROVE Inv
  OBVIOUS
<1>1. LoopInv
  BY SessionBounds DEF Init, LoopInv, InSession, PC
<1>2. DelayInv
  BY ReconnectAssumption DEF Init, DelayInv
<1>3. BoxInv
  BY DEF Init, BoxInv, NewestDemandWins
<1>4. BusyInv
  <2>1. hand \in [events : 0..2, begun : Feed!AtMostOne(Runner), over : Feed!AtMostOne(Runner)]
    BY AtMostOneRunner DEF Init, NoMessage
  <2> QED
    BY <2>1 DEF Init, BusyInv
<1>5. QueueInv
  <2>1. QType /\ Ordered(queue, job)
    BY DEF Init, QType, Ordered
  <2>2. FrontInv /\ BegunInv /\ NoPhantomBusy
    BY DEF Init, FrontInv, BegunInv, NoPhantomBusy
  <2> QED
    BY <2>1, <2>2, QueueParts
<1>6. RestType
  BY DEF Init, RestType
<1>7. ProofsType
  BY SessionBounds DEF Init, ProofsType
<1> QED
  BY <1>1, <1>2, <1>3, <1>4, <1>5, <1>6, <1>7 DEF Inv

\* Every step of the system.
LEMMA NextInv == Inv /\ [Next]_vars => Inv'
  BY LoopStep, DelayStep, BoxStep, BusyStep, QueueStep, RestStep, ProofsStep DEF Inv

\* What the theorems rest on.
LEMMA Invariant == Spec => []Inv
  BY InitInv, NextInv, PTL DEF Spec

(***************************************************************************)
(* TypeOK, for all bounds: among others that no generation exceeds the     *)
(* number of sessions opened and no reconnect delay its maximum.          *)
(***************************************************************************)
THEOREM TypeCorrect == Spec => []TypeOK
<1>1. Inv => TypeOK
  <2> SUFFICES ASSUME Inv PROVE TypeOK
    OBVIOUS
  <2>1. hand \in [events : 0..2, begun : SUBSET Runner, over : SUBSET Runner]
    <3>1. Feed!AtMostOne(Runner) \subseteq SUBSET Runner
      BY AtMostOneRunner
    <3> QED
      BY <3>1 DEF Inv, BusyInv
  <2>2. busy \subseteq Runner /\ shown \subseteq Runner
    BY DEF Inv, BusyInv
  <2>3. job \in [Runner -> {"none", "running", "over"}] /\ queue \in Seq(Event)
    BY DEF Inv, QueueInv
  <2> QED
    BY <2>1, <2>2, <2>3 DEF Inv, LoopInv, DelayInv, BoxInv, RestType, ProofsType, TypeOK
<1> QED
  BY <1>1, Invariant, PTL

(***************************************************************************)
(* No runner stays in the handler's busy set after its job: whatever order *)
(* messages are handled, deleted and delivered again in, the completion of *)
(* every busy runner is still to come.                                     *)
(***************************************************************************)
THEOREM NoPhantoms == Spec => []NoPhantomBusy
  BY Invariant, PTL DEF Inv, QueueInv

(***************************************************************************)
(* Publish finds the mailbox empty when it sends, and what it was given    *)
(* last is what the reconciler reads next or has read last.                *)
(***************************************************************************)
THEOREM NewestWins == Spec => []NewestDemandWins
  BY Invariant, PTL DEF Inv, BoxInv

(***************************************************************************)
(* Run has closed its session when it returns.                             *)
(***************************************************************************)
THEOREM Released == Spec => []SessionReleased
<1>1. Inv => SessionReleased
  BY DEF Inv, LoopInv, InSession, SessionReleased
<1> QED
  BY <1>1, Invariant, PTL

\* The step of BackoffUntilContact.
DelayHeld == pc # "wait" /\ pc' = "wait" =>
                IF contact THEN waited' = ReconnectInitial ELSE waited' >= waited

(***************************************************************************)
(* A reconnect delay is not shorter than the one before unless the handler *)
(* was called in between, for all legal delays.                            *)
(***************************************************************************)
THEOREM BackoffHeld == Spec => BackoffUntilContact
<1>1. Inv /\ [Next]_vars => [DelayHeld]_vars
  <2> SUFFICES ASSUME Inv, Next, pc # "wait", pc' = "wait"
               PROVE  IF contact THEN waited' = ReconnectInitial ELSE waited' >= waited
    BY DEF DelayHeld
  <2>1. waited' = current
    BY Steps DEF Close, Claim, openInitial, closeSession, waitForRetry, ReopenOK, ReopenFails,
         Opened, Reconnecting, Return, Listening, PollFails, PollEmpty, PollMessage,
         DeleteMessage, DeleteFails, HandleJobStarted, HandleJobCompleted,
         HandleDesiredRunnerCount, Publish, Outside, TakeDemand, TakeEvent, Cancel,
         JobStarts, JobEnds, ServerFrame, loopVars
  <2> QED
    BY <2>1 DEF Inv, DelayInv
<1> QED
  BY <1>1, Invariant, PTL DEF Spec, BackoffUntilContact, DelayHeld

-----------------------------------------------------------------------------
(* Session implements DemandFeed *)

\* The mailbox of the feed: a demand is there from the moment Publish has it.
FeedMailbox == IF pc = "publish" THEN demand ELSE mailbox

\* A step the feed does not see.
LEMMA FeedStutter ==
    ASSUME FeedMailbox' = FeedMailbox, UNCHANGED <<generation, shown>>
    PROVE  UNCHANGED Feed!feedVars
  BY DEF Feed!feedVars, FeedMailbox

\* A new session.
LEMMA FeedOpens ==
    ASSUME Inv, Opened, pc \in {"opening", "reopen"}, UNCHANGED boxVars
    PROVE  Feed!OpenSession
<1>1. generation < MaxGeneration
  BY DEF Inv, LoopInv
<1>2. FeedMailbox' = FeedMailbox
  BY DEF FeedMailbox, Opened, boxVars
<1> QED
  BY <1>1, <1>2 DEF Feed!OpenSession, Opened, FeedMailbox

\* The count of a message, or of an empty poll, or of a new session.
LEMMA FeedMessage ==
    ASSUME Inv, HandleDesiredRunnerCount
    PROVE  \E n \in 0..MaxAssigned, begun \in Feed!AtMostOne(Runner),
              over \in Feed!AtMostOne(Runner) : Feed!Message(n, begun, over)
<1>1. PICK count \in -1..MaxAssigned : demand' = {Published(count)}
  BY DEF HandleDesiredRunnerCount
<1>2. /\ pc \in {"run", "count"} /\ pc' = "publish" /\ shown' = busy
      /\ generation' = generation
  BY DEF HandleDesiredRunnerCount, HandlerFrame
<1>3. generation > 0
  BY <1>2 DEF Inv, LoopInv, InSession
<1> DEFINE n == IF count > 0 THEN count ELSE 0
<1>4. n \in 0..MaxAssigned
  BY SessionBounds
<1>5. FeedMailbox' = {[jobs |-> n, gen |-> generation, busy |-> busy]}
  BY <1>1, <1>2 DEF FeedMailbox, Published
<1>6. PICK begun \in Feed!AtMostOne(Runner), over \in Feed!AtMostOne(Runner) :
        busy = (shown \cup begun) \ over
  <2>1. CASE pc = "run"
    <3>1. busy = (shown \cup {}) \ {}
      BY <2>1 DEF Inv, BusyInv
    <3> QED
      BY <3>1, AtMostOneRunner
  <2>2. CASE pc = "count"
    BY <2>2, HandFields DEF Inv, BusyInv
  <2> QED
    BY <1>2, <2>1, <2>2
<1>7. Feed!Message(n, begun, over)
  BY <1>2, <1>3, <1>5, <1>6 DEF Feed!Message, FeedMailbox
<1> QED
  BY <1>4, <1>7

\* The reconciler takes what is in the mailbox.
LEMMA FeedTakes ==
    ASSUME Inv, TakeDemand
    PROVE  Feed!Take
<1>1. pc # "publish" /\ pc' = pc /\ UNCHANGED <<generation, shown>>
  BY DEF TakeDemand, Inv, BoxInv, NewestDemandWins, loopVars, ghostVars
<1> QED
  BY <1>1 DEF TakeDemand, Feed!Take

\* Every step of Session is a step of the feed or none.
LEMMA FeedStep == Inv /\ [Next]_vars => [Feed!FeedNext]_(Feed!feedVars)
<1> SUFFICES ASSUME Inv, [Next]_vars
             PROVE  Feed!FeedNext \/ UNCHANGED Feed!feedVars
  OBVIOUS
<1>1. CASE HandleDesiredRunnerCount \/ TakeDemand
  BY <1>1, FeedMessage, FeedTakes DEF Feed!FeedNext
<1>2. CASE Publish
  <2>1. /\ pc = "publish" /\ pc' # "publish" /\ mailbox' = demand
        /\ UNCHANGED <<generation, shown>>
    BY <1>2 DEF Publish, HandlerFrame
  <2> QED
    BY <2>1, FeedStutter DEF FeedMailbox
<1>3. CASE Opened /\ pc \in {"opening", "reopen"} /\ OutsideFrame
  BY <1>3, FeedOpens DEF OutsideFrame, Feed!FeedNext
<1>4. CASE /\ UNCHANGED <<boxVars, generation, shown>>
           /\ pc' = pc \/ (pc # "publish" /\ pc' # "publish")
  BY <1>4, FeedStutter DEF boxVars, FeedMailbox
<1>5. CASE \/ Close \/ Claim \/ openInitial \/ closeSession \/ waitForRetry
           \/ ReopenOK \/ ReopenFails
  BY <1>3, <1>4, <1>5 DEF Close, Claim, openInitial, closeSession, waitForRetry, ReopenOK,
       ReopenFails, OutsideFrame, Reconnecting, Return, ghostVars
<1>6. CASE \/ PollFails \/ PollEmpty \/ PollMessage \/ DeleteMessage \/ DeleteFails
           \/ HandleJobStarted \/ HandleJobCompleted
  BY <1>4, <1>6 DEF PollFails, PollEmpty, PollMessage, DeleteMessage, DeleteFails,
       HandleJobStarted, HandleJobCompleted, ListenerFrame, HandlerFrame, ghostVars, boxVars
<1>7. CASE \/ TakeEvent \/ Cancel \/ UNCHANGED vars
           \/ \E r \in Runner : JobStarts(r) \/ JobEnds(r)
  BY <1>4, <1>7 DEF TakeEvent, Cancel, JobStarts, JobEnds, ServerFrame, vars, loopVars,
       ghostVars
<1> QED
  BY <1>1, <1>2, <1>5, <1>6, <1>7, Steps DEF Listening, Outside

(***************************************************************************)
(* The message loop, with its drain and send, its redeliveries and its     *)
(* reconnects, is a demand feed: what the reconciler is verified against.  *)
(***************************************************************************)
THEOREM FeedImplemented == Spec => ImplementsFeed
<1>1. Init => Feed!FeedInit
  BY DEF Init, Feed!FeedInit
<1> QED
  BY <1>1, Invariant, FeedStep, PTL DEF Spec, ImplementsFeed, Feed!FeedSpec
=============================================================================
