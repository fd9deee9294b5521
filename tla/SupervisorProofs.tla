-------------------------- MODULE SupervisorProofs --------------------------
(* What Application.Run returns, for any number of components. *)
EXTENDS Supervisor, SequenceTheorems, TLAPS

\* A component whose result was sent or received has ended, which makes the
\* two properties inductive together.
SupervisorInv ==
    /\ TypeOK
    /\ \A i \in 1..Len(results) : state[results[i]] # "running"
    /\ \A c \in received : state[c] # "running"
    /\ pc # "returned" => outcome = "none"
    /\ pc = "prepare" => results = <<>> /\ received = {} /\ Members = {}
    /\ pc \in {"first", "peers"} => Members # {}
    /\ SuccessIsEarned
    /\ NoneLeftRunning

\* No component has been started and nothing decided.
LEMMA SupervisorInvInit == SupervisorInit => SupervisorInv
<1> SUFFICES ASSUME SupervisorInit PROVE SupervisorInv
  OBVIOUS
<1>1. results \in Seq(Component) /\ Len(results) = 0
  BY DEF SupervisorInit
<1>2. \A i \in 1..Len(results) : state[results[i]] # "running"
  BY <1>1
<1>3. state \in [Component -> {"unstarted", "running"} \cup Ended]
  BY DEF SupervisorInit
<1>4. stop \in BOOLEAN /\ canceled \in BOOLEAN
  BY DEF SupervisorInit
<1>5. TypeOK
  BY <1>1, <1>3, <1>4 DEF SupervisorInit, TypeOK
<1> QED BY <1>1, <1>2, <1>5 DEF SupervisorInit, SupervisorInv, Members, SuccessIsEarned, NoneLeftRunning

(***************************************************************************)
(* Receiving the oldest result leaves only results of ended components.    *)
(***************************************************************************)
LEMMA Received ==
  ASSUME SupervisorInv, results # <<>>, results' = Tail(results), state' = state
  PROVE  /\ results' \in Seq(Component)
         /\ Head(results) \in Component
         /\ state[Head(results)] # "running"
         /\ \A i \in 1..Len(results') : state'[results'[i]] # "running"
<1>1. results \in Seq(Component) /\ Len(results) \in Nat /\ Len(results) > 0
  BY EmptySeq DEF SupervisorInv, TypeOK
<1>2. Head(results) = results[1] /\ 1 \in 1..Len(results)
  BY <1>1
<1>3. /\ Tail(results) \in Seq(Component)
      /\ Len(Tail(results)) = Len(results) - 1
      /\ \A i \in 1..Len(Tail(results)) : Tail(results)[i] = results[i + 1]
  BY <1>1, HeadTailProperties
<1>4. \A i \in 1..Len(results) : state[results[i]] # "running"
  BY DEF SupervisorInv
<1>5. Head(results) \in Component
  BY <1>1, <1>2
<1> QED BY <1>1, <1>2, <1>3, <1>4, <1>5

\* Every step of Run and of the components.
LEMMA SupervisorInvStep == SupervisorInv /\ [SupervisorNext]_supervision => SupervisorInv'
<1> USE DEF Members
<1> SUFFICES ASSUME SupervisorInv, [SupervisorNext]_supervision PROVE SupervisorInv'
  OBVIOUS
<1>1. ASSUME NEW c \in Component, ComponentEnds(c) PROVE SupervisorInv'
  <2>1. PICK how \in Ended : state' = [state EXCEPT ![c] = how]
    BY <1>1 DEF ComponentEnds
  <2>2. /\ state' \in [Component -> {"unstarted", "running"} \cup Ended]
        /\ state'[c] # "running"
        /\ \A d \in Component : state[d] # "running" => state'[d] = state[d]
    BY <1>1, <2>1 DEF ComponentEnds, SupervisorInv, TypeOK, Ended
  <2>3. results \in Seq(Component) /\ results' = Append(results, c)
    BY <1>1 DEF ComponentEnds, SupervisorInv, TypeOK
  <2>4. /\ results' \in Seq(Component)
        /\ Len(results') = Len(results) + 1
        /\ \A i \in 1..Len(results) : results'[i] = results[i]
        /\ results'[Len(results) + 1] = c
    BY <2>3, AppendProperties
  <2>5. \A i \in 1..Len(results) : results[i] \in Component /\ state[results[i]] # "running"
    BY <2>3, ElementOfSeq DEF SupervisorInv
  <2>6. \A i \in 1..Len(results') : state'[results'[i]] # "running"
    BY <2>2, <2>3, <2>4, <2>5, LenProperties
  <2>7. state[c] = "running" /\ UNCHANGED <<pc, received, stop, canceled, outcome>>
    BY <1>1 DEF ComponentEnds
  <2>8. pc # "prepare" /\ Members' # {} /\ outcome # "nil"
    <3>1. c \in Members
      BY <2>7
    <3>2. state'[c] # "unstarted"
      BY <2>1, <1>1 DEF ComponentEnds, SupervisorInv, TypeOK, Ended
    <3>3. c \in Members'
      BY <3>2
    <3> HIDE DEF Members
    <3> QED BY <2>7, <3>1, <3>3 DEF SupervisorInv, SuccessIsEarned
  <2>9. TypeOK' /\ \A d \in received' : state'[d] # "running"
    BY <2>2, <2>4, <2>7 DEF SupervisorInv, TypeOK
  <2> QED BY <2>2, <2>6, <2>7, <2>8, <2>9 DEF SupervisorInv, SuccessIsEarned, NoneLeftRunning
<1>2. CASE Stop
  BY <1>2 DEF Stop, SupervisorInv, TypeOK, SuccessIsEarned, NoneLeftRunning
<1>3. CASE TakeFirst
  BY <1>3, Received DEF TakeFirst, SupervisorInv, TypeOK, SuccessIsEarned, NoneLeftRunning
<1>4. CASE TakePeer
  BY <1>4, Received DEF TakePeer, SupervisorInv, TypeOK, SuccessIsEarned, NoneLeftRunning
<1>5. CASE BudgetExpires
  BY <1>5 DEF BudgetExpires, Return, SupervisorInv, TypeOK, SuccessIsEarned, NoneLeftRunning
<1>6. CASE Finish
  <2>1. /\ Members # {}
        /\ \A c \in Component : state[c] \in Ended \cup {"unstarted"}
    BY <1>6 DEF Finish, SupervisorInv, TypeOK
  <2>2. outcome' = "nil" => stop /\ \A c \in Component : state[c] # "error"
    BY <1>6 DEF Finish, Return, joined
  <2>3. outcome' \in {"nil", "error"} /\ pc' = "returned" /\ canceled' = TRUE
    BY <1>6 DEF Finish, Return, joined
  <2>4. UNCHANGED <<state, results, received, stop>>
    BY <1>6 DEF Finish, Return
  <2> QED BY <2>1, <2>2, <2>3, <2>4
          DEF SupervisorInv, TypeOK, SuccessIsEarned, NoneLeftRunning, Ended
<1>7. CASE UNCHANGED supervision
  BY <1>7 DEF supervision, SupervisorInv, TypeOK, SuccessIsEarned, NoneLeftRunning
<1>8. ASSUME NEW members \in SUBSET Component, Begin(members) PROVE SupervisorInv'
  <2>1. results = <<>> /\ received = {}
    BY <1>8 DEF Begin, SupervisorInv
  <2> QED BY <1>8, <2>1, EmptySeq DEF Begin, SupervisorInv, TypeOK, SuccessIsEarned, NoneLeftRunning
<1>9. CASE PrepareFails
  <2>1. \A c \in Component : state[c] = "unstarted"
    BY <1>9 DEF PrepareFails, SupervisorInv
  <2> QED BY <1>9, <2>1 DEF PrepareFails, SupervisorInv, TypeOK, SuccessIsEarned, NoneLeftRunning
<1>10. CASE Restart
  <2>1. results' \in Seq(Component) /\ Len(results') = 0
    BY <1>10 DEF Restart
  <2>2. /\ results' = <<>> /\ received' = {} /\ Members' = {}
        /\ state' \in [Component -> {"unstarted", "running"} \cup Ended]
    BY <1>10 DEF Restart
  <2>3. \A i \in 1..Len(results') : state'[results'[i]] # "running"
    BY <2>1
  <2>4. TypeOK'
    <3>1. pc' = "prepare" /\ outcome' = "none" /\ received' \subseteq Component
      BY <1>10, <2>2 DEF Restart
    <3>2. stop' \in BOOLEAN /\ canceled' \in BOOLEAN
      BY <1>10 DEF Restart, SupervisorInv, TypeOK
    <3> HIDE DEF Members
    <3> QED BY <2>1, <2>2, <3>1, <3>2 DEF TypeOK
  <2> QED BY <1>10, <2>2, <2>3, <2>4 DEF Restart, SupervisorInv, SuccessIsEarned, NoneLeftRunning
<1> QED BY <1>1, <1>2, <1>3, <1>4, <1>5, <1>6, <1>7, <1>8, <1>9, <1>10
        DEF SupervisorNext, Supervise, RunStep

(***************************************************************************)
(* With any set of components, Run returns nil only after a requested stop *)
(* that every component followed without failing.                          *)
(***************************************************************************)
THEOREM SuccessEarned == SupervisorSpec => []SuccessIsEarned
<1>1. SupervisorInv => SuccessIsEarned
  BY DEF SupervisorInv
<1> QED BY SupervisorInvInit, SupervisorInvStep, <1>1, PTL DEF SupervisorSpec

(***************************************************************************)
(* With any set of components, a Run that does not report a timeout leaves *)
(* none of them running.                                                   *)
(***************************************************************************)
THEOREM NoComponentLeft == SupervisorSpec => []NoneLeftRunning
<1>1. SupervisorInv => NoneLeftRunning
  BY DEF SupervisorInv
<1> QED BY SupervisorInvInit, SupervisorInvStep, <1>1, PTL DEF SupervisorSpec
=============================================================================
