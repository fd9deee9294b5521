--------------------------- MODULE BackoffProofs ---------------------------
(* Both delays stay in the configured interval, whatever the interval. *)
EXTENDS Backoff, TLAPS

(***************************************************************************)
(* A value that fits in a duration is not changed by two's complement      *)
(* arithmetic.                                                             *)
(***************************************************************************)
LEMMA WrapFits == ASSUME NEW x \in 0..MaxDuration PROVE Wrap(x) = x
<1> DEFINE m == MaxDuration + 1
           y == x + MaxDuration + 1
<1>1. m \in Nat \ {0} /\ y \in Nat /\ y < 2 * m
  BY DurationAssumption
<1>2. y % (2 * m) = y
  <2> HIDE DEF m, y
  <2>1. 2 * m \in Nat \ {0}
    BY <1>1
  <2> QED BY <1>1, <2>1
<1> QED BY <1>2, DurationAssumption DEF Wrap

\* The shape of the configuration and the interval, which is inductive.
BackoffInv ==
    /\ initial \in Delay
    /\ maximum \in Delay
    /\ initial <= maximum
    /\ WithinCap

(***************************************************************************)
(* nextFailureDelay stays within [RetryInitial, RetryMaximum].             *)
(***************************************************************************)
LEMMA FailureDelayBounded ==
  ASSUME NEW first \in Delay, NEW cap \in Delay, first <= cap,
         NEW previous \in {0} \cup (first..cap)
  PROVE  nextFailureDelay(previous, first, cap) \in first..cap
<1>1. CASE previous <= 0
  BY <1>1, DurationAssumption DEF nextFailureDelay, Delay
<1>2. CASE previous > 0 /\ previous >= Half(cap)
  BY <1>2, DurationAssumption DEF nextFailureDelay, Delay
<1>3. CASE previous > 0 /\ previous < Half(cap)
  <2>1. previous + previous <= cap
    BY <1>3, DurationAssumption DEF Half, Delay
  <2>2. Wrap(previous + previous) = previous + previous
    BY <2>1, <1>3, WrapFits, DurationAssumption DEF Delay
  <2> QED BY <1>3, <2>1, <2>2, DurationAssumption DEF nextFailureDelay, Delay, Half
<1> QED BY <1>1, <1>2, <1>3, DurationAssumption DEF Delay, Half

(***************************************************************************)
(* What reconnectBackoff.Next leaves stays within [initial, maximum].      *)
(***************************************************************************)
LEMMA AdvanceBounded ==
  ASSUME NEW first \in Delay, NEW cap \in Delay, NEW now \in first..cap
  PROVE  Advance(now, cap) \in first..cap
<1>1. Wrap(cap - now) = cap - now
  BY WrapFits, DurationAssumption DEF Delay
<1>2. CASE now >= cap - now
  BY <1>1, <1>2, DurationAssumption DEF Advance, Delay
<1>3. CASE now < cap - now
  <2>1. Wrap(now * 2) = now * 2
    BY <1>3, WrapFits, DurationAssumption DEF Delay
  <2> QED BY <1>1, <1>3, <2>1, DurationAssumption DEF Advance, Delay
<1> QED BY <1>2, <1>3, DurationAssumption DEF Delay

\* The delays begin at the configured first delay.
LEMMA BackoffInvInit == BackoffInit => BackoffInv
BY DurationAssumption DEF BackoffInit, BackoffInv, WithinCap, Delay

\* Every failure and every success keeps the delays in their interval.
LEMMA BackoffInvStep == BackoffInv /\ [BackoffNext]_delays => BackoffInv'
<1> SUFFICES ASSUME BackoffInv, [BackoffNext]_delays PROVE BackoffInv'
  OBVIOUS
<1>0. initial \in Delay /\ maximum \in Delay /\ initial <= maximum /\ WithinCap
  BY DEF BackoffInv
<1>1. CASE recordFailure
  <2>1. failure \in {0} \cup (initial..maximum)
    BY <1>0 DEF WithinCap
  <2>2. failure' \in initial..maximum
    BY <1>0, <1>1, <2>1, FailureDelayBounded DEF recordFailure
  <2> QED BY <1>0, <1>1, <2>2 DEF recordFailure, BackoffInv, WithinCap
<1>2. CASE succeed
  BY <1>0, <1>2 DEF succeed, BackoffInv, WithinCap
<1>3. CASE NextDelay
  <2>1. current' \in initial..maximum
    BY <1>0, <1>3, AdvanceBounded DEF NextDelay, WithinCap
  <2> QED BY <1>0, <1>3, <2>1 DEF NextDelay, BackoffInv, WithinCap
<1>4. CASE Reset
  BY <1>0, <1>4, DurationAssumption DEF Reset, BackoffInv, WithinCap, Delay
<1>5. CASE \E cap \in Delay : \E first \in 1..cap : Configure(first, cap)
  BY <1>5, DurationAssumption DEF Configure, BackoffInv, WithinCap, Delay
<1>6. CASE UNCHANGED delays
  BY <1>0, <1>6 DEF delays, BackoffInv, WithinCap
<1> QED BY <1>1, <1>2, <1>3, <1>4, <1>5, <1>6 DEF BackoffNext, Backs

(***************************************************************************)
(* No sequence of failures, successes, reconnects and resets takes the     *)
(* cooldown of recordFailure or the delay of reconnectBackoff out of the   *)
(* configured interval, for every interval a time.Duration can express.    *)
(***************************************************************************)
THEOREM DelaysBounded == BackoffSpec => []WithinCap
<1>1. BackoffInv => WithinCap
  BY DEF BackoffInv
<1> QED BY BackoffInvInit, BackoffInvStep, <1>1, PTL DEF BackoffSpec

(***************************************************************************)
(* One step of BackoffNext, taken where the interval holds, escalates both *)
(* delays.                                                                 *)
(***************************************************************************)
LEMMA StepEscalates ==
  BackoffInv /\ [BackoffNext]_delays =>
    [ /\ (recordFailure /\ failure # 0 => Grows(failure, failure'))
      /\ (NextDelay => Grows(waited', current')) ]_delays
<1> SUFFICES ASSUME BackoffInv, BackoffNext
             PROVE  /\ (recordFailure /\ failure # 0 => Grows(failure, failure'))
                    /\ (NextDelay => Grows(waited', current'))
  OBVIOUS
<1>0. initial \in Delay /\ maximum \in Delay /\ initial <= maximum /\ WithinCap
  BY DEF BackoffInv
<1>1. ASSUME recordFailure, failure # 0 PROVE Grows(failure, failure')
  <2>1. failure \in initial..maximum /\ failure > 0
    BY <1>0, <1>1, DurationAssumption DEF WithinCap, Delay
  <2>2. CASE failure >= Half(maximum)
    BY <1>0, <1>1, <2>1, <2>2, DurationAssumption
       DEF recordFailure, nextFailureDelay, Grows, Delay
  <2>3. CASE failure < Half(maximum)
    <3>1. failure + failure <= maximum
      BY <1>0, <2>1, <2>3, DurationAssumption DEF Half, Delay
    <3>2. Wrap(failure + failure) = failure + failure
      BY <1>0, <2>1, <3>1, WrapFits, DurationAssumption DEF Delay
    <3> QED BY <1>0, <1>1, <2>1, <2>3, <3>1, <3>2, DurationAssumption
               DEF recordFailure, nextFailureDelay, Grows, Delay, Half
  <2> QED BY <1>0, <2>1, <2>2, <2>3, DurationAssumption DEF Half, Delay
<1>2. ASSUME NextDelay PROVE Grows(waited', current')
  <2>1. current \in initial..maximum /\ Wrap(maximum - current) = maximum - current
    BY <1>0, WrapFits, DurationAssumption DEF WithinCap, Delay
  <2>2. CASE current >= maximum - current
    BY <1>2, <2>1, <2>2 DEF NextDelay, Advance, Grows
  <2>3. CASE current < maximum - current
    <3>1. Wrap(current * 2) = current * 2
      BY <1>0, <2>1, <2>3, WrapFits, DurationAssumption DEF Delay
    <3> QED BY <1>0, <1>2, <2>1, <2>3, <3>1, DurationAssumption
               DEF NextDelay, Advance, Grows, Delay
  <2> QED BY <1>0, <2>1, <2>2, <2>3, DurationAssumption DEF Delay
<1> QED BY <1>1, <1>2

(***************************************************************************)
(* Consecutive failures and consecutive reconnects lengthen their delay    *)
(* until it is the configured maximum.                                     *)
(***************************************************************************)
THEOREM DelaysEscalate == BackoffSpec => Escalates
BY BackoffInvInit, BackoffInvStep, StepEscalates, PTL DEF BackoffSpec, Escalates
=============================================================================
