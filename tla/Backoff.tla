------------------------------ MODULE Backoff ------------------------------
(***************************************************************************)
(* The two capped exponential delays of the program: the cooldown of a     *)
(* failed backend operation (nextFailureDelay, in                          *)
(* src/internal/controller/controller.go) and the delay before a message   *)
(* session is opened again (reconnectBackoff, in                           *)
(* src/internal/adapters/github/reconnect.go).  Both are configured by the *)
(* same pair of durations.  A time.Duration is a signed integer of fixed   *)
(* width, so sums and products wrap.                                       *)
(***************************************************************************)
EXTENDS Integers

CONSTANT MaxDuration      \* the largest time.Duration

ASSUME DurationAssumption == MaxDuration \in Nat \ {0}

VARIABLES initial,        \* RetryInitial
          maximum,        \* RetryMaximum
          failure,        \* delay of the last failure, 0 without an entry
          current,        \* reconnectBackoff.current
          waited          \* the delay Next returned last

delays == <<initial, maximum, failure, current, waited>>

Delay == 1..MaxDuration

\* Two's complement arithmetic.
Wrap(x) == ((x + MaxDuration + 1) % (2 * (MaxDuration + 1))) - (MaxDuration + 1)

\* Go's division truncates; the operands here are never negative.
Half(x) == x \div 2

-----------------------------------------------------------------------------
\* Faulty variant of nextFailureDelay: the sum is capped after it wrapped.
nextFailureDelayLate(previous, first, cap) ==
    IF previous <= 0 THEN first
    ELSE LET doubled == Wrap(previous + previous)
         IN IF doubled < cap THEN doubled ELSE cap

nextFailureDelay(previous, first, cap) ==
    IF previous <= 0 THEN first
    ELSE IF previous >= Half(cap) THEN cap
    ELSE LET doubled == Wrap(previous + previous)
         IN IF doubled < cap THEN doubled ELSE cap

\* Faulty variant of Advance: the cap is compared before doubling.
AdvanceLate(now, cap) == IF now >= cap THEN cap ELSE Wrap(now * 2)

\* What Next leaves in current.
Advance(now, cap) == IF now >= Wrap(cap - now) THEN cap ELSE Wrap(now * 2)

-----------------------------------------------------------------------------
\* Every pair that New and validateReconnectOptions accept.
BackoffInit == /\ maximum \in Delay
               /\ initial \in 1..maximum
               /\ failure = 0
               /\ current = initial
               /\ waited = initial

\* Another process starts, with the pair of its own configuration.
Configure(first, cap) == /\ initial' = first
                         /\ maximum' = cap
                         /\ failure' = 0
                         /\ current' = first
                         /\ waited' = first

\* recordFailure and waitForInitialInventory.
recordFailure ==
    /\ failure' = nextFailureDelay(failure, initial, maximum)
    /\ UNCHANGED <<initial, maximum, current, waited>>

\* apply forgets the failures of an operation that succeeded.
succeed == /\ failure' = 0
           /\ UNCHANGED <<initial, maximum, current, waited>>

NextDelay == /\ waited' = current
             /\ current' = Advance(current, maximum)
             /\ UNCHANGED <<initial, maximum, failure>>

Reset == /\ current' = initial
         /\ UNCHANGED <<initial, maximum, failure, waited>>

Backs == recordFailure \/ succeed \/ NextDelay \/ Reset

BackoffNext == Backs \/ \E cap \in Delay : \E first \in 1..cap : Configure(first, cap)

BackoffSpec == BackoffInit /\ [][BackoffNext]_delays

-----------------------------------------------------------------------------
(***************************************************************************)
(* Neither delay ever leaves the configured interval: no sequence of       *)
(* failures, successes, reconnects and resets overflows a duration,        *)
(* shortens a wait below RetryInitial or lengthens it above RetryMaximum.  *)
(***************************************************************************)
WithinCap ==
    /\ failure = 0 \/ failure \in initial..maximum
    /\ current \in initial..maximum
    /\ waited \in initial..maximum

(***************************************************************************)
(* Failures in a row give more and more room: the next cooldown is longer  *)
(* than the last unless it is the cap, and so is the next reconnect delay. *)
(***************************************************************************)
Grows(now, then) == then > now \/ then = maximum

Escalates ==
    [][ /\ (recordFailure /\ failure # 0 => Grows(failure, failure'))
        /\ (NextDelay => Grows(waited', current')) ]_delays
=============================================================================
