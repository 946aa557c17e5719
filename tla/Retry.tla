------------------------------- MODULE Retry -------------------------------
(***************************************************************************)
(* The retry schedule of a delivery job whose attempts all fail            *)
(* (internal/delivery/retry.go): after each one River asks NextRetry for   *)
(* the time of the next.  The policy was copied into the job's arguments   *)
(* when it was enqueued.                                                   *)
(*                                                                         *)
(* A duration is a signed integer of Width bits, 64 in the code, counted   *)
(* in ticks of which a second has Ticks.  base * 2^(attempt-1) is a        *)
(* float64, exact here and large enough not to overflow; converting it to  *)
(* a duration it does not fit is left to the processor by Go: amd64 yields *)
(* the smallest duration, arm64 the largest.                               *)
(***************************************************************************)
EXTENDS Integers

CONSTANTS
    Backoffs,       \* values of backoff_base_seconds and backoff_max_seconds
    Ticks,          \* ticks in a second
    Width,
    MaxAttempt      \* bound on the attempts of a job

MaxDuration == 2^(Width - 1) - 1
MinDuration == -2^(Width - 1)

\* The seconds are 32-bit integers: as a duration they do not overflow.
ASSUME RetryAssumption ==
    /\ {Ticks, Width, MaxAttempt} \subseteq Nat \ {0}
    /\ Backoffs \subseteq Int
    /\ \A b \in Backoffs : b * Ticks \in MinDuration..MaxDuration

VARIABLES
    policy,     \* backoff_base_seconds and backoff_max_seconds of the job
    attempt,    \* the attempt under way; 0 before the job is enqueued
    delay       \* what backoffWithJitter said after the last attempt

retryVars == <<policy, attempt, delay>>

RetryInit ==
    /\ policy = [base |-> 0, max |-> 0]
    /\ attempt = 0
    /\ delay = 0
-----------------------------------------------------------------------------
\* The outcomes of time.Duration(x) for a positive float64 x.
ToDuration(x) == IF x <= MaxDuration THEN {x} ELSE {MinDuration, MaxDuration}

\* Mutant: the cap is left to the check after the conversion.
ScaledConvertedFirst(n, base, max) ==
    LET scaled == base * 2^(n - 1) IN
    {IF max > 0 /\ d > max THEN max ELSE d : d \in ToDuration(scaled)}

\* The delay before jitter, in the outcomes the build can produce.
Scaled(n, base, max) ==
    LET scaled == base * 2^(n - 1)
        grown == IF n = 1 THEN {base}
                 ELSE IF max > 0 /\ scaled >= max THEN {max}
                 ELSE ToDuration(scaled)
    IN {IF max > 0 /\ d > max THEN max ELSE d : d \in grown}

\* 50-100% of a delay; Go's division truncates, so a half of a negative one
\* is not positive.
Jitter(d) ==
    LET half == d \div 2 IN
    IF d <= 1 THEN {d} ELSE {half + r : r \in 0..half}

BackoffWithJitter(n, base, max) ==
    IF base <= 0 THEN {0} ELSE UNION {Jitter(d) : d \in Scaled(n, base, max)}

\* InsertDeliveryJob: the job is enqueued with the destination's policy.
EnqueueJob(b, m) ==
    /\ attempt = 0
    /\ policy' = [base |-> b, max |-> m]
    /\ attempt' = 1
    /\ UNCHANGED delay

\* NextRetry, asked when an attempt has failed.
NextRetry ==
    /\ attempt \in 1..MaxAttempt
    /\ attempt' = attempt + 1
    /\ delay' \in BackoffWithJitter(attempt, policy.base * Ticks,
                                    policy.max * Ticks)
    /\ UNCHANGED policy

RetryNext ==
    \/ \E b, m \in Backoffs : EnqueueJob(b, m)
    \/ NextRetry
-----------------------------------------------------------------------------
(* Properties *)

\* A job with a positive base and cap waits between half and all of
\* min(base * 2^(n-1), cap) after its n-th attempt, however large n is: the
\* delay never overflows, never exceeds the cap and never is the zero that
\* hands the job over to River's own schedule.
RetryWithinPolicy ==
    attempt > 1 /\ policy.base > 0 /\ policy.max > 0 =>
        LET grown == policy.base * Ticks * 2^(attempt - 2)
            cap == policy.max * Ticks
            due == IF grown < cap THEN grown ELSE cap
        IN delay > 0 /\ delay <= due /\ 2 * delay >= due - 1
=============================================================================
