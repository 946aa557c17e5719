--------------------------- MODULE LogRetryProofs ---------------------------
(***************************************************************************)
(* Machine-checked proofs about the retry schedule and the event log; both *)
(* count with finite sets.  For every policy, however many attempts fail   *)
(* and however wide a duration is, the delay keeps the policy.  For any    *)
(* number of events, deliveries and attempts and any page size, the trace  *)
(* view is not behind the counts it shows, and a client that pages to the  *)
(* end misses nothing that was there all the time.                         *)
(***************************************************************************)
EXTENDS Retry, EventLog, FiniteSetTheorems, SequenceTheorems, TLAPS

-----------------------------------------------------------------------------
(* The retry schedule *)

\* A power of two is a positive natural number: it counts the subsets of a set.
LEMMA PowerOfTwo ==
    ASSUME NEW n \in Nat
    PROVE  2^n \in Nat /\ 2^n > 0
<1>1. IsFiniteSet(1..n) /\ Cardinality(1..n) = n
  BY FS_Interval
<1>2. IsFiniteSet(SUBSET (1..n)) /\ Cardinality(SUBSET (1..n)) = 2^n
  BY <1>1, FS_SUBSET, Zenon
<1>3. {} \in SUBSET (1..n)
  BY Zenon
<1>4. Cardinality(SUBSET (1..n)) \in Nat /\ Cardinality(SUBSET (1..n)) # 0
  BY <1>2, <1>3, FS_CardinalityType, FS_EmptySet, Zenon
<1> QED
  BY <1>2, <1>4

\* What min(base * 2^(n-1), max) is, for positive durations.
Due(n, base, max) ==
    IF base * 2^(n - 1) < max THEN base * 2^(n - 1) ELSE max

\* Before jitter the delay is exactly that, on every processor: the check
\* against the cap comes before the conversion that could overflow.
LEMMA ScaledIsDue ==
    ASSUME NEW n \in Nat \ {0}, NEW base \in Nat \ {0}, NEW max \in Nat \ {0},
           max <= MaxDuration
    PROVE  Scaled(n, base, max) = {Due(n, base, max)}
           /\ Due(n, base, max) \in Nat \ {0}
<1>1. PICK p \in Nat \ {0} : p = 2^(n - 1)
  BY PowerOfTwo
<1>2. n = 1 => p = 1
  BY <1>1
<1>3. PICK scaled \in Nat \ {0} : scaled = base * p
  BY <1>1
<1>4. n = 1 => scaled = base
  BY <1>2, <1>3
<1>5. MaxDuration \in Int
  BY PowerOfTwo, RetryAssumption DEF MaxDuration
<1>6. scaled < max => ToDuration(scaled) = {scaled}
  BY <1>3, <1>5 DEF ToDuration
<1>7. Due(n, base, max) = IF scaled < max THEN scaled ELSE max
  BY <1>1, <1>3, Zenon DEF Due
<1>8. Scaled(n, base, max) =
        {IF d > max THEN max ELSE d :
           d \in IF n = 1 THEN {base}
                 ELSE IF scaled >= max THEN {max} ELSE {scaled}}
  BY <1>1, <1>3, <1>6 DEF Scaled
<1> QED
  BY <1>3, <1>4, <1>7, <1>8

\* Jitter takes off at most half: a positive delay stays positive.
LEMMA JitterHalves ==
    ASSUME NEW d \in Nat \ {0}, NEW x \in Jitter(d)
    PROVE  x \in Nat /\ x > 0 /\ x <= d /\ 2 * x >= d - 1
<1>1. CASE d <= 1
  BY <1>1 DEF Jitter
<1>2. CASE d > 1
  <2>1. PICK half \in Nat \ {0} :
          half = d \div 2 /\ 2 * half <= d /\ 2 * half >= d - 1
    BY <1>2
  <2>2. PICK r \in 0..half : x = half + r
    BY <1>2, <2>1 DEF Jitter
  <2> QED
    BY <2>1, <2>2
<1> QED
  BY <1>1, <1>2

\* The policy is one that a destination can have, and the last delay one of
\* those that backoffWithJitter answers for the attempt before.
RetryInv ==
    /\ attempt \in Nat
    /\ attempt > 0 => policy \in [base : Backoffs, max : Backoffs]
    /\ attempt > 1 => delay \in BackoffWithJitter(attempt - 1,
                                    policy.base * Ticks, policy.max * Ticks)

\* Every action preserves RetryInv: NextRetry draws the delay for the attempt
\* that failed, and nothing changes the policy of a job that is enqueued.
LEMMA RetryInductive == RetryInv /\ [RetryNext]_retryVars => RetryInv'
<1> SUFFICES ASSUME RetryInv, [RetryNext]_retryVars PROVE RetryInv'
  BY Zenon
<1>1. ASSUME NEW b \in Backoffs, NEW m \in Backoffs, EnqueueJob(b, m)
      PROVE  RetryInv'
  BY <1>1 DEF EnqueueJob, RetryInv
<1>2. CASE NextRetry
  BY <1>2, RetryAssumption DEF NextRetry, RetryInv
<1>3. CASE UNCHANGED retryVars
  BY <1>3, Zenon DEF retryVars, RetryInv
<1> QED
  BY <1>1, <1>2, <1>3, Zenon DEF RetryNext

\* For every policy, however many attempts fail and however wide a duration
\* is: a job with a positive base and cap waits between half and all of
\* min(base * 2^(n-1), cap) after its n-th attempt.
THEOREM RetryKeepsPolicy ==
    RetryInit /\ [][RetryNext]_retryVars => []RetryWithinPolicy
<1>1. RetryInit => RetryInv
  BY DEF RetryInit, RetryInv
<1>2. RetryInv => RetryWithinPolicy
  <2> SUFFICES ASSUME RetryInv, attempt > 1, policy.base > 0, policy.max > 0
               PROVE  RetryWithinPolicy
    BY Zenon DEF RetryWithinPolicy
  <2> DEFINE base == policy.base * Ticks
             max == policy.max * Ticks
             n == attempt - 1
  <2>1. /\ base \in Nat \ {0} /\ max \in Nat \ {0} /\ n \in Nat \ {0}
        /\ max <= MaxDuration
    <3>1. policy.base \in Backoffs /\ policy.max \in Backoffs
      BY DEF RetryInv
    <3>2. policy.base \in Int /\ policy.max \in Int /\ Ticks \in Nat \ {0}
      BY <3>1, RetryAssumption, Zenon
    <3>3. MinDuration \in Int /\ MaxDuration \in Int
      BY PowerOfTwo, RetryAssumption DEF MinDuration, MaxDuration
    <3>4. max \in MinDuration..MaxDuration
      BY <3>1, RetryAssumption, Zenon
    <3> QED
      BY <3>2, <3>3, <3>4 DEF RetryInv
  <2>2. delay \in BackoffWithJitter(n, base, max)
    BY Zenon DEF RetryInv
  <2> HIDE DEF base, max, n
  <2>3. Scaled(n, base, max) = {Due(n, base, max)}
        /\ Due(n, base, max) \in Nat \ {0}
    BY <2>1, ScaledIsDue, Zenon
  <2>4. delay \in Jitter(Due(n, base, max))
    BY <2>1, <2>2, <2>3 DEF BackoffWithJitter
  <2>5. /\ delay > 0 /\ delay <= Due(n, base, max)
        /\ 2 * delay >= Due(n, base, max) - 1
    BY <2>3, <2>4, JitterHalves, Zenon
  <2>6. n - 1 = attempt - 2
    BY DEF n, RetryInv
  <2>7. Due(n, base, max) =
          LET grown == policy.base * Ticks * 2^(attempt - 2)
              cap == policy.max * Ticks
          IN IF grown < cap THEN grown ELSE cap
    BY <2>6, Zenon DEF Due, base, max
  <2> QED
    BY <2>5, <2>7, Zenon DEF RetryWithinPolicy
<1> QED
  BY <1>1, <1>2, RetryInductive, PTL
-----------------------------------------------------------------------------
(* The event log: types and the trace view *)

DeliveryRows ==
    [event : Ids, status : Settled \cup {"deleted"}, attempt_count : Nat]

LogTypeOK ==
    /\ next_id \in Nat
    /\ open \subseteq Ids
    /\ committed \subseteq Ids
    /\ deliveries \in Seq(DeliveryRows)

\* Every action keeps the types of the tables.
LEMMA LogTypes == LogTypeOK /\ [LogNext]_logVars => LogTypeOK'
<1> SUFFICES ASSUME LogTypeOK, [LogNext]_logVars PROVE LogTypeOK'
  BY Zenon
<1>1. CASE UNCHANGED logTables
  BY <1>1, Zenon DEF logTables, LogTypeOK
<1>2. CASE Insert
  BY <1>2 DEF Insert, LogTypeOK, Ids
<1>3. ASSUME NEW e \in Ids, CommitEvent(e) \/ RollbackEvent(e) \/ Requeue(e)
      PROVE  LogTypeOK'
  <2>1. NewDelivery(e) \in DeliveryRows
    BY Zenon DEF NewDelivery, DeliveryRows, Settled
  <2>2. Append(deliveries, NewDelivery(e)) \in Seq(DeliveryRows)
    BY <2>1 DEF LogTypeOK
  <2> QED
    BY <1>3, <2>2, Zenon DEF CommitEvent, RollbackEvent, Requeue, LogTypeOK
<1>4. ASSUME NEW d \in DeliveryIds, NEW s \in {"failed", "succeeded"},
             Attempt(d, s)
      PROVE  LogTypeOK'
  <2>1. d \in DOMAIN deliveries /\ deliveries[d] \in DeliveryRows
    BY <1>4 DEF Attempt, Exists, LogTypeOK
  <2>2. PICK row : row = [event |-> deliveries[d].event, status |-> s,
                          attempt_count |-> deliveries[d].attempt_count + 1]
    BY Zenon
  <2>3. row \in DeliveryRows
    BY <2>1, <2>2 DEF DeliveryRows, Settled
  <2>4. deliveries' = [deliveries EXCEPT ![d] = row]
    BY <1>4, <2>2, Zenon DEF Attempt
  <2>5. deliveries' \in Seq(DeliveryRows)
    BY <2>1, <2>3, <2>4 DEF LogTypeOK
  <2> QED
    BY <1>4, <2>5, Zenon DEF Attempt, LogTypeOK
<1>5. ASSUME NEW d \in DeliveryIds, DeleteDelivery(d) \/ ResetDeliveryForRecovery(d)
      PROVE  LogTypeOK'
  <2>1. d \in DOMAIN deliveries /\ deliveries[d] \in DeliveryRows
    BY <1>5 DEF DeleteDelivery, ResetDeliveryForRecovery, Exists, LogTypeOK
  <2>2. PICK status \in Settled \cup {"deleted"} :
           deliveries' = [deliveries EXCEPT ![d].status = status]
    BY <1>5, Zenon DEF DeleteDelivery, ResetDeliveryForRecovery, Settled
  <2>3. PICK row : row = [deliveries[d] EXCEPT !.status = status]
    BY Zenon
  <2>4. row \in DeliveryRows
    BY <2>1, <2>3, Zenon DEF DeliveryRows
  <2>5. deliveries' = [deliveries EXCEPT ![d] = row]
    BY <2>2, <2>3, Zenon
  <2>6. deliveries' \in Seq(DeliveryRows)
    BY <2>1, <2>4, <2>5 DEF LogTypeOK
  <2> QED
    BY <1>5, <2>6, Zenon DEF DeleteDelivery, ResetDeliveryForRecovery, LogTypeOK
<1>6. ASSUME \/ \E e \in Ids : TraceEvent(e)
             \/ \E limit \in Limits :
                   \E filter \in {"any"} \cup Settled : FirstPage(filter, limit)
             \/ NextPage \/ Leave
             \/ TraceDeliveries \/ TraceAttempts \/ TraceAnswered
             \/ UNCHANGED logVars
      PROVE  UNCHANGED logTables
  BY <1>6, Zenon
  DEF logTables, TraceEvent, FirstPage, NextPage, Leave, TraceDeliveries,
      TraceAttempts, TraceAnswered, logVars
<1> QED
  BY <1>1, <1>2, <1>3, <1>4, <1>5, <1>6, Zenon DEF LogNext

\* A delivery never goes back: its row stays in the table with its event, its
\* count does not fall, and a deleted one is not there again.
LEMMA RowsGrow ==
    ASSUME LogTypeOK, [LogNext]_logVars, NEW d \in DOMAIN deliveries
    PROVE  /\ d \in DOMAIN deliveries'
           /\ deliveries'[d].event = deliveries[d].event
           /\ deliveries'[d].attempt_count >= deliveries[d].attempt_count
           /\ Exists(d)' => Exists(d)
<1>0. deliveries[d] \in DeliveryRows
  BY DEF LogTypeOK
<1>1. CASE UNCHANGED deliveries
  BY <1>0, <1>1 DEF Exists, DeliveryRows
<1>2. ASSUME NEW e \in Ids, deliveries' = Append(deliveries, NewDelivery(e))
      PROVE  d \in DOMAIN deliveries' /\ deliveries'[d] = deliveries[d]
  BY <1>2 DEF LogTypeOK
<1>3. ASSUME NEW c \in DOMAIN deliveries, NEW row,
             deliveries' = [deliveries EXCEPT ![c] = row],
             row.event = deliveries[c].event,
             row.attempt_count >= deliveries[c].attempt_count,
             Exists(c)
      PROVE  /\ d \in DOMAIN deliveries'
             /\ deliveries'[d].event = deliveries[d].event
             /\ deliveries'[d].attempt_count >= deliveries[d].attempt_count
             /\ Exists(d)' => Exists(d)
  BY <1>0, <1>3 DEF LogTypeOK, Exists, DeliveryRows
<1>4. ASSUME NEW c \in DeliveryIds, NEW s \in {"failed", "succeeded"},
             Attempt(c, s)
      PROVE  /\ d \in DOMAIN deliveries'
             /\ deliveries'[d].event = deliveries[d].event
             /\ deliveries'[d].attempt_count >= deliveries[d].attempt_count
             /\ Exists(d)' => Exists(d)
  <2>1. PICK row : row = [event |-> deliveries[c].event, status |-> s,
                          attempt_count |-> deliveries[c].attempt_count + 1]
    BY Zenon
  <2>2. /\ Exists(c) /\ c \in DOMAIN deliveries
        /\ deliveries' = [deliveries EXCEPT ![c] = row]
    BY <1>4, <2>1, Zenon DEF Attempt, Exists
  <2>3. deliveries[c] \in DeliveryRows
    BY <2>2 DEF LogTypeOK
  <2>4. /\ row.event = deliveries[c].event
        /\ row.attempt_count >= deliveries[c].attempt_count
    BY <2>1, <2>3 DEF DeliveryRows
  <2> QED
    BY <1>3, <2>2, <2>4, Zenon
<1>5. ASSUME NEW c \in DeliveryIds, DeleteDelivery(c) \/ ResetDeliveryForRecovery(c)
      PROVE  /\ d \in DOMAIN deliveries'
             /\ deliveries'[d].event = deliveries[d].event
             /\ deliveries'[d].attempt_count >= deliveries[d].attempt_count
             /\ Exists(d)' => Exists(d)
  <2>1. PICK status, row :
           /\ row = [deliveries[c] EXCEPT !.status = status]
           /\ Exists(c) /\ c \in DOMAIN deliveries
           /\ deliveries' = [deliveries EXCEPT ![c].status = status]
    BY <1>5, Zenon DEF DeleteDelivery, ResetDeliveryForRecovery, Exists
  <2>2. /\ Exists(c) /\ c \in DOMAIN deliveries
        /\ deliveries' = [deliveries EXCEPT ![c] = row]
    BY <2>1, Zenon
  <2>3. deliveries[c] \in DeliveryRows
    BY <2>2 DEF LogTypeOK
  <2>4. /\ row.event = deliveries[c].event
        /\ row.attempt_count >= deliveries[c].attempt_count
    BY <2>1, <2>3 DEF DeliveryRows
  <2> QED
    BY <1>3, <2>2, <2>4, Zenon
<1>6. \/ UNCHANGED deliveries
      \/ \E e \in Ids : deliveries' = Append(deliveries, NewDelivery(e))
      \/ \E c \in DeliveryIds : DeleteDelivery(c) \/ ResetDeliveryForRecovery(c)
      \/ \E c \in DeliveryIds : \E s \in {"failed", "succeeded"} : Attempt(c, s)
  BY Zenon
  DEF LogNext, Insert, CommitEvent, RollbackEvent, Requeue, logTables,
      TraceEvent, FirstPage, NextPage, Leave, TraceDeliveries,
      TraceAttempts, TraceAnswered, logVars
<1>7. ASSUME deliveries'[d] = deliveries[d], d \in DOMAIN deliveries'
      PROVE  /\ deliveries'[d].event = deliveries[d].event
             /\ deliveries'[d].attempt_count >= deliveries[d].attempt_count
             /\ Exists(d)' => Exists(d)
  BY <1>0, <1>7 DEF Exists, DeliveryRows
<1> QED
  BY <1>1, <1>2, <1>4, <1>5, <1>6, <1>7, Zenon

\* The attempt numbers that the answer shows for a delivery.
Numbers(d) == {a[2] : a \in {b \in trace.attempts : b[1] = d[1]}}

\* The trace has read what only grows: until the attempts are read, no count
\* it has read is above the delivery's; then it shows them all.
TraceInv ==
    /\ trace.at = "deliveries" => \A d \in trace.deliveries :
          /\ d[1] \in DOMAIN deliveries
          /\ deliveries[d[1]].event = trace.event
          /\ d[2] \in Nat
          /\ d[2] <= deliveries[d[1]].attempt_count
    /\ trace.at = "done" => \A d \in trace.deliveries :
          /\ d[1] \in DOMAIN deliveries
          /\ Exists(d[1]) => \E n \in Nat : d[2] \in 0..n /\ Numbers(d) = 1..n

\* Every action preserves TraceInv: the second query finds the deliveries of
\* the first that are still there, with at least the attempts they had.
LEMMA TraceStep ==
    LogTypeOK /\ TraceInv /\ [LogNext]_logVars => TraceInv'
<1> SUFFICES ASSUME LogTypeOK, TraceInv, [LogNext]_logVars
             PROVE  TraceInv'
  BY Zenon
<1>1. CASE UNCHANGED trace
  <2>1. ASSUME trace.at = "deliveries", NEW d \in trace.deliveries
        PROVE  /\ d[1] \in DOMAIN deliveries'
               /\ deliveries'[d[1]].event = trace.event
               /\ d[2] \in Nat
               /\ d[2] <= deliveries'[d[1]].attempt_count
    <3>1. /\ d[1] \in DOMAIN deliveries
          /\ deliveries[d[1]].event = trace.event
          /\ d[2] \in Nat
          /\ d[2] <= deliveries[d[1]].attempt_count
      BY <2>1, Zenon DEF TraceInv
    <3>2. /\ d[1] \in DOMAIN deliveries'
          /\ deliveries'[d[1]].event = deliveries[d[1]].event
          /\ deliveries'[d[1]].attempt_count >= deliveries[d[1]].attempt_count
      BY <3>1, RowsGrow, Zenon
    <3>3. /\ deliveries[d[1]].attempt_count \in Nat
          /\ deliveries'[d[1]].attempt_count \in Nat
      <4>1. deliveries[d[1]] \in DeliveryRows
        BY <3>1 DEF LogTypeOK
      <4>2. deliveries'[d[1]] \in DeliveryRows
        BY <3>2, LogTypes DEF LogTypeOK
      <4> QED
        BY <4>1, <4>2, Zenon DEF DeliveryRows
    <3> QED
      BY <3>1, <3>2, <3>3
  <2>2. ASSUME trace.at = "done", NEW d \in trace.deliveries
        PROVE  /\ d[1] \in DOMAIN deliveries'
               /\ Exists(d[1])' =>
                     \E n \in Nat : d[2] \in 0..n /\ Numbers(d) = 1..n
    BY <2>2, RowsGrow, Zenon DEF TraceInv
  <2> QED
    BY <1>1, <2>1, <2>2, Zenon DEF TraceInv, Numbers
<1>2. CASE TraceDeliveries
  <2>1. /\ trace'.at = "deliveries" /\ trace'.event = trace.event
        /\ trace'.deliveries = {<<d, deliveries[d].attempt_count>> :
                                   d \in ListEventDeliveries(trace.event)}
        /\ deliveries' = deliveries
    BY <1>2, Zenon DEF TraceDeliveries, logTables
  <2>2. ASSUME NEW p \in trace'.deliveries
        PROVE  /\ p[1] \in DOMAIN deliveries
               /\ deliveries[p[1]].event = trace.event
               /\ p[2] \in Nat
               /\ p[2] <= deliveries[p[1]].attempt_count
    <3>1. PICK d \in ListEventDeliveries(trace.event) :
             p = <<d, deliveries[d].attempt_count>>
      BY <2>1, <2>2, Zenon
    <3>2. /\ d \in DOMAIN deliveries /\ deliveries[d].event = trace.event
          /\ deliveries[d] \in DeliveryRows
      BY <3>1 DEF ListEventDeliveries, LogTypeOK
    <3> QED
      BY <3>1, <3>2 DEF DeliveryRows
  <2> QED
    BY <2>1, <2>2, Zenon DEF TraceInv
<1>3. CASE TraceAttempts
  <2>1. /\ trace.at = "deliveries" /\ trace'.at = "done"
        /\ trace'.deliveries = trace.deliveries
        /\ trace'.attempts = {a \in ListEventDeliveryAttempts(trace.event) :
                                 \E d \in trace.deliveries : d[1] = a[1]}
        /\ deliveries' = deliveries
    BY <1>3, Zenon DEF TraceAttempts, logTables
  <2>2. ASSUME NEW d \in trace.deliveries, Exists(d[1])
        PROVE  \E n \in Nat : d[2] \in 0..n /\ Numbers(d)' = 1..n
    <3>1. PICK c : c = d[1]
      BY Zenon
    <3>2. /\ c \in DOMAIN deliveries /\ deliveries[c].event = trace.event
          /\ d[2] \in Nat /\ d[2] <= deliveries[c].attempt_count
      BY <2>1, <3>1, Zenon DEF TraceInv
    <3>3. PICK n \in Nat : n = deliveries[c].attempt_count
      <4>1. deliveries[c] \in DeliveryRows
        BY <3>2 DEF LogTypeOK
      <4> QED
        BY <4>1, Zenon DEF DeliveryRows
    <3>4. c \in ListEventDeliveries(trace.event)
      BY <2>2, <3>1, <3>2, Zenon DEF ListEventDeliveries
    <3>5. ASSUME NEW i \in 1..n PROVE i \in Numbers(d)'
      <4>1. <<c, i>> \in ListEventDeliveryAttempts(trace.event)
        <5>1. <<c, i>> \in {<<c, m>> : m \in 1..deliveries[c].attempt_count}
          BY <3>3, Zenon
        <5> QED
          BY <3>4, <5>1, Zenon DEF ListEventDeliveryAttempts
      <4>2. <<c, i>>[1] = c /\ <<c, i>>[2] = i
        BY Zenon
      <4>3. <<c, i>> \in trace'.attempts
        BY <2>1, <3>1, <4>1, <4>2, Zenon
      <4>4. <<c, i>> \in {b \in trace'.attempts : b[1] = d[1]}
        BY <3>1, <4>2, <4>3, Zenon
      <4> QED
        BY <4>2, <4>4, Zenon DEF Numbers
    <3>6. ASSUME NEW i \in Numbers(d)' PROVE i \in 1..n
      <4>1. PICK a \in trace'.attempts : a[1] = c /\ a[2] = i
        BY <3>1, <3>6, Zenon DEF Numbers
      <4>2. a \in ListEventDeliveryAttempts(trace.event)
        BY <2>1, <4>1, Zenon
      <4>3. PICK e \in ListEventDeliveries(trace.event) :
               a \in {<<e, m>> : m \in 1..deliveries[e].attempt_count}
        BY <4>2, Zenon DEF ListEventDeliveryAttempts
      <4>4. PICK m \in 1..deliveries[e].attempt_count : a = <<e, m>>
        BY <4>3, Zenon
      <4>5. a[1] = e /\ a[2] = m
        BY <4>4, Zenon
      <4> QED
        BY <3>3, <4>1, <4>4, <4>5, Zenon
    <3>7. Numbers(d)' = 1..n
      BY <3>5, <3>6, Zenon
    <3>8. d[2] \in 0..n
      BY <3>2, <3>3
    <3> QED
      BY <3>7, <3>8, Zenon
  <2>3. \A d \in trace.deliveries : d[1] \in DOMAIN deliveries
    BY <2>1, Zenon DEF TraceInv
  <2>4. ASSUME NEW d \in trace'.deliveries
        PROVE  /\ d[1] \in DOMAIN deliveries'
               /\ Exists(d[1])' =>
                     \E n \in Nat : d[2] \in 0..n /\ Numbers(d)' = 1..n
    BY <2>1, <2>2, <2>3, Zenon DEF Exists
  <2> QED
    BY <2>1, <2>4, Zenon DEF TraceInv
<1>4. CASE (\E e \in Ids : TraceEvent(e)) \/ TraceAnswered
  <2>1. trace'.at \in {"event", "idle"}
    BY <1>4 DEF TraceEvent, TraceAnswered, NoTrace
  <2> QED
    BY <2>1, Zenon DEF TraceInv
<1>5. \/ UNCHANGED trace
      \/ TraceDeliveries \/ TraceAttempts \/ TraceAnswered
      \/ \E e \in Ids : TraceEvent(e)
  BY Zenon
  DEF LogNext, Insert, CommitEvent, RollbackEvent, Requeue, Attempt,
      ResetDeliveryForRecovery, DeleteDelivery, FirstPage, NextPage, Leave, readers, logVars
<1> QED
  BY <1>1, <1>2, <1>3, <1>4, <1>5, Zenon

\* The trace view shows at least as many attempts of a delivery as its
\* attempt_count says, numbered from 1 without a gap, whatever is attempted,
\* replayed or deleted between its queries; only of a delivery that was
\* deleted meanwhile it may show fewer.
THEOREM TraceShowsAttempts ==
    LogInit /\ [][LogNext]_logVars => []TraceNotBehind
<1>1. LogInit => LogTypeOK /\ TraceInv
  BY DEF LogInit, LogTypeOK, TraceInv, NoTrace
<1>2. TraceInv => TraceNotBehind
  <2> SUFFICES ASSUME TraceInv, trace.at = "done", NEW d \in trace.deliveries,
                      Exists(d[1])
               PROVE  /\ Numbers(d) = 1..Cardinality(Numbers(d))
                      /\ Cardinality(Numbers(d)) >= d[2]
    BY Zenon DEF TraceNotBehind, Numbers
  <2>1. PICK n \in Nat : d[2] \in 0..n /\ Numbers(d) = 1..n
    BY Zenon DEF TraceInv
  <2>2. Cardinality(1..n) = n
    BY FS_Interval
  <2> QED
    BY <2>1, <2>2
<1> QED
  BY <1>1, <1>2, LogTypes, TraceStep, PTL
-----------------------------------------------------------------------------
(* The event log: paging *)

\* Newest first, without a repetition.
Sorted(q) == \A i, j \in 1..Len(q) : i < j => q[i] > q[j]

\* How many events of the set are newer.
Newer(s, e) == Cardinality({f \in s : f > e})

\* An older event has more newer ones than a newer event.
LEMMA NewerGrows ==
    ASSUME NEW s \in SUBSET Int, IsFiniteSet(s), NEW e \in s, NEW f \in s, e < f
    PROVE  /\ Newer(s, e) \in Nat /\ Newer(s, f) \in Nat
           /\ Newer(s, f) < Newer(s, e)
<1> DEFINE A == {g \in s : g > e}
           B == {g \in s : g > f}
<1>1. A \in SUBSET s /\ B \in SUBSET A /\ f \in A /\ f \notin B
  <2>1. e \in Int /\ f \in Int /\ ~(f > f) /\ f > e
    OBVIOUS
  <2>2. \A g \in s : g > f => g > e
    BY <2>1
  <2> QED
    BY <2>1, <2>2, Zenon
<1>2. IsFiniteSet(A)
  BY <1>1, FS_Subset, Zenon
<1>3. IsFiniteSet(B) /\ Cardinality(B) <= Cardinality(A)
      /\ (Cardinality(A) = Cardinality(B) => A = B)
  BY <1>1, <1>2, FS_Subset, Zenon
<1>4. Cardinality(A) \in Nat /\ Cardinality(B) \in Nat
  BY <1>2, <1>3, FS_CardinalityType, Zenon
<1>5. Cardinality(A) # Cardinality(B)
  BY <1>1, <1>3, Zenon
<1>6. Cardinality(B) < Cardinality(A)
  <2> HIDE DEF A, B
  <2> QED
    BY <1>3, <1>4, <1>5
<1> QED
  BY <1>4, <1>6, Zenon DEF Newer

\* Every finite set of ids has its descending order: an event stands in the
\* place that the number of newer ones gives it.
LEMMA OrderExists ==
    ASSUME NEW s \in SUBSET Int, IsFiniteSet(s)
    PROVE  \E rows \in [1..Cardinality(s) -> s] :
              \A i, j \in 1..Cardinality(s) : i < j => rows[i] > rows[j]
<1>1. PICK n \in Nat : n = Cardinality(s)
  BY FS_CardinalityType, Zenon
<1>2. IsFiniteSet(1..n) /\ Cardinality(1..n) = n
  BY FS_Interval
<1>3. ASSUME NEW e \in s
      PROVE  Newer(s, e) \in Int /\ Newer(s, e) + 1 \in 1..n
  <2>1. {f \in s : f > e} \in SUBSET (s \ {e})
    OBVIOUS
  <2>2. IsFiniteSet(s \ {e}) /\ Cardinality(s \ {e}) = n - 1
    BY <1>1, <1>3, FS_RemoveElement, Zenon
  <2>3. Newer(s, e) <= n - 1
    BY <2>1, <2>2, FS_Subset DEF Newer
  <2>4. Newer(s, e) \in Nat
    BY <2>1, <2>2, FS_Subset, FS_CardinalityType, Zenon DEF Newer
  <2> QED
    BY <1>1, <2>3, <2>4
<1> DEFINE place == [e \in s |-> Newer(s, e) + 1]
<1>4. ASSUME NEW e \in s, NEW f \in s, place[e] = place[f] PROVE e = f
  <2>1. Newer(s, e) = Newer(s, f)
    <3>1. Newer(s, e) + 1 = Newer(s, f) + 1
      BY <1>4, Zenon
    <3>2. Newer(s, e) \in Int /\ Newer(s, f) \in Int
      BY <1>3, Zenon
    <3> QED
      BY <3>1, <3>2
  <2>2. ~(e < f) /\ ~(f < e)
    BY <2>1, NewerGrows
  <2> QED
    BY <2>2
<1>5. place \in Injection(s, 1..n)
  <2>1. place \in [s -> 1..n]
    BY <1>3, Zenon
  <2>2. IsInjective(place)
    BY <1>4, Zenon DEF IsInjective
  <2> QED
    BY <2>1, <2>2, Zenon DEF Injection
<1>6. place \in Surjection(s, 1..n)
  <2> HIDE DEF place
  <2> QED
    BY <1>1, <1>2, <1>5, FS_Injection, Zenon
<1>7. \A i \in 1..n : \E e \in s : place[e] = i
  <2> HIDE DEF place
  <2> QED
    BY <1>6, Zenon DEF Surjection
<1> DEFINE rows == [i \in 1..n |-> CHOOSE e \in s : place[e] = i]
<1>8. \A i \in 1..n : rows[i] \in s /\ place[rows[i]] = i
  <2> HIDE DEF place
  <2> QED
    BY <1>7, Zenon
<1>9. rows \in [1..n -> s]
  <2>1. \A i \in 1..n : rows[i] \in s
    BY <1>8, Zenon
  <2> QED
    BY <2>1, Zenon
<1>10. ASSUME NEW i \in 1..n, NEW j \in 1..n, i < j PROVE rows[i] > rows[j]
  <2>1. PICK e \in s : e = rows[i] /\ Newer(s, e) + 1 = i
    BY <1>8, Zenon
  <2>2. PICK f \in s : f = rows[j] /\ Newer(s, f) + 1 = j
    BY <1>8, Zenon
  <2>3. Newer(s, e) \in Nat /\ Newer(s, f) \in Nat
    <3>1. {g \in s : g > e} \in SUBSET s /\ {g \in s : g > f} \in SUBSET s
      BY Zenon
    <3> QED
      BY <3>1, FS_Subset, FS_CardinalityType, Zenon DEF Newer
  <2>4. Newer(s, e) < Newer(s, f)
    <3> HIDE DEF rows
    <3> QED
      BY <1>10, <2>1, <2>2, <2>3
  <2>5. e # f /\ ~(e < f)
    BY <2>3, <2>4, NewerGrows
  <2>6. e > f
    BY <2>5
  <2> QED
    BY <2>1, <2>2, <2>6, Zenon
<1> HIDE DEF rows
<1> QED
  BY <1>1, <1>9, <1>10, Zenon

\* ORDER BY id DESC returns every row once, newest first.
LEMMA DescendingRows ==
    ASSUME NEW s \in SUBSET Int, IsFiniteSet(s)
    PROVE  /\ Descending(s) \in Seq(s)
           /\ Sorted(Descending(s))
           /\ \A e \in s : \E i \in 1..Len(Descending(s)) : Descending(s)[i] = e
<1>1. PICK n \in Nat : n = Cardinality(s)
  BY FS_CardinalityType, Zenon
<1>2. PICK rows : rows = Descending(s)
  BY Zenon
<1>3. /\ rows \in [1..n -> s]
      /\ \A i, j \in 1..n : i < j => rows[i] > rows[j]
  BY <1>1, <1>2, OrderExists, Zenon DEF Descending
<1>4. rows \in Seq(s) /\ Len(rows) = n
  BY <1>3
<1>5. ASSUME NEW i \in 1..n, NEW j \in 1..n, rows[i] = rows[j] PROVE i = j
  <2>1. rows[i] \in Int /\ rows[j] \in Int
    BY <1>3, Zenon
  <2> QED
    BY <1>3, <1>5, <2>1
<1>6. rows \in Injection(1..n, s)
  BY <1>3, <1>5, Zenon DEF Injection, IsInjective
<1>7. IsFiniteSet(1..n) /\ Cardinality(1..n) = n
  BY FS_Interval
<1>8. rows \in Surjection(1..n, s)
  BY <1>1, <1>6, <1>7, FS_Injection, Zenon
<1>9. \A e \in s : \E i \in 1..n : rows[i] = e
  BY <1>8, Zenon DEF Surjection
<1> QED
  BY <1>2, <1>3, <1>4, <1>9, Zenon DEF Sorted

\* The lesser of two numbers.
LEMMA MinOfTwo ==
    ASSUME NEW a \in Int, NEW b \in Int
    PROVE  Min({a, b}) = IF a <= b THEN a ELSE b
<1>1. PICK m \in {a, b} : m = IF a <= b THEN a ELSE b
  BY Zenon
<1>2. \A y \in {a, b} : m <= y
  BY <1>1
<1>3. \A x \in {a, b} : (\A y \in {a, b} : x <= y) => x = m
  BY <1>1
<1> QED
  BY <1>1, <1>2, <1>3, Zenon DEF Min

\* The first rows of a sequence.
LEMMA FirstRows ==
    ASSUME NEW S, NEW q \in Seq(S), NEW m \in Nat, m <= Len(q), Sorted(q)
    PROVE  /\ SubSeq(q, 1, m) \in Seq(S) /\ Len(SubSeq(q, 1, m)) = m
           /\ \A i \in 1..m : SubSeq(q, 1, m)[i] = q[i]
           /\ Sorted(SubSeq(q, 1, m))
<1>1. PICK p : p = SubSeq(q, 1, m)
  BY Zenon
<1>2. \A i \in 1..m : i \in 1..Len(q) /\ q[i] \in S
  OBVIOUS
<1>3. p \in Seq(S) /\ Len(p) = m /\ \A i \in 1..m : p[i] = q[i]
  BY <1>1, <1>2, SubSeqProperties
<1>4. Sorted(p)
  BY <1>2, <1>3, Zenon DEF Sorted
<1> QED
  BY <1>1, <1>3, <1>4, Zenon

\* The events that a page is taken from.
Found(filter, cursor) ==
    {e \in committed : /\ Matches(deliveries, e, filter)
                       /\ cursor = 0 \/ e < cursor}

\* What a sequence has at a position is in its range.
LEMMA ElementInRange ==
    ASSUME NEW S, NEW s \in Seq(S), NEW i \in 1..Len(s)
    PROVE  s[i] \in Range(s)
BY DEF Range

\* A page has the newest of them; without a next cursor it has them all, and
\* otherwise the ones it leaves are below the cursor, which is its last row.
LEMMA PageRows ==
    ASSUME LogTypeOK, NEW filter, NEW cursor \in Nat, NEW limit \in Limits,
           NEW page, page = Page(filter, cursor, limit)
    PROVE  /\ page.events \in Seq(Found(filter, cursor))
           /\ Sorted(page.events)
           /\ page.next = 0 => Found(filter, cursor) \subseteq Range(page.events)
           /\ page.next # 0 =>
                 /\ Len(page.events) > 0
                 /\ page.next = page.events[Len(page.events)]
                 /\ \A e \in Found(filter, cursor) :
                       e \in Range(page.events) \/ e < page.next
<1>1. PICK found \in SUBSET Ids : found = Found(filter, cursor)
  BY Zenon DEF Found, LogTypeOK
<1>2. found \in SUBSET Nat /\ 0 \notin found /\ IsFiniteSet(found)
  <2>1. MaxEvents \in Nat
    BY EventLogAssumption, Zenon
  <2>2. IsFiniteSet(Ids)
    BY <2>1, FS_Interval DEF Ids
  <2>3. Ids \in SUBSET Nat /\ 0 \notin Ids
    BY <2>1 DEF Ids
  <2> QED
    BY <2>2, <2>3, FS_Subset, Zenon
<1>3. PICK rows \in Seq(found) :
         /\ rows = Descending(found)
         /\ Sorted(rows)
         /\ \A e \in found : \E i \in 1..Len(rows) : rows[i] = e
  <2>1. found \in SUBSET Int
    BY <1>2
  <2> QED
    BY <1>2, <2>1, DescendingRows, Zenon
<1>4. PICK n \in Nat : n = Len(rows)
  BY <1>3
<1>5. PICK size \in Nat \ {0} : size = PageSize(limit)
  BY MinOfTwo, EventLogAssumption DEF PageSize
<1>6. PICK m \in Nat :
         /\ m = Min({size + 1, n})
         /\ m = IF size + 1 <= n THEN size + 1 ELSE n
  BY <1>4, <1>5, MinOfTwo
<1>7. PICK asked : /\ asked = ListEvents(filter, cursor, size + 1)
                   /\ asked = SubSeq(rows, 1, m)
  BY <1>1, <1>3, <1>4, <1>6, Zenon DEF ListEvents, Found
<1>8. /\ asked \in Seq(found) /\ Len(asked) = m
      /\ \A i \in 1..m : asked[i] = rows[i]
      /\ Sorted(asked)
  <2>1. m <= Len(rows)
    BY <1>4, <1>5, <1>6
  <2>2. Sorted(rows) /\ asked = SubSeq(rows, 1, m)
    BY <1>3, <1>7, Zenon
  <2>3. /\ SubSeq(rows, 1, m) \in Seq(found) /\ Len(SubSeq(rows, 1, m)) = m
        /\ \A i \in 1..m : SubSeq(rows, 1, m)[i] = rows[i]
        /\ Sorted(SubSeq(rows, 1, m))
    BY <2>1, <2>2, FirstRows, Zenon
  <2> QED
    BY <2>2, <2>3, Zenon
<1>9. page = [events |-> IF m > size THEN SubSeq(asked, 1, size) ELSE asked,
              next |-> IF m > size THEN asked[size] ELSE 0]
  BY <1>5, <1>7, <1>8, Zenon DEF Page
<1>10. CASE m > size
  <2>1. PICK events : events = SubSeq(asked, 1, size)
    BY Zenon
  <2>2. /\ events \in Seq(found) /\ Len(events) = size
        /\ \A i \in 1..size : events[i] = rows[i]
        /\ Sorted(events)
    <3>1. size \in Nat /\ size <= Len(asked) /\ \A i \in 1..size : i \in 1..m
      BY <1>5, <1>6, <1>8, <1>10
    <3>2. asked \in Seq(found) /\ Sorted(asked) /\ size \in Nat
          /\ size <= Len(asked)
      BY <1>8, <3>1, Zenon
    <3>3. /\ SubSeq(asked, 1, size) \in Seq(found)
          /\ Len(SubSeq(asked, 1, size)) = size
          /\ Sorted(SubSeq(asked, 1, size))
          /\ \A i \in 1..size : SubSeq(asked, 1, size)[i] = asked[i]
      BY <3>2, FirstRows
    <3> QED
      BY <1>8, <2>1, <3>1, <3>3, Zenon
  <2>3. page.events = events /\ page.next = rows[size] /\ rows[size] \in found
    <3>1. size \in 1..m /\ size \in 1..n
      BY <1>5, <1>6, <1>10
    <3>2. rows[size] \in found /\ asked[size] = rows[size]
      BY <1>3, <1>4, <1>8, <3>1
    <3>3. page = [events |-> events, next |-> rows[size]]
      BY <1>9, <1>10, <2>1, <3>2, Zenon
    <3> QED
      BY <3>2, <3>3
  <2>4. ASSUME NEW e \in found
        PROVE  e \in Range(events) \/ e < rows[size]
    <3>1. PICK i \in 1..n : rows[i] = e
      BY <1>3, <1>4, Zenon
    <3>2. CASE i <= size
      BY <2>2, <3>1, <3>2 DEF Range
    <3>3. CASE i > size
      <4>1. rows[size] > rows[i]
        BY <1>3, <1>4, <1>5, <3>1, <3>3 DEF Sorted
      <4> QED
        BY <1>2, <2>3, <3>1, <4>1, Zenon
    <3> QED
      BY <3>1, <3>2, <3>3
  <2>5. /\ rows[size] # 0 /\ Len(events) > 0
        /\ rows[size] = events[Len(events)]
    BY <1>2, <1>5, <2>2, <2>3
  <2> QED
    BY <1>1, <2>2, <2>3, <2>4, <2>5, Zenon
<1>11. CASE ~(m > size)
  <2>1. m = n
    BY <1>5, <1>6, <1>11
  <2>2. page.events = asked /\ page.next = 0
    BY <1>9, <1>11
  <2>3. ASSUME NEW e \in found PROVE e \in Range(asked)
    <3>1. PICK i \in 1..Len(rows) : rows[i] = e
      BY <1>3, Zenon
    <3>2. i \in 1..Len(asked) /\ asked[i] = e
      BY <1>4, <1>8, <2>1, <3>1, Zenon
    <3> QED
      BY <1>8, <3>2, ElementInRange, Zenon
  <2> QED
    BY <1>1, <1>8, <2>2, <2>3, Zenon
<1> QED
  BY <1>10, <1>11, Zenon

\* Strengthening of PagingComplete: the cursor is the oldest event seen, and
\* what the client has not seen of the events it must see is below it.
WalkInv ==
    walk.on =>
        /\ walk.seen \in Seq(Ids) /\ Sorted(walk.seen)
        /\ walk.limit \in Limits
        /\ walk.more <=> walk.cursor # 0
        /\ walk.more => /\ Len(walk.seen) > 0
                        /\ walk.cursor = walk.seen[Len(walk.seen)]
        /\ throughout \subseteq committed
        /\ \A e \in throughout :
              /\ Matches(deliveries, e, walk.filter)
              /\ e \in Range(walk.seen) \/ (walk.more /\ e < walk.cursor)

\* What a page adds to what was seen before it.
LEMMA TurnStep ==
    ASSUME LogTypeOK, NEW filter, NEW limit \in Limits, NEW cursor \in Nat,
           NEW seen \in Seq(Ids), Sorted(seen), NEW due \in SUBSET committed,
           cursor = 0 => seen = <<>>,
           cursor # 0 => Len(seen) > 0 /\ cursor = seen[Len(seen)],
           \A e \in due : /\ Matches(deliveries, e, filter)
                          /\ e \in Range(seen) \/ cursor = 0 \/ e < cursor,
           Turn(filter, cursor, limit, seen), throughout' = due,
           UNCHANGED <<committed, deliveries>>
    PROVE  WalkInv'
<1>1. PICK page : page = Page(filter, cursor, limit)
  BY Zenon
<1>2. PICK found : found = Found(filter, cursor)
  BY Zenon
<1>3. PICK events \in Seq(found) : events = page.events
  BY <1>1, <1>2, PageRows, Zenon
<1>4. PICK next : next = page.next
  BY Zenon
<1>5. /\ Sorted(events)
      /\ next = 0 => found \subseteq Range(events)
      /\ next # 0 => /\ Len(events) > 0 /\ next = events[Len(events)]
                     /\ \A e \in found : e \in Range(events) \/ e < next
  BY <1>1, <1>2, <1>3, <1>4, PageRows, Zenon
<1>6. found \in SUBSET Ids /\ Ids \in SUBSET Nat
  <2>1. found \in SUBSET Ids
    BY <1>2, Zenon DEF Found, LogTypeOK
  <2>2. Ids \in SUBSET Nat
    BY EventLogAssumption DEF Ids
  <2> QED
    BY <2>1, <2>2, Zenon
<1>7. /\ walk'.on /\ walk'.filter = filter /\ walk'.limit = limit
      /\ walk'.cursor = next /\ walk'.seen = seen \o events
      /\ walk'.more = (next # 0)
  BY <1>1, <1>3, <1>4, Zenon DEF Turn
<1>8. events \in Seq(Ids)
  <2>1. found \subseteq Ids
    BY <1>6, Zenon
  <2> QED
    BY <2>1, SeqMonotonic, Zenon
<1>9. PICK all \in Seq(Ids) :
         /\ all = seen \o events /\ Len(all) = Len(seen) + Len(events)
         /\ \A i \in 1..Len(all) :
               all[i] = IF i <= Len(seen) THEN seen[i] ELSE events[i - Len(seen)]
  <2>1. PICK all : all = seen \o events
    BY Zenon
  <2>2. /\ all \in Seq(Ids) /\ Len(all) = Len(seen) + Len(events)
        /\ \A i \in 1..(Len(seen) + Len(events)) :
              all[i] = IF i <= Len(seen) THEN seen[i] ELSE events[i - Len(seen)]
    BY <1>8, <2>1, ConcatProperties
  <2> QED
    BY <2>1, <2>2, Zenon
<1>10. Sorted(all)
  <2> SUFFICES ASSUME NEW i \in 1..Len(all), NEW j \in 1..Len(all), i < j
               PROVE  all[i] > all[j]
    BY Zenon DEF Sorted
  <2>1. CASE j <= Len(seen)
    BY <1>9, <2>1 DEF Sorted
  <2>2. CASE i > Len(seen)
    <3>1. /\ i - Len(seen) \in 1..Len(events) /\ j - Len(seen) \in 1..Len(events)
          /\ i - Len(seen) < j - Len(seen)
      BY <1>3, <1>9, <2>2
    <3>2. events[i - Len(seen)] > events[j - Len(seen)]
      BY <1>5, <3>1, Zenon DEF Sorted
    <3> QED
      BY <1>9, <2>2, <3>2
  <2>3. CASE i <= Len(seen) /\ j > Len(seen)
    <3>1. /\ all[i] = seen[i] /\ all[j] = events[j - Len(seen)]
          /\ j - Len(seen) \in 1..Len(events)
      BY <1>3, <1>9, <2>3
    <3>2. all[j] \in found
      BY <1>3, <3>1
    <3>3. Len(seen) > 0 /\ cursor # 0 /\ cursor = seen[Len(seen)]
      BY <2>3
    <3>4. all[j] < cursor
      BY <1>2, <3>2, <3>3, Zenon DEF Found
    <3>5. seen[i] = seen[Len(seen)] \/ seen[i] > seen[Len(seen)]
      BY <2>3, <3>3 DEF Sorted
    <3>6. seen[i] \in Nat /\ all[j] \in Nat
      <4>1. seen[i] \in Ids /\ all[j] \in Ids
        BY <1>9, <2>3
      <4> QED
        BY <1>6, <4>1, Zenon
    <3>7. /\ all[i] = cursor \/ all[i] > cursor
          /\ all[i] \in Nat
      BY <3>1, <3>3, <3>5, <3>6, Zenon
    <3> QED
      BY <3>4, <3>6, <3>7
  <2> QED
    BY <1>9, <2>1, <2>2, <2>3
<1>11. Range(seen) \subseteq Range(all) /\ Range(events) \subseteq Range(all)
  <2>1. ASSUME NEW i \in 1..Len(seen) PROVE seen[i] \in Range(all)
    BY <1>9 DEF Range
  <2>2. ASSUME NEW i \in 1..Len(events) PROVE events[i] \in Range(all)
    <3>1. i + Len(seen) \in 1..Len(all) /\ all[i + Len(seen)] = events[i]
      BY <1>3, <1>9
    <3>2. DOMAIN all = 1..Len(all)
      BY <1>9
    <3> QED
      BY <3>1, <3>2, Zenon DEF Range
  <2>3. DOMAIN seen = 1..Len(seen) /\ DOMAIN events = 1..Len(events)
    BY <1>3
  <2> QED
    BY <2>1, <2>2, <2>3, Zenon DEF Range
<1>12. ASSUME next # 0
       PROVE  Len(all) > 0 /\ next = all[Len(all)]
  BY <1>3, <1>5, <1>9, <1>12
<1>13. ASSUME NEW e \in due
       PROVE  /\ Matches(deliveries, e, filter)
              /\ e \in Range(all) \/ (next # 0 /\ e < next)
  <2>1. Matches(deliveries, e, filter)
    BY <1>13, Zenon
  <2>2. CASE e \in Range(seen)
    <3>1. e \in Range(all)
      BY <1>11, <2>2, Zenon
    <3> QED
      BY <2>1, <3>1, Zenon
  <2>3. CASE e \notin Range(seen)
    <3>1. e \in found
      BY <1>2, <2>3, Zenon DEF Found
    <3>2. e \in Range(events) \/ (next # 0 /\ e < next)
      BY <1>5, <3>1, Zenon
    <3>3. Range(events) \subseteq Range(all)
      BY <1>11, Zenon
    <3> QED
      BY <2>1, <3>2, <3>3, Zenon
  <2> QED
    BY <2>2, <2>3, Zenon
<1> QED
  BY <1>7, <1>9, <1>10, <1>12, <1>13, Zenon DEF WalkInv, Matches

\* A row of the table that is new or as it was matches what matched before.
LEMMA MatchesKept ==
    ASSUME LogTypeOK, NEW row, NEW e, NEW filter,
           deliveries' = Append(deliveries, row),
           Matches(deliveries, e, filter)
    PROVE  Matches(deliveries', e, filter)
<1>1. \A d \in DOMAIN deliveries :
         d \in DOMAIN deliveries' /\ deliveries'[d] = deliveries[d]
  BY DEF LogTypeOK
<1> QED
  BY <1>1, Zenon DEF Matches

\* Every action preserves WalkInv: what is committed or changed behind the
\* client's back takes nothing away from what it has yet to see, unless it no
\* longer matches.
LEMMA WalkStep == LogTypeOK /\ WalkInv /\ [LogNext]_logVars => WalkInv'
<1> SUFFICES ASSUME LogTypeOK, WalkInv, [LogNext]_logVars
             PROVE  WalkInv'
  BY Zenon
<1>1. ASSUME UNCHANGED walk, committed \subseteq committed',
             throughout' \subseteq throughout,
             \A e \in throughout' : Matches(deliveries, e, walk.filter)
                => Matches(deliveries', e, walk.filter)
      PROVE  WalkInv'
  <2> SUFFICES ASSUME walk.on
               PROVE  /\ walk.seen \in Seq(Ids) /\ Sorted(walk.seen)
                      /\ walk.limit \in Limits
                      /\ walk.more <=> walk.cursor # 0
                      /\ walk.more => /\ Len(walk.seen) > 0
                                      /\ walk.cursor = walk.seen[Len(walk.seen)]
                      /\ throughout' \subseteq committed'
                      /\ \A e \in throughout' :
                            /\ Matches(deliveries', e, walk.filter)
                            /\ \/ e \in Range(walk.seen)
                               \/ walk.more /\ e < walk.cursor
    BY <1>1, Zenon DEF WalkInv
  <2> QED
    BY <1>1, Zenon DEF WalkInv
<1>2. CASE \/ Insert
           \/ \E e \in Ids : RollbackEvent(e) \/ TraceEvent(e)
           \/ TraceDeliveries \/ TraceAttempts \/ TraceAnswered
           \/ UNCHANGED logVars
  <2>1. UNCHANGED <<walk, committed, throughout, deliveries>>
    BY <1>2, Zenon
    DEF Insert, RollbackEvent, TraceEvent, TraceDeliveries, TraceAttempts,
        TraceAnswered, logVars, readers, logTables
  <2> QED
    BY <1>1, <2>1, Zenon
<1>3. ASSUME NEW e \in Ids, CommitEvent(e) \/ Requeue(e) PROVE WalkInv'
  <2>1. /\ UNCHANGED <<walk, throughout>> /\ committed \subseteq committed'
        /\ UNCHANGED deliveries
           \/ deliveries' = Append(deliveries, NewDelivery(e))
    BY <1>3, Zenon DEF CommitEvent, Requeue, readers
  <2>2. \A f \in throughout' : Matches(deliveries, f, walk.filter)
           => Matches(deliveries', f, walk.filter)
    BY <2>1, MatchesKept, Zenon
  <2> QED
    BY <1>1, <2>1, <2>2, Zenon
<1>4. ASSUME NEW d \in DeliveryIds,
             \/ DeleteDelivery(d) \/ ResetDeliveryForRecovery(d)
             \/ \E s \in {"failed", "succeeded"} : Attempt(d, s)
      PROVE  WalkInv'
  <2>1. UNCHANGED <<walk, committed>> /\ Keep
    BY <1>4, Zenon DEF DeleteDelivery, ResetDeliveryForRecovery, Attempt, readers
  <2>2. /\ throughout' \subseteq throughout
        /\ \A e \in throughout' : Matches(deliveries', e, walk.filter)
    BY <2>1, Zenon DEF Keep
  <2> QED
    BY <1>1, <2>1, <2>2, Zenon
<1>5. ASSUME NEW limit \in Limits, NEW filter, FirstPage(filter, limit)
      PROVE  WalkInv'
  <2>1. PICK due \in SUBSET committed :
           due = {e \in committed : Matches(deliveries, e, filter)}
    BY Zenon
  <2>2. /\ Turn(filter, 0, limit, <<>>) /\ throughout' = due
        /\ UNCHANGED <<committed, deliveries>>
    BY <1>5, <2>1, Zenon DEF FirstPage
  <2>3. <<>> \in Seq(Ids) /\ Sorted(<<>>)
    BY DEF Sorted
  <2>4. \A e \in due : Matches(deliveries, e, filter)
    BY <2>1, Zenon
  <2> QED
    BY <2>2, <2>3, <2>4, TurnStep, Zenon
<1>6. CASE NextPage
  <2>1. /\ walk.on /\ walk.more
        /\ Turn(walk.filter, walk.cursor, walk.limit, walk.seen)
        /\ UNCHANGED <<committed, deliveries, throughout>>
    BY <1>6, Zenon DEF NextPage
  <2>2. /\ walk.seen \in Seq(Ids) /\ Sorted(walk.seen)
        /\ walk.limit \in Limits /\ walk.cursor # 0
        /\ Len(walk.seen) > 0 /\ walk.cursor = walk.seen[Len(walk.seen)]
        /\ throughout \in SUBSET committed
        /\ \A e \in throughout :
              /\ Matches(deliveries, e, walk.filter)
              /\ e \in Range(walk.seen) \/ e < walk.cursor
    BY <2>1, Zenon DEF WalkInv
  <2>3. walk.cursor \in Nat
    <3>1. walk.cursor \in Ids
      BY <2>2
    <3> QED
      BY <3>1 DEF Ids
  <2> QED
    BY <2>1, <2>2, <2>3, TurnStep, Zenon
<1>7. CASE Leave
  <2>1. ~walk'.on
    BY <1>7, Zenon DEF Leave, NoWalk
  <2> QED
    BY <2>1, Zenon DEF WalkInv
<1> QED
  BY <1>2, <1>3, <1>4, <1>5, <1>6, <1>7, Zenon DEF LogNext

\* For any page size and any number of events: a client that pages to the end
\* has seen, once and newest first, every event that was in the log and
\* matched its filter from the first page to the last.
THEOREM PagesCoverLog ==
    LogInit /\ [][LogNext]_logVars => []PagingComplete
<1>1. LogInit => LogTypeOK /\ WalkInv
  BY DEF LogInit, LogTypeOK, WalkInv, NoWalk
<1>2. WalkInv => PagingComplete
  <2> SUFFICES ASSUME WalkInv, walk.on
               PROVE  /\ \A i \in 1..(Len(walk.seen) - 1) :
                            walk.seen[i] > walk.seen[i + 1]
                      /\ ~walk.more => throughout \subseteq Range(walk.seen)
    BY Zenon DEF PagingComplete
  <2>1. walk.seen \in Seq(Ids) /\ Sorted(walk.seen)
    BY Zenon DEF WalkInv
  <2>2. \A i \in 1..(Len(walk.seen) - 1) : walk.seen[i] > walk.seen[i + 1]
    BY <2>1 DEF Sorted
  <2> QED
    BY <2>2, Zenon DEF WalkInv
<1> QED
  BY <1>1, <1>2, LogTypes, WalkStep, PTL
=============================================================================
