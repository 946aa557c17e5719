---------------------------- MODULE PacingProofs ----------------------------
(***************************************************************************)
(* Proofs about the token buckets, for any number of calls, any rates and  *)
(* any resolution of the clock: the rate is kept over every interval, to   *)
(* within a tick, and the wait a job is snoozed for suffices.              *)
(***************************************************************************)
EXTENDS Pacing, TLAPS

-----------------------------------------------------------------------------
(* The inductive invariant *)

BucketRecords == [rate: Nat \ {0}, tokens: Nat, last: Nat]

\* Every variable that the invariant speaks of has its type.
PacingTypeOK ==
    /\ ticks \in Nat
    /\ rps \in Int
    /\ buckets \in Seq(BucketRecords)
    /\ taken \in Seq(Seq(Nat))
    /\ Len(taken) = Len(buckets)
    /\ entry \in [{"pacer", "limiter"} -> Nat]
    /\ pc \in [Calls -> {"idle", "lookup", "take", "dispatched", "allowed", "refused"}]
    /\ seen \in [Calls -> Int]
    /\ held \in [Calls -> Nat]
    /\ wake \in [Jobs -> Nat]
    /\ snoozed \in [Jobs -> Nat \X Nat]

\* The tokens left in a bucket and those taken since some moment at which one
\* was taken are no more than its burst and what was refilled since then.
SpentWithin(b, s) ==
    \A i \in 1..Len(s) :
        b.tokens + (Len(s) - i + 1) * PerSecond <= b.rate * (PerSecond + b.last - s[i])

\* Hence of the tokens taken between any two of them.
TakenWithin(b, s) ==
    \A i, k \in 1..Len(s) :
        i <= k => (k - i + 1) * PerSecond <= b.rate * (PerSecond + s[k] - s[i])

\* A bucket b, from which tokens were taken at the times s.
BucketOK(b, s) ==
    /\ b.last <= ticks
    /\ b.tokens <= b.rate * PerSecond
    /\ SpentWithin(b, s)
    /\ TakenWithin(b, s)

\* The buckets are sound; the maps point to buckets, the limiter's of the one
\* rate; and a call holds a bucket of the rate it has loaded.
BucketInv ==
    /\ \A h \in 1..Len(buckets) : BucketOK(buckets[h], taken[h])
    /\ \A m \in {"pacer", "limiter"} : entry[m] \in 0..Len(buckets)
    /\ entry["limiter"] # 0 => buckets[entry["limiter"]].rate = Limit
    /\ \A c \in Calls : pc[c] = "take" =>
          /\ held[c] \in 1..Len(buckets)
          /\ buckets[held[c]].rate = IF c \in Jobs THEN seen[c] ELSE Limit

\* By time t, bucket b will lack less than a tick's refill of a token, unless
\* one is taken from it.
Enough(b, t) ==
    \/ b.tokens >= PerSecond
    \/ b.tokens + b.rate * (t - b.last) + b.rate > PerSecond

\* A job that is worked has slept out its snooze; and for a job that was
\* snoozed on a bucket from which none was taken since, the bucket has enough
\* by the end of the snooze.
SnoozeInv ==
    \A j \in Jobs :
        /\ pc[j] \in {"lookup", "take"} => wake[j] <= ticks
        /\ \A h \in 1..Len(buckets) : snoozed[j][1] = h =>
              /\ snoozed[j][2] <= Len(taken[h])
              /\ snoozed[j][2] = Len(taken[h]) => Enough(buckets[h], wake[j])
        /\ snoozed[j][1] \in 0..Len(buckets)

PacingInv == PacingTypeOK /\ BucketInv /\ SnoozeInv

\* A dispatch without a token, of bucket e[1] and at time e[3], comes less than
\* a tick before the rate allows it, counted from any of the e[2] tokens taken
\* before it.
EarlyOK(e) ==
    /\ e[1] \in 1..Len(buckets)
    /\ e[2] \in 0..Len(taken[e[1]])
    /\ \A i \in 1..e[2] :
          (e[2] - i + 2) * PerSecond <
              buckets[e[1]].rate * (PerSecond + e[3] + 1 - taken[e[1]][i])

EarlyInv == \A e \in early : EarlyOK(e)
-----------------------------------------------------------------------------
(* One bucket *)

\* A sequence with an element added, and with one replaced.
LEMMA AppendedSeq ==
    ASSUME NEW S, NEW q \in Seq(S), NEW e \in S
    PROVE  /\ Append(q, e) \in Seq(S)
           /\ Len(Append(q, e)) = Len(q) + 1
           /\ \A i \in 1..Len(q) : Append(q, e)[i] = q[i]
           /\ Append(q, e)[Len(q) + 1] = e
  OBVIOUS

\* Replacing one element of a sequence.
LEMMA ReplacedSeq ==
    ASSUME NEW S, NEW q \in Seq(S), NEW k \in 1..Len(q), NEW e \in S
    PROVE  /\ [q EXCEPT ![k] = e] \in Seq(S)
           /\ Len([q EXCEPT ![k] = e]) = Len(q)
           /\ \A i \in 1..Len(q) : [q EXCEPT ![k] = e][i] = IF i = k THEN e ELSE q[i]
  OBVIOUS

\* The cap on the refilled tokens.
LEMMA SmallerOfTwo ==
    ASSUME NEW a \in Int, NEW b \in Int
    PROVE  Min({a, b}) = IF a <= b THEN a ELSE b
<1> DEFINE m == IF a <= b THEN a ELSE b
<1>1. m \in {a, b} /\ \A y \in {a, b} : m <= y
  OBVIOUS
<1>2. \A x \in {a, b} : (\A y \in {a, b} : x <= y) => x = m
  OBVIOUS
<1> QED
  BY <1>1, <1>2, Zenon DEF Min

\* A refill gives what the time since the last one allows, up to the burst.
LEMMA RefillTokens ==
    ASSUME ticks \in Nat, NEW b \in BucketRecords, b.last <= ticks
    PROVE  /\ Refill(b) \in BucketRecords
           /\ Refill(b).rate = b.rate
           /\ Refill(b).last = ticks
           /\ Refill(b).tokens =
                 IF b.tokens + (ticks - b.last) * b.rate <= b.rate * PerSecond
                 THEN b.tokens + (ticks - b.last) * b.rate
                 ELSE b.rate * PerSecond
           /\ Refill(b).tokens <= b.tokens + (ticks - b.last) * b.rate
           /\ Refill(b).tokens <= b.rate * PerSecond
<1>1. /\ b.rate \in Nat \ {0} /\ b.tokens \in Nat /\ b.last \in Nat
      /\ PerSecond \in Nat \ {0}
  BY PacingAssumption, Zenon DEF BucketRecords
<1>2. ticks - b.last \in Nat
  BY <1>1
<1>3. (ticks - b.last) * b.rate \in Nat /\ b.rate * PerSecond \in Nat
  BY <1>1, <1>2
<1>4. b.tokens + (ticks - b.last) * b.rate \in Nat
  BY <1>1, <1>3
<1> DEFINE full == b.tokens + (ticks - b.last) * b.rate
           burst == b.rate * PerSecond
<1>5. Min({full, burst}) = IF full <= burst THEN full ELSE burst
  <2> HIDE DEF full, burst
  <2>1. full \in Int /\ burst \in Int
    BY <1>3, <1>4 DEF full, burst
  <2> QED
    BY <2>1, SmallerOfTwo, Zenon
<1>6. Refill(b) = [rate |-> b.rate, tokens |-> Min({full, burst}), last |-> ticks]
  BY Zenon DEF Refill
<1>7. /\ Min({full, burst}) \in Nat
      /\ Min({full, burst}) <= full /\ Min({full, burst}) <= burst
  <2> HIDE DEF full, burst
  <2>1. full \in Nat /\ burst \in Nat
    BY <1>3, <1>4, Zenon DEF full, burst
  <2> QED
    BY <1>5, <2>1
<1>8. /\ Refill(b) \in BucketRecords
      /\ Refill(b).rate = b.rate
      /\ Refill(b).last = ticks
      /\ Refill(b).tokens = Min({full, burst})
  <2> HIDE DEF full, burst
  <2> QED
    BY <1>1, <1>6, <1>7 DEF BucketRecords
<1> QED
  BY <1>5, <1>7, <1>8, Zenon

\* A refill of n to m tokens within what the time from l to c allows keeps the
\* account of the tokens taken since t.
LEMMA RefillAccount ==
    ASSUME NEW rate \in Nat, NEW n \in Nat, NEW m \in Nat, NEW x \in Int,
           NEW l \in Nat, NEW c \in Nat, NEW t \in Nat,
           m <= n + (c - l) * rate, n + x <= rate * (PerSecond + l - t)
    PROVE  m + x <= rate * (PerSecond + c - t)
<1>1. PerSecond \in Nat
  BY PacingAssumption, Zenon
<1>2. rate * (PerSecond + l - t) + (c - l) * rate = rate * (PerSecond + c - t)
  BY <1>1
<1>3. /\ rate * (PerSecond + l - t) \in Int /\ (c - l) * rate \in Int
      /\ rate * (PerSecond + c - t) \in Int
  BY <1>1
<1> QED
  BY <1>2, <1>3

\* A refill keeps a bucket sound.
LEMMA RefillOK ==
    ASSUME ticks \in Nat, NEW b \in BucketRecords, NEW s \in Seq(Nat), BucketOK(b, s)
    PROVE  BucketOK(Refill(b), s)
<1> DEFINE n == Refill(b)
<1>1. /\ b.rate \in Nat \ {0} /\ b.tokens \in Nat /\ b.last \in Nat
      /\ PerSecond \in Nat \ {0}
  BY PacingAssumption, Zenon DEF BucketRecords
<1>2. /\ n.rate = b.rate /\ n.last = ticks /\ n.tokens \in Nat
      /\ n.tokens <= b.tokens + (ticks - b.last) * b.rate
      /\ n.tokens <= b.rate * PerSecond
  <2>1. /\ n \in BucketRecords /\ n.rate = b.rate /\ n.last = ticks
        /\ n.tokens <= b.tokens + (ticks - b.last) * b.rate
        /\ n.tokens <= b.rate * PerSecond
    BY RefillTokens, Zenon DEF BucketOK
  <2>2. n.tokens \in Nat
    BY <2>1, Zenon DEF BucketRecords
  <2> QED
    BY <2>1, <2>2, Zenon
<1> HIDE DEF n
<1>3. SpentWithin(n, s)
  <2> SUFFICES ASSUME NEW i \in 1..Len(s)
               PROVE  n.tokens + (Len(s) - i + 1) * PerSecond
                         <= n.rate * (PerSecond + n.last - s[i])
    BY Zenon DEF SpentWithin
  <2>1. s[i] \in Nat /\ i \in Int /\ Len(s) \in Nat
    OBVIOUS
  <2>2. b.tokens + (Len(s) - i + 1) * PerSecond <= b.rate * (PerSecond + b.last - s[i])
    BY Zenon DEF BucketOK, SpentWithin
  <2>3. (Len(s) - i + 1) * PerSecond \in Int
    BY <1>1, <2>1
  <2> QED
    BY <1>1, <1>2, <2>1, <2>2, <2>3, RefillAccount, Zenon
<1>4. TakenWithin(n, s)
  BY <1>2, Zenon DEF TakenWithin, BucketOK
<1> QED
  BY <1>1, <1>2, <1>3, <1>4 DEF BucketOK, n

\* What rate r refills in one tick more.
LEMMA OneTickMore ==
    ASSUME NEW r \in Int, NEW z \in Int
    PROVE  r * z \in Int /\ r * (z + 1) = r * z + r
  OBVIOUS

\* One more of n tokens.
LEMMA OneMore ==
    ASSUME NEW n \in Int
    PROVE  n * PerSecond \in Int /\ (n + 1) * PerSecond = n * PerSecond + PerSecond
<1>1. PerSecond \in Nat
  BY PacingAssumption, Zenon
<1> QED
  BY <1>1

\* Taking a token keeps a bucket sound.
LEMMA TakeOK ==
    ASSUME ticks \in Nat, NEW b \in BucketRecords, NEW s \in Seq(Nat), BucketOK(b, s),
           b.last = ticks, b.tokens >= PerSecond,
           NEW n \in BucketRecords,
           n.rate = b.rate, n.last = ticks, n.tokens = b.tokens - PerSecond
    PROVE  BucketOK(n, Append(s, ticks))
<1> DEFINE t == Append(s, ticks)
<1>1. /\ b.rate \in Nat \ {0} /\ b.tokens \in Nat /\ n.tokens \in Nat
      /\ PerSecond \in Nat \ {0} /\ Len(s) \in Nat
  BY PacingAssumption DEF BucketRecords
<1>2. /\ t \in Seq(Nat) /\ Len(t) = Len(s) + 1 /\ t[Len(s) + 1] = ticks
      /\ \A i \in 1..Len(s) : t[i] = s[i] /\ t[i] \in Nat
  BY AppendedSeq
<1> HIDE DEF t
<1>3. b.rate * (PerSecond + ticks - ticks) = b.rate * PerSecond /\ b.rate * PerSecond \in Nat
  BY <1>1
<1>4. b.tokens <= b.rate * PerSecond
  BY Zenon DEF BucketOK
\* Since the i-th token, Len(s) - i + 1 were taken so far.
<1>5. ASSUME NEW i \in 1..Len(s)
      PROVE  /\ b.tokens + (Len(s) - i + 1) * PerSecond <= b.rate * (PerSecond + ticks - t[i])
             /\ b.rate * (PerSecond + ticks - t[i]) \in Int
             /\ (Len(t) - i + 1) * PerSecond = (Len(s) - i + 1) * PerSecond + PerSecond
             /\ (Len(s) - i + 1) * PerSecond \in Int
  <2>1. b.tokens + (Len(s) - i + 1) * PerSecond <= b.rate * (PerSecond + ticks - t[i])
    BY <1>2, Zenon DEF BucketOK, SpentWithin
  <2>2. b.rate * (PerSecond + ticks - t[i]) \in Int
    <3>0. t[i] \in Nat
      BY <1>2, Zenon
    <3>1. PerSecond + ticks - t[i] \in Int
      BY <1>1, <3>0
    <3>2. b.rate \in Int
      BY <1>1
    <3> QED
      BY <3>1, <3>2, OneTickMore, Zenon
  <2>3. Len(s) - i + 1 \in Int /\ Len(t) - i + 1 = (Len(s) - i + 1) + 1
    BY <1>1, <1>2
  <2> QED
    BY <2>1, <2>2, <2>3, OneMore, Zenon
<1>6. SpentWithin(n, t)
  <2> SUFFICES ASSUME NEW i \in 1..Len(t)
               PROVE  n.tokens + (Len(t) - i + 1) * PerSecond
                         <= n.rate * (PerSecond + n.last - t[i])
    BY Zenon DEF SpentWithin
  <2>1. CASE i \in 1..Len(s)
    <3> DEFINE x == (Len(s) - i + 1) * PerSecond
               y == b.rate * (PerSecond + ticks - t[i])
    <3>1. b.tokens + x <= y /\ y \in Int /\ x \in Int
      BY <1>5, <2>1, Zenon
    <3>2. (Len(t) - i + 1) * PerSecond = x + PerSecond
      BY <1>5, <2>1, Zenon
    <3> HIDE DEF x, y
    <3>3. n.tokens + (x + PerSecond) <= y
      BY <1>1, <3>1
    <3> QED
      BY <3>2, <3>3, Zenon DEF y
  <2>2. CASE i = Len(s) + 1
    <3>1. (Len(t) - i + 1) * PerSecond = PerSecond
      BY <1>1, <1>2, <2>2
    <3>2. n.tokens + PerSecond <= b.rate * PerSecond
      BY <1>1, <1>3, <1>4
    <3>3. n.rate * (PerSecond + n.last - t[i]) = b.rate * PerSecond
      BY <1>2, <1>3, <2>2, Zenon
    <3> QED
      BY <3>1, <3>2, <3>3, Zenon
  <2> QED
    BY <1>1, <1>2, <2>1, <2>2
<1>7. TakenWithin(n, t)
  <2> SUFFICES ASSUME NEW i \in 1..Len(t), NEW k \in 1..Len(t), i <= k
               PROVE  (k - i + 1) * PerSecond <= n.rate * (PerSecond + t[k] - t[i])
    BY Zenon DEF TakenWithin
  <2>1. CASE k \in 1..Len(s)
    <3>1. i \in 1..Len(s)
      BY <1>1, <2>1
    <3> QED
      BY <1>2, <2>1, <3>1, Zenon DEF BucketOK, TakenWithin
  <2>2. CASE k = Len(s) + 1 /\ i \in 1..Len(s)
    <3>1. t[k] = ticks /\ k = Len(t)
      BY <1>2, <2>2, Zenon
    <3>2. (k - i + 1) * PerSecond <= b.rate * (PerSecond + ticks - t[i])
      <4> DEFINE x == (Len(s) - i + 1) * PerSecond
                 y == b.rate * (PerSecond + ticks - t[i])
      <4>1. b.tokens + x <= y /\ y \in Int /\ x \in Int
        BY <1>5, <2>2, Zenon
      <4>2. (k - i + 1) * PerSecond = x + PerSecond
        BY <1>5, <2>2, <3>1, Zenon
      <4> HIDE DEF x, y
      <4>3. x + PerSecond <= y
        BY <1>1, <4>1
      <4> QED
        BY <4>2, <4>3, Zenon DEF y
    <3> QED
      BY <3>1, <3>2, Zenon
  <2>3. CASE k = Len(s) + 1 /\ i = Len(s) + 1
    <3>1. (k - i + 1) * PerSecond = PerSecond
      BY <1>1, <2>3
    <3>2. t[k] = ticks /\ t[i] = ticks
      BY <1>2, <2>3, Zenon
    <3>3. n.rate * (PerSecond + t[k] - t[i]) = b.rate * PerSecond
      BY <1>3, <3>2, Zenon
    <3>4. PerSecond <= b.rate * PerSecond
      BY <1>1, <1>3, <1>4
    <3> QED
      BY <3>1, <3>3, <3>4, Zenon
  <2> QED
    BY <1>1, <1>2, <2>1, <2>2, <2>3
<1>8. n.last <= ticks /\ n.tokens <= n.rate * PerSecond
  BY <1>1, <1>3, <1>4
<1> QED
  BY <1>6, <1>7, <1>8, Zenon DEF BucketOK, t

\* A bucket that will have enough still will after a refill.
LEMMA RefillKeepsEnough ==
    ASSUME ticks \in Nat, NEW b \in BucketRecords, b.last <= ticks, NEW t \in Nat,
           Enough(b, t)
    PROVE  Enough(Refill(b), t)
<1> DEFINE n == Refill(b)
           more == (ticks - b.last) * b.rate
<1>1. /\ b.rate \in Nat \ {0} /\ b.tokens \in Nat /\ b.last \in Nat
      /\ PerSecond \in Nat \ {0}
  BY PacingAssumption, Zenon DEF BucketRecords
<1>2. /\ n.rate = b.rate /\ n.last = ticks
      /\ n.tokens = IF b.tokens + more <= b.rate * PerSecond
                    THEN b.tokens + more ELSE b.rate * PerSecond
  BY RefillTokens, Zenon
<1>3. more \in Nat /\ b.rate * PerSecond \in Nat /\ b.rate * PerSecond >= PerSecond
  BY <1>1
<1>4. b.rate * (t - b.last) = b.rate * (t - ticks) + more
  BY <1>1
<1>5. b.rate * (t - b.last) \in Int /\ b.rate * (t - ticks) \in Int
  BY <1>1
<1> SUFFICES Enough(n, t)
  BY Zenon
<1> HIDE DEF n, more
<1>6. CASE b.tokens + more <= b.rate * PerSecond
  <2>1. n.tokens = b.tokens + more /\ n.tokens >= b.tokens
    BY <1>1, <1>2, <1>3, <1>6
  <2>2. n.rate * (t - n.last) = b.rate * (t - ticks)
    BY <1>2, Zenon
  <2>3. CASE b.tokens >= PerSecond
    BY <1>1, <1>3, <2>1, <2>3 DEF Enough
  <2>4. CASE b.tokens + b.rate * (t - b.last) + b.rate > PerSecond
    <3>1. n.tokens + b.rate * (t - ticks) + b.rate > PerSecond
      BY <1>1, <1>3, <1>4, <1>5, <2>1, <2>4
    <3> QED
      BY <1>2, <2>2, <3>1, Zenon DEF Enough
  <2> QED
    BY <2>3, <2>4, Zenon DEF Enough
<1>7. CASE ~(b.tokens + more <= b.rate * PerSecond)
  <2>1. n.tokens >= PerSecond
    BY <1>1, <1>2, <1>3, <1>7, Zenon
  <2> QED
    BY <2>1, Zenon DEF Enough
<1> QED
  BY <1>6, <1>7, Zenon

\* Division, of the float64 wait by the truncation to a time.Duration.
LEMMA Truncated ==
    ASSUME NEW a \in Nat, NEW r \in Nat \ {0}
    PROVE  a \div r \in Nat /\ r * (a \div r) + r > a
  OBVIOUS

\* The wait is the time, in whole ticks, after which the bucket has enough.
LEMMA WaitIsEnough ==
    ASSUME ticks \in Nat, NEW b \in BucketRecords, b.last = ticks, b.tokens < PerSecond
    PROVE  /\ Wait(b) \in Nat
           /\ Enough(b, ticks + Wait(b))
<1> DEFINE lack == PerSecond - b.tokens
           w == lack \div b.rate
<1>1. /\ b.rate \in Nat \ {0} /\ lack \in Nat /\ b.tokens \in Nat
      /\ PerSecond \in Nat \ {0}
  BY PacingAssumption DEF BucketRecords
<1>2. w \in Nat /\ b.rate * w + b.rate > lack
  <2> HIDE DEF lack
  <2> QED
    BY <1>1, Truncated, Zenon
<1>3. Wait(b) = w
  BY Zenon DEF Wait
<1>4. b.rate * ((ticks + w) - b.last) = b.rate * w
  BY <1>1, <1>2
<1>5. b.rate * w \in Nat
  BY <1>1, <1>2
<1> HIDE DEF w
<1> QED
  BY <1>1, <1>2, <1>3, <1>4, <1>5 DEF Enough

\* Once a bucket has enough, the wait is truncated to zero.
LEMMA EnoughMeansNoWait ==
    ASSUME ticks \in Nat, NEW b \in BucketRecords, b.last = ticks, b.tokens < PerSecond,
           NEW t \in Nat, t <= ticks, Enough(b, t)
    PROVE  Wait(b) = 0
<1> DEFINE lack == PerSecond - b.tokens
<1>1. /\ b.rate \in Nat \ {0} /\ b.tokens \in Nat /\ PerSecond \in Nat \ {0}
      /\ lack \in Nat
  BY PacingAssumption DEF BucketRecords
<1>2. b.rate * (t - ticks) <= 0 /\ b.rate * (t - ticks) \in Int
  BY <1>1
<1>3. lack < b.rate
  BY <1>1, <1>2 DEF Enough
<1>4. lack \div b.rate = 0
  BY <1>1, <1>3
<1> QED
  BY <1>4, Zenon DEF Wait
-----------------------------------------------------------------------------
(* The steps on the maps and the buckets *)

\* A new bucket is full, and sound.
LEMMA FullBucketOK ==
    ASSUME ticks \in Nat, NEW rate \in Nat \ {0}
    PROVE  /\ FullBucket(rate) \in BucketRecords
           /\ FullBucket(rate).rate = rate
           /\ BucketOK(FullBucket(rate), <<>>)
<1>1. PerSecond \in Nat
  BY PacingAssumption, Zenon
<1>2. rate * PerSecond \in Nat
  BY <1>1
<1>3. /\ FullBucket(rate) \in BucketRecords
      /\ FullBucket(rate).rate = rate
      /\ FullBucket(rate).tokens = rate * PerSecond
      /\ FullBucket(rate).last = ticks
  BY <1>2, Zenon DEF FullBucket, BucketRecords
<1>4. FullBucket(rate).last <= ticks
  BY <1>3
<1>5. FullBucket(rate).tokens <= FullBucket(rate).rate * PerSecond
  BY <1>2, <1>3
<1> QED
  BY <1>3, <1>4, <1>5 DEF BucketOK, SpentWithin, TakenWithin

\* The buckets there were stay as they are; those added are sound and unused.
Extended ==
    /\ buckets' \in Seq(BucketRecords) /\ taken' \in Seq(Seq(Nat))
    /\ Len(taken') = Len(buckets') /\ Len(buckets') >= Len(buckets)
    /\ \A g \in 1..Len(buckets) : buckets'[g] = buckets[g] /\ taken'[g] = taken[g]
    /\ \A g \in 1..Len(buckets') :
          g > Len(buckets) => taken'[g] = <<>> /\ BucketOK(buckets'[g], taken'[g])

\* The two branches of FindBucket.
Found(c, m, rate) ==
    /\ entry[m] # 0 /\ buckets[entry[m]].rate = rate
    /\ Hold(c, entry[m])
    /\ UNCHANGED <<buckets, taken, entry>>

Made(c, m, rate) ==
    /\ buckets' = Append(buckets, FullBucket(rate))
    /\ taken' = Append(taken, <<>>)
    /\ entry' = [entry EXCEPT ![m] = Len(buckets) + 1]
    /\ Hold(c, Len(buckets) + 1)

\* A call that looks a bucket up gets one of its rate, and the map has it.
LEMMA FindCases ==
    ASSUME PacingTypeOK, BucketInv, NEW c \in Calls, NEW m \in {"pacer", "limiter"},
           NEW rate \in Nat \ {0},
           Found(c, m, rate) \/ Made(c, m, rate)
    PROVE  /\ Extended
           /\ \E h \in 1..Len(buckets') :
                 /\ buckets'[h].rate = rate
                 /\ held' = [held EXCEPT ![c] = h]
                 /\ pc' = [pc EXCEPT ![c] = "take"]
                 /\ entry' \in {entry, [entry EXCEPT ![m] = h]}
<1>1. CASE Found(c, m, rate)
  <2>1. entry[m] \in 0..Len(buckets) /\ entry[m] # 0 /\ Len(buckets) \in Nat
    BY <1>1 DEF BucketInv, PacingTypeOK, Found
  <2>2. PICK h \in 1..Len(buckets) : h = entry[m]
    BY <2>1
  <2>3. /\ UNCHANGED <<buckets, taken, entry>> /\ buckets[h].rate = rate
        /\ held' = [held EXCEPT ![c] = h]
        /\ pc' = [pc EXCEPT ![c] = "take"]
    BY <1>1, <2>2, Zenon DEF Found, Hold
  <2>4. Extended
    BY <2>1, <2>3 DEF Extended, PacingTypeOK
  <2> QED
    BY <2>3, <2>4, Zenon
<1>2. CASE Made(c, m, rate)
  <2> DEFINE b == FullBucket(rate)
  <2>1. b \in BucketRecords /\ b.rate = rate /\ BucketOK(b, <<>>)
    BY FullBucketOK, Zenon DEF PacingTypeOK
  <2>2. /\ buckets' = Append(buckets, b)
        /\ taken' = Append(taken, <<>>)
        /\ entry' = [entry EXCEPT ![m] = Len(buckets) + 1]
        /\ held' = [held EXCEPT ![c] = Len(buckets) + 1]
        /\ pc' = [pc EXCEPT ![c] = "take"]
    BY <1>2, Zenon DEF Made, Hold
  <2> HIDE DEF b
  <2>3. /\ buckets' \in Seq(BucketRecords)
        /\ Len(buckets') = Len(buckets) + 1
        /\ \A g \in 1..Len(buckets) : buckets'[g] = buckets[g]
        /\ buckets'[Len(buckets) + 1] = b
    <3>1. buckets \in Seq(BucketRecords)
      BY Zenon DEF PacingTypeOK
    <3> QED
      BY <2>1, <2>2, <3>1, AppendedSeq
  <2>4. /\ taken' \in Seq(Seq(Nat))
        /\ Len(taken') = Len(buckets) + 1
        /\ \A g \in 1..Len(buckets) : taken'[g] = taken[g]
        /\ taken'[Len(buckets) + 1] = <<>>
    <3> DEFINE T == Seq(Nat)
    <3>1. <<>> \in T /\ taken \in Seq(T) /\ Len(taken) = Len(buckets)
      BY DEF PacingTypeOK
    <3> HIDE DEF T
    <3>2. /\ taken' \in Seq(T)
          /\ Len(taken') = Len(taken) + 1
          /\ \A g \in 1..Len(taken) : taken'[g] = taken[g]
          /\ taken'[Len(taken) + 1] = <<>>
      BY <2>2, <3>1, AppendedSeq
    <3> QED
      BY <3>1, <3>2, Zenon DEF T
  <2>5. Len(buckets) \in Nat
    BY DEF PacingTypeOK
  <2>6. \A g \in 1..Len(buckets') : g > Len(buckets) => g = Len(buckets) + 1
    BY <2>3, <2>5
  <2>7. Extended
    BY <2>1, <2>3, <2>4, <2>5, <2>6 DEF Extended
  <2>8. Len(buckets) + 1 \in 1..Len(buckets')
    BY <2>3, <2>5
  <2> QED
    BY <2>1, <2>2, <2>3, <2>7, <2>8, Zenon
<1> QED
  BY <1>1, <1>2, Zenon

\* One bucket was used: refilled, and either put back or a token of it taken.
Used(h) ==
    /\ buckets' \in Seq(BucketRecords) /\ taken' \in Seq(Seq(Nat))
    /\ Len(buckets') = Len(buckets) /\ Len(taken') = Len(buckets)
    /\ \A g \in 1..Len(buckets) :
          g # h => buckets'[g] = buckets[g] /\ taken'[g] = taken[g]
    /\ buckets'[h].rate = buckets[h].rate
    /\ BucketOK(buckets'[h], taken'[h])
    /\ \/ buckets'[h] = Refill(buckets[h]) /\ taken'[h] = taken[h]
       \/ /\ Len(taken'[h]) = Len(taken[h]) + 1
          /\ \A i \in 1..Len(taken[h]) : taken'[h][i] = taken[h][i]

\* Taking a token and putting the bucket back both use it as Used says.
LEMMA UseCases ==
    ASSUME PacingTypeOK, BucketInv, NEW c \in Calls, held[c] \in 1..Len(buckets),
           NEW b, b = Refill(buckets[held[c]]),
           \/ TakeToken(c, b) /\ b.tokens >= PerSecond
           \/ PutBack(c, b)
    PROVE  Used(held[c])
<1>1. PICK h \in 1..Len(buckets) : h = held[c]
  BY Zenon
<1>2. /\ buckets[h] \in BucketRecords /\ taken[h] \in Seq(Nat) /\ ticks \in Nat
      /\ BucketOK(buckets[h], taken[h])
  BY <1>1 DEF PacingTypeOK, BucketInv
<1>3. /\ b \in BucketRecords /\ b.rate = buckets[h].rate /\ b.last = ticks
      /\ BucketOK(b, taken[h])
  <2>1. buckets[h].last <= ticks
    BY <1>2, Zenon DEF BucketOK
  <2> QED
    BY <1>1, <1>2, <2>1, RefillTokens, RefillOK, Zenon
<1>4. CASE PutBack(c, b)
  <2>1. buckets' = [buckets EXCEPT ![h] = b] /\ taken' = taken
    BY <1>1, <1>4, Zenon DEF PutBack
  <2>2. /\ buckets' \in Seq(BucketRecords) /\ Len(buckets') = Len(buckets)
        /\ \A g \in 1..Len(buckets) : buckets'[g] = IF g = h THEN b ELSE buckets[g]
    <3>1. buckets \in Seq(BucketRecords)
      BY Zenon DEF PacingTypeOK
    <3> QED
      BY <1>3, <2>1, <3>1, ReplacedSeq
  <2> QED
    BY <1>1, <1>3, <2>1, <2>2, Zenon DEF Used, PacingTypeOK
<1>5. CASE TakeToken(c, b) /\ b.tokens >= PerSecond
  <2> DEFINE n == [b EXCEPT !.tokens = @ - PerSecond]
             s == Append(taken[h], ticks)
  <2>1. /\ n \in BucketRecords /\ n.rate = b.rate /\ n.last = ticks
        /\ n.tokens = b.tokens - PerSecond
    <3>1. /\ b.rate \in Nat \ {0} /\ b.tokens \in Nat /\ b.last \in Nat
          /\ b = [rate |-> b.rate, tokens |-> b.tokens, last |-> b.last]
      BY <1>3, Zenon DEF BucketRecords
    <3>2. b.tokens - PerSecond \in Nat
      BY <1>5, <3>1, PacingAssumption
    <3>3. n = [rate |-> b.rate, tokens |-> b.tokens - PerSecond, last |-> b.last]
      BY <3>1
    <3> QED
      BY <1>3, <3>1, <3>2, <3>3, Zenon DEF BucketRecords
  <2>2. /\ s \in Seq(Nat) /\ Len(s) = Len(taken[h]) + 1
        /\ \A i \in 1..Len(taken[h]) : s[i] = taken[h][i]
    BY <1>2
  <2>3. buckets' = [buckets EXCEPT ![h] = n] /\ taken' = [taken EXCEPT ![h] = s]
    BY <1>1, <1>5, Zenon DEF TakeToken
  <2>4. BucketOK(n, s)
    <3> HIDE DEF n
    <3> QED
      BY <1>2, <1>3, <1>5, <2>1, TakeOK, Zenon
  <2> HIDE DEF n, s
  <2>5. /\ buckets' \in Seq(BucketRecords) /\ Len(buckets') = Len(buckets)
        /\ \A g \in 1..Len(buckets) : buckets'[g] = IF g = h THEN n ELSE buckets[g]
    <3>1. buckets \in Seq(BucketRecords)
      BY Zenon DEF PacingTypeOK
    <3> QED
      BY <2>1, <2>3, <3>1, ReplacedSeq
  <2>6. /\ taken' \in Seq(Seq(Nat)) /\ Len(taken') = Len(taken)
        /\ \A g \in 1..Len(buckets) : taken'[g] = IF g = h THEN s ELSE taken[g]
    <3> DEFINE T == Seq(Nat)
    <3>1. taken \in Seq(T) /\ h \in 1..Len(taken) /\ s \in T /\ Len(taken) = Len(buckets)
      BY <2>2, Zenon DEF PacingTypeOK
    <3> HIDE DEF T
    <3>2. /\ taken' \in Seq(T) /\ Len(taken') = Len(taken)
          /\ \A g \in 1..Len(taken) : taken'[g] = IF g = h THEN s ELSE taken[g]
      BY <2>3, <3>1, ReplacedSeq
    <3> QED
      BY <3>1, <3>2, Zenon DEF T
  <2>7. buckets'[h] = n /\ taken'[h] = s
    BY <2>5, <2>6, Zenon
  <2>8. Len(taken') = Len(buckets)
    BY <2>6, Zenon DEF PacingTypeOK
  <2>9. BucketOK(buckets'[h], taken'[h]) /\ buckets'[h].rate = buckets[h].rate
    BY <1>3, <2>1, <2>4, <2>7, Zenon
  <2>10. Used(h)
    BY <2>2, <2>5, <2>6, <2>7, <2>8, <2>9, Zenon DEF Used
  <2> QED
    BY <1>1, <2>10, Zenon
<1> QED
  BY <1>4, <1>5, Zenon

\* Call c now holds bucket h of map m, which is of its rate.
Holds(c, m, h) ==
    /\ buckets'[h].rate = IF c \in Jobs THEN seen[c] ELSE Limit
    /\ m = "limiter" => c \notin Jobs
    /\ held' = [held EXCEPT ![c] = h]
    /\ pc' = [pc EXCEPT ![c] = "take"]
    /\ entry' \in {entry, [entry EXCEPT ![m] = h]}
    /\ c \in Jobs => wake[c] <= ticks
    /\ UNCHANGED <<ticks, rps, seen, wake, snoozed>>

\* A call finds its bucket.
LEMMA FindStep ==
    ASSUME PacingInv, NEW c \in Calls, NEW m \in {"pacer", "limiter"},
           Extended, NEW h \in 1..Len(buckets'), Holds(c, m, h)
    PROVE  PacingInv'
<1>r. /\ buckets'[h].rate = IF c \in Jobs THEN seen[c] ELSE Limit
      /\ m = "limiter" => c \notin Jobs
  BY Zenon DEF Holds
<1>m. held' = [held EXCEPT ![c] = h] /\ pc' = [pc EXCEPT ![c] = "take"]
  BY Zenon DEF Holds
<1>n. entry' = entry \/ entry' = [entry EXCEPT ![m] = h]
  BY Zenon DEF Holds
<1>u. UNCHANGED <<ticks, rps, seen, wake, snoozed>>
  BY Zenon DEF Holds
<1>w. c \in Jobs => wake[c] <= ticks
  BY Zenon DEF Holds
<1>0. PacingTypeOK /\ BucketInv /\ SnoozeInv
  BY Zenon DEF PacingInv
<1>1. Len(buckets) \in Nat /\ Len(buckets') \in Nat /\ Len(buckets) <= Len(buckets')
  BY <1>0 DEF PacingTypeOK, Extended
<1>2. 1..Len(buckets) \subseteq 1..Len(buckets') /\ 0..Len(buckets) \subseteq 0..Len(buckets')
  BY <1>1
<1>e. entry' \in [{"pacer", "limiter"} -> Nat] /\ h \in Nat
  <2>1. h \in Nat /\ entry \in [{"pacer", "limiter"} -> Nat]
    BY <1>0, <1>1 DEF PacingTypeOK
  <2> QED
    BY <1>n, <2>1, Zenon
<1>3. PacingTypeOK'
  <2>1. /\ pc' \in [Calls -> {"idle", "lookup", "take", "dispatched", "allowed", "refused"}]
        /\ held' \in [Calls -> Nat]
    BY <1>0, <1>e, <1>m, Zenon DEF PacingTypeOK
  <2> QED
    BY <1>0, <1>e, <1>u, <2>1, Zenon DEF PacingTypeOK, Extended
<1>4. BucketInv'
  <2>1. ASSUME NEW g \in 1..Len(buckets')
        PROVE  BucketOK(buckets'[g], taken'[g])
    <3>1. CASE g \in 1..Len(buckets)
      BY <1>0, <3>1, Zenon DEF BucketInv, Extended
    <3>2. CASE g > Len(buckets)
      BY <3>2, Zenon DEF Extended
    <3> QED
      BY <1>1, <3>1, <3>2
  <2>2. \A g \in 1..Len(buckets') : BucketOK(buckets[g], taken[g])'
    BY <1>u, <2>1, Zenon DEF BucketOK, SpentWithin, TakenWithin
  <2>3. \A x \in {"pacer", "limiter"} : entry'[x] \in 0..Len(buckets')
    <3>1. /\ \A x \in {"pacer", "limiter"} : entry[x] \in 0..Len(buckets')
          /\ h \in 0..Len(buckets')
          /\ entry \in [{"pacer", "limiter"} -> Nat]
      BY <1>0, <1>1, <1>2 DEF BucketInv, PacingTypeOK
    <3> QED
      BY <1>n, <3>1, Zenon
  <2>4. entry'["limiter"] # 0 => buckets'[entry'["limiter"]].rate = Limit
    <3>0. entry["limiter"] # 0 =>
             /\ entry["limiter"] \in 1..Len(buckets)
             /\ buckets[entry["limiter"]].rate = Limit
      BY <1>0, <1>1 DEF BucketInv
    <3>l. entry["limiter"] # 0 => buckets'[entry["limiter"]].rate = Limit
      BY <3>0, Zenon DEF Extended
    <3>1. CASE entry' = entry
      BY <3>1, <3>l, Zenon
    <3>2. CASE entry' = [entry EXCEPT ![m] = h] /\ m = "limiter"
      BY <1>0, <1>r, <3>2, Zenon DEF PacingTypeOK
    <3>3. CASE entry' = [entry EXCEPT ![m] = h] /\ m # "limiter"
      <4>1. entry'["limiter"] = entry["limiter"]
        BY <1>0, <3>3, Zenon DEF PacingTypeOK
      <4> QED
        BY <3>l, <4>1, Zenon
    <3> QED
      BY <1>n, <3>1, <3>2, <3>3, Zenon
  <2>5. \A x \in Calls : pc'[x] = "take" =>
           /\ held'[x] \in 1..Len(buckets')
           /\ buckets'[held'[x]].rate = IF x \in Jobs THEN seen'[x] ELSE Limit
    <3> TAKE x \in Calls
    <3>1. CASE x = c
      BY <1>0, <1>m, <1>r, <1>u, <3>1, Zenon DEF PacingTypeOK
    <3>2. CASE x # c
      <4>1. pc'[x] = pc[x] /\ held'[x] = held[x] /\ seen'[x] = seen[x]
        BY <1>0, <1>m, <1>u, <3>2, Zenon DEF PacingTypeOK
      <4>2. pc[x] = "take" =>
               /\ held[x] \in 1..Len(buckets)
               /\ buckets[held[x]].rate = IF x \in Jobs THEN seen[x] ELSE Limit
        BY <1>0, Zenon DEF BucketInv
      <4>3. held[x] \in 1..Len(buckets) => buckets'[held[x]] = buckets[held[x]]
        BY Zenon DEF Extended
      <4> QED
        BY <1>2, <4>1, <4>2, <4>3, Zenon
    <3> QED
      BY <3>1, <3>2, Zenon
  <2> QED
    BY <2>2, <2>3, <2>4, <2>5, Zenon DEF BucketInv
<1>5. SnoozeInv'
  <2> SUFFICES ASSUME NEW j \in Jobs
               PROVE  /\ pc'[j] \in {"lookup", "take"} => wake[j] <= ticks
                      /\ \A g \in 1..Len(buckets') : snoozed[j][1] = g =>
                            /\ snoozed[j][2] <= Len(taken'[g])
                            /\ snoozed[j][2] = Len(taken'[g]) =>
                                  Enough(buckets'[g], wake[j])
                      /\ snoozed[j][1] \in 0..Len(buckets')
    BY <1>u, Zenon DEF SnoozeInv, Enough
  <2>1. pc'[j] \in {"lookup", "take"} => wake[j] <= ticks
    BY <1>0, <1>m, <1>w, Zenon DEF SnoozeInv, PacingTypeOK, Calls
  <2>2. snoozed[j][1] \in 0..Len(buckets)
    BY <1>0, Zenon DEF SnoozeInv
  <2>3. ASSUME NEW g \in 1..Len(buckets'), snoozed[j][1] = g
        PROVE  /\ snoozed[j][2] <= Len(taken'[g])
               /\ snoozed[j][2] = Len(taken'[g]) => Enough(buckets'[g], wake[j])
    <3>1. g \in 1..Len(buckets)
      BY <1>1, <2>2, <2>3
    <3> QED
      BY <1>0, <2>3, <3>1, Zenon DEF SnoozeInv, Extended
  <2> QED
    BY <1>2, <2>1, <2>2, <2>3, Zenon
<1> QED
  BY <1>3, <1>4, <1>5, Zenon DEF PacingInv

\* Job c is snoozed until w on bucket h, which will have enough by then.
Snoozes(c, h, w) ==
    /\ c \in Jobs
    /\ wake' = [wake EXCEPT ![c] = w]
    /\ snoozed' = [snoozed EXCEPT ![c] = <<h, Len(taken[h])>>]
    /\ taken' = taken
    /\ Enough(buckets'[h], w)

\* Call c is done with bucket h.
Releases(c, h, to) ==
    /\ pc' = [pc EXCEPT ![c] = to]
    /\ UNCHANGED <<ticks, rps, entry, seen, held>>
    /\ \/ UNCHANGED <<wake, snoozed>>
       \/ \E w \in Nat : Snoozes(c, h, w)

\* A call uses its bucket, and is snoozed on it only for long enough.
LEMMA UseStep ==
    ASSUME PacingInv, NEW c \in Calls, NEW h \in 1..Len(buckets), Used(h),
           NEW to \in {"dispatched", "allowed", "refused", "idle"},
           Releases(c, h, to)
    PROVE  PacingInv'
<1>p. pc' = [pc EXCEPT ![c] = to]
  BY Zenon DEF Releases
<1>u. UNCHANGED <<ticks, rps, entry, seen, held>>
  BY Zenon DEF Releases
<1>s. UNCHANGED <<wake, snoozed>> \/ \E w \in Nat : Snoozes(c, h, w)
  BY Zenon DEF Releases
<1>0. PacingTypeOK /\ BucketInv /\ SnoozeInv
  BY Zenon DEF PacingInv
<1>3. PacingTypeOK'
  <2>0. pc' \in [Calls -> {"idle", "lookup", "take", "dispatched", "allowed", "refused"}]
    BY <1>0, <1>p, Zenon DEF PacingTypeOK
  <2>1. wake' \in [Jobs -> Nat] /\ snoozed' \in [Jobs -> Nat \X Nat]
    <3>1. Len(taken[h]) \in Nat /\ h \in Nat
      BY <1>0 DEF PacingTypeOK
    <3>2. wake \in [Jobs -> Nat] /\ snoozed \in [Jobs -> Nat \X Nat]
      BY <1>0, Zenon DEF PacingTypeOK
    <3>3. PICK n \in Nat \X Nat : n = <<h, Len(taken[h])>>
      BY <3>1, Zenon
    <3>4. \/ UNCHANGED <<wake, snoozed>>
          \/ /\ \E w \in Nat : wake' = [wake EXCEPT ![c] = w]
             /\ snoozed' = [snoozed EXCEPT ![c] = n]
      BY <1>s, <3>3, Zenon DEF Snoozes
    <3>5. wake' \in [Jobs -> Nat]
      BY <3>2, <3>4, Zenon
    <3>6. snoozed' \in [Jobs -> Nat \X Nat]
      <4> DEFINE P == Nat \X Nat
      <4>1. n \in P /\ snoozed \in [Jobs -> P]
        BY <3>2, Zenon
      <4> HIDE DEF P
      <4>2. snoozed' \in [Jobs -> P]
        BY <3>4, <4>1, Zenon
      <4> QED
        BY <4>2, Zenon DEF P
    <3> QED
      BY <3>5, <3>6, Zenon
  <2> QED
    BY <1>0, <1>u, <2>0, <2>1, Zenon DEF PacingTypeOK, Used
<1>4. BucketInv'
  <2>1. ASSUME NEW g \in 1..Len(buckets)
        PROVE  BucketOK(buckets'[g], taken'[g]) /\ buckets'[g].rate = buckets[g].rate
    <3>1. CASE g = h
      BY <3>1, Zenon DEF Used
    <3>2. CASE g # h
      BY <1>0, <3>2, Zenon DEF BucketInv, Used
    <3> QED
      BY <3>1, <3>2, Zenon
  <2>2. \A g \in 1..Len(buckets') : BucketOK(buckets[g], taken[g])'
    <3>1. Len(buckets') = Len(buckets)
      BY Zenon DEF Used
    <3> QED
      BY <1>u, <2>1, <3>1, Zenon DEF BucketOK, SpentWithin, TakenWithin
  <2>3. \A x \in {"pacer", "limiter"} : entry'[x] \in 0..Len(buckets')
    BY <1>0, <1>u, Zenon DEF BucketInv, Used
  <2>4. entry'["limiter"] # 0 => buckets'[entry'["limiter"]].rate = Limit
    <3>1. entry["limiter"] # 0 =>
             /\ entry["limiter"] \in 1..Len(buckets)
             /\ buckets[entry["limiter"]].rate = Limit
      <4>1. entry["limiter"] \in 0..Len(buckets) /\ Len(buckets) \in Nat
        BY <1>0 DEF BucketInv, PacingTypeOK
      <4> QED
        BY <1>0, <4>1 DEF BucketInv
    <3> QED
      BY <1>u, <2>1, <3>1, Zenon
  <2>5. \A x \in Calls : pc'[x] = "take" =>
           /\ held'[x] \in 1..Len(buckets')
           /\ buckets'[held'[x]].rate = IF x \in Jobs THEN seen'[x] ELSE Limit
    <3> TAKE x \in Calls
    <3>1. pc'[x] = "take" => pc[x] = "take"
      BY <1>0, <1>p, Zenon DEF PacingTypeOK
    <3>2. pc[x] = "take" =>
             /\ held[x] \in 1..Len(buckets)
             /\ buckets[held[x]].rate = IF x \in Jobs THEN seen[x] ELSE Limit
      BY <1>0, Zenon DEF BucketInv
    <3>3. Len(buckets') = Len(buckets)
      BY Zenon DEF Used
    <3> QED
      BY <1>u, <2>1, <3>1, <3>2, <3>3, Zenon
  <2> QED
    BY <2>2, <2>3, <2>4, <2>5, Zenon DEF BucketInv
<1>5. SnoozeInv'
  <2> SUFFICES ASSUME NEW j \in Jobs
               PROVE  /\ pc'[j] \in {"lookup", "take"} => wake'[j] <= ticks
                      /\ \A g \in 1..Len(buckets) : snoozed'[j][1] = g =>
                            /\ snoozed'[j][2] <= Len(taken'[g])
                            /\ snoozed'[j][2] = Len(taken'[g]) =>
                                  Enough(buckets'[g], wake'[j])
                      /\ snoozed'[j][1] \in 0..Len(buckets)
    <3>1. Len(buckets') = Len(buckets)
      BY Zenon DEF Used
    <3> QED
      BY <1>u, <3>1, Zenon DEF SnoozeInv, Enough
  \* A job that is not snoozed now.
  <2>1. CASE wake'[j] = wake[j] /\ snoozed'[j] = snoozed[j]
    <3>1. pc'[j] \in {"lookup", "take"} => wake[j] <= ticks
      <4>1. /\ j \in Calls
            /\ pc \in [Calls -> {"idle", "lookup", "take", "dispatched", "allowed",
                                "refused"}]
        BY <1>0, Zenon DEF PacingTypeOK, Calls
      <4>2. pc'[j] \in {"lookup", "take"} => pc[j] \in {"lookup", "take"}
        BY <1>p, <4>1, Zenon
      <4> QED
        BY <1>0, <4>2, Zenon DEF SnoozeInv
    <3>2. ASSUME NEW g \in 1..Len(buckets), snoozed[j][1] = g
          PROVE  /\ snoozed[j][2] <= Len(taken'[g])
                 /\ snoozed[j][2] = Len(taken'[g]) => Enough(buckets'[g], wake[j])
      <4>1. /\ snoozed[j][2] <= Len(taken[g])
            /\ snoozed[j][2] = Len(taken[g]) => Enough(buckets[g], wake[j])
        BY <1>0, <3>2, Zenon DEF SnoozeInv
      <4>2. CASE buckets'[g] = buckets[g] /\ taken'[g] = taken[g]
        BY <4>1, <4>2, Zenon
      <4>3. CASE buckets'[g] = Refill(buckets[g]) /\ taken'[g] = taken[g]
        <5>1. /\ ticks \in Nat /\ buckets[g] \in BucketRecords /\ wake[j] \in Nat
              /\ BucketOK(buckets[g], taken[g])
          BY <1>0 DEF PacingTypeOK, BucketInv
        <5>2. buckets[g].last <= ticks
          BY <5>1, Zenon DEF BucketOK
        <5> QED
          BY <4>1, <4>3, <5>1, <5>2, RefillKeepsEnough, Zenon
      <4>4. CASE Len(taken'[g]) = Len(taken[g]) + 1
        <5>1. Len(taken[g]) \in Nat /\ snoozed[j][2] \in Nat
          <6>1. taken[g] \in Seq(Nat) /\ snoozed[j] \in Nat \X Nat
            BY <1>0 DEF PacingTypeOK
          <6> QED
            BY <6>1
        <5> QED
          BY <4>1, <4>4, <5>1
      <4> QED
        BY <4>2, <4>3, <4>4, Zenon DEF Used
    <3> QED
      BY <1>0, <2>1, <3>1, <3>2, Zenon DEF SnoozeInv
  <2>2. CASE ~(wake'[j] = wake[j] /\ snoozed'[j] = snoozed[j])
    <3>1. PICK w \in Nat : Snoozes(c, h, w)
      BY <1>s, <2>2, Zenon
    <3>2. /\ wake' = [wake EXCEPT ![c] = w]
          /\ snoozed' = [snoozed EXCEPT ![c] = <<h, Len(taken[h])>>]
      BY <3>1, Zenon DEF Snoozes
    <3>3. j = c
      BY <1>0, <2>2, <3>2, Zenon DEF PacingTypeOK
    <3>4. wake'[j] = w /\ snoozed'[j] = <<h, Len(taken[h])>> /\ pc'[j] = to
      BY <1>0, <1>p, <3>2, <3>3, Zenon DEF PacingTypeOK
    <3>5. taken' = taken /\ Enough(buckets'[h], w)
      BY <3>1, Zenon DEF Snoozes
    <3>6. Len(taken[h]) \in Nat /\ h \in 0..Len(buckets)
      BY <1>0 DEF PacingTypeOK
    <3>7. snoozed'[j][1] = h /\ snoozed'[j][2] = Len(taken[h])
      BY <3>4
    <3>8. pc'[j] \notin {"lookup", "take"}
      BY <3>4, Zenon
    <3> QED
      BY <3>4, <3>5, <3>6, <3>7, <3>8
  <2> QED
    BY <2>1, <2>2, Zenon
<1> QED
  BY <1>3, <1>4, <1>5, Zenon DEF PacingInv
-----------------------------------------------------------------------------
(* Results *)

\* The invariant holds before the first call.
LEMMA PacingStarts == PacingInit => PacingInv
<1> SUFFICES ASSUME PacingInit
             PROVE  PacingInv
  BY Zenon
<1>1. rps \in Int
  BY PacingAssumption, Zenon DEF PacingInit
<1>2. PacingTypeOK
  BY <1>1 DEF PacingInit, PacingTypeOK
<1>3. BucketInv
  BY DEF PacingInit, BucketInv
<1>4. SnoozeInv
  BY DEF PacingInit, SnoozeInv, Calls
<1> QED
  BY <1>2, <1>3, <1>4, Zenon DEF PacingInv

\* What Reserve and Allow do to the bucket they hold.
LEMMA ReserveUses ==
    ASSUME PacingTypeOK, BucketInv, NEW c \in Calls, pc[c] = "take",
           NEW b, b = Refill(buckets[held[c]]),
           \/ b.tokens >= PerSecond /\ TakeToken(c, b)
           \/ PutBack(c, b)
    PROVE  /\ Used(held[c])
           /\ held[c] \in 1..Len(buckets)
           /\ b \in BucketRecords /\ b.last = ticks
<1>1. held[c] \in 1..Len(buckets)
  BY Zenon DEF BucketInv
<1>2. /\ ticks \in Nat /\ buckets[held[c]] \in BucketRecords
      /\ BucketOK(buckets[held[c]], taken[held[c]])
  BY <1>1 DEF PacingTypeOK, BucketInv
<1>3. b \in BucketRecords /\ b.last = ticks
  BY <1>2, RefillTokens, Zenon DEF BucketOK
<1> QED
  BY <1>1, <1>3, UseCases, Zenon

\* Every step of the pacer and of the limiter keeps the invariant.
LEMMA PacingStep == PacingInv /\ [PacingNext]_pacingVars => PacingInv'
<1> SUFFICES ASSUME PacingInv, [PacingNext]_pacingVars
             PROVE  PacingInv'
  BY Zenon
<1>0. PacingTypeOK /\ BucketInv /\ SnoozeInv
  BY Zenon DEF PacingInv
<1>c. Jobs \subseteq Calls /\ Posts \subseteq Calls
  BY Zenon DEF Calls
\* A step that leaves the buckets alone, and lets no call hold one.
<1>a. ASSUME UNCHANGED <<buckets, entry, held, wake, taken, snoozed>>,
             ticks' \in Nat, ticks' >= ticks, PacingTypeOK',
             \A c \in Calls : pc'[c] = "take" => pc[c] = "take" /\ seen'[c] = seen[c],
             \A j \in Jobs : pc'[j] = "lookup" => wake[j] <= ticks
      PROVE  PacingInv'
  <2>1. \A h \in 1..Len(buckets) : BucketOK(buckets[h], taken[h])'
    <3> SUFFICES ASSUME NEW h \in 1..Len(buckets)
                 PROVE  BucketOK(buckets[h], taken[h])'
      BY Zenon
    <3>1. BucketOK(buckets[h], taken[h]) /\ buckets[h].last \in Nat /\ ticks \in Nat
      <4>1. buckets[h] \in BucketRecords /\ ticks \in Nat
        BY <1>0 DEF PacingTypeOK
      <4>2. buckets[h].last \in Nat
        BY <4>1, Zenon DEF BucketRecords
      <4> QED
        BY <1>0, <4>1, <4>2, Zenon DEF BucketInv
    <3>2. buckets[h].last <= ticks'
      BY <1>a, <3>1 DEF BucketOK
    <3> QED
      BY <1>a, <3>1, <3>2, Zenon DEF BucketOK, SpentWithin, TakenWithin
  <2>2. BucketInv'
    BY <1>0, <1>a, <2>1, Zenon DEF BucketInv
  <2>3. \A j \in Jobs : pc'[j] \in {"lookup", "take"} => wake[j] <= ticks'
    <3> TAKE j \in Jobs
    <3>1. pc'[j] \in {"lookup", "take"} => wake[j] <= ticks
      BY <1>0, <1>a, <1>c, Zenon DEF SnoozeInv
    <3>2. wake[j] \in Nat /\ ticks \in Nat
      BY <1>0, Zenon DEF PacingTypeOK
    <3> QED
      BY <1>a, <3>1, <3>2
  <2>4. SnoozeInv'
    BY <1>0, <1>a, <2>3 DEF SnoozeInv, Enough
  <2> QED
    BY <1>a, <2>2, <2>4, Zenon DEF PacingInv
<1>1. CASE Tick
  <2>1. UNCHANGED <<rps, buckets, entry, pc, seen, held, wake, taken, snoozed>>
    BY <1>1, Zenon DEF Tick, mapVars, callVars, paceVars
  <2>2. ticks' \in Nat /\ ticks' >= ticks
    BY <1>0, <1>1 DEF Tick, PacingTypeOK
  <2>3. PacingTypeOK'
    BY <1>0, <2>1, <2>2, Zenon DEF PacingTypeOK
  <2> QED
    BY <1>0, <1>a, <2>1, <2>2, <2>3, Zenon DEF SnoozeInv
<1>2. ASSUME NEW r \in Rates, UpdateRate(r)
      PROVE  PacingInv'
  <2>1. /\ UNCHANGED <<ticks, buckets, entry, pc, seen, held, wake, taken, snoozed>>
        /\ rps' = r
    BY <1>2, Zenon DEF UpdateRate, mapVars, callVars
  <2>2. rps' \in Int /\ ticks \in Nat
    BY <1>0, <2>1, PacingAssumption, Zenon DEF PacingTypeOK
  <2>3. PacingTypeOK'
    BY <1>0, <2>1, <2>2, Zenon DEF PacingTypeOK
  <2> QED
    BY <1>0, <1>a, <2>1, <2>2, <2>3 DEF SnoozeInv
<1>3. ASSUME NEW j \in Jobs, Load(j)
      PROVE  PacingInv'
  <2>1. /\ UNCHANGED <<ticks, rps, buckets, entry, held, wake, taken, snoozed>>
        /\ pc' = [pc EXCEPT ![j] = "lookup"]
        /\ seen' = [seen EXCEPT ![j] = rps]
        /\ wake[j] <= ticks
    BY <1>3, Zenon DEF Load, mapVars, paceVars
  <2>2. PacingTypeOK' /\ ticks \in Nat
    BY <1>0, <2>1, Zenon DEF PacingTypeOK
  <2>3. \A c \in Calls : pc'[c] = "take" => pc[c] = "take" /\ seen'[c] = seen[c]
    BY <1>0, <2>1, Zenon DEF PacingTypeOK
  <2>4. \A i \in Jobs : pc'[i] = "lookup" => wake[i] <= ticks
    BY <1>0, <1>c, <2>1, Zenon DEF PacingTypeOK, SnoozeInv
  <2> QED
    BY <1>a, <2>1, <2>2, <2>3, <2>4
<1>4. ASSUME NEW j \in Jobs, Unpaced(j)
      PROVE  PacingInv'
  <2>1. /\ UNCHANGED <<ticks, rps, buckets, entry, seen, held, wake, taken, snoozed>>
        /\ pc' = [pc EXCEPT ![j] = "dispatched"]
    BY <1>4, Zenon DEF Unpaced, Goto, mapVars, paceVars
  <2>2. PacingTypeOK' /\ ticks \in Nat
    BY <1>0, <2>1, Zenon DEF PacingTypeOK
  <2>3. \A c \in Calls : /\ pc'[c] = "take" => pc[c] = "take"
                         /\ pc'[c] = "lookup" => pc[c] = "lookup"
    BY <1>0, <2>1, Zenon DEF PacingTypeOK
  <2> QED
    BY <1>0, <1>a, <1>c, <2>1, <2>2, <2>3 DEF SnoozeInv
<1>5. ASSUME NEW j \in Jobs, Lookup(j)
      PROVE  PacingInv'
  <2>1. /\ pc[j] = "lookup" /\ seen[j] > 0
        /\ FindBucket(j, "pacer", seen[j], Fits(seen[j]))
        /\ UNCHANGED <<ticks, rps, seen, wake, snoozed>>
    BY <1>5, Zenon DEF Lookup
  <2>2. PICK rate \in Nat \ {0} : rate = seen[j]
    BY <1>0, <1>c, <2>1 DEF PacingTypeOK
  <2>5. Found(j, "pacer", rate) \/ Made(j, "pacer", rate)
    BY <2>1, <2>2, Zenon DEF FindBucket, Fits, Found, Made, mapVars
  <2>6. /\ Extended
        /\ \E h \in 1..Len(buckets') :
              /\ buckets'[h].rate = rate
              /\ held' = [held EXCEPT ![j] = h]
              /\ pc' = [pc EXCEPT ![j] = "take"]
              /\ entry' \in {entry, [entry EXCEPT !["pacer"] = h]}
    BY <1>0, <1>c, <2>5, FindCases
  <2>7. wake[j] <= ticks
    BY <1>0, <2>1, Zenon DEF SnoozeInv
  <2> QED
    <3>1. PICK h \in 1..Len(buckets') :
             /\ buckets'[h].rate = rate
             /\ held' = [held EXCEPT ![j] = h]
             /\ pc' = [pc EXCEPT ![j] = "take"]
             /\ entry' \in {entry, [entry EXCEPT !["pacer"] = h]}
      BY <2>6, Zenon
    <3>2. Holds(j, "pacer", h)
      BY <2>1, <2>2, <2>7, <3>1, Zenon DEF Holds
    <3> QED
      BY <1>c, <2>6, <3>2, FindStep, Zenon
<1>6. ASSUME NEW j \in Jobs, Reserve(j)
      PROVE  PacingInv'
  <2> DEFINE b == Refill(buckets[held[j]])
  <2>1. /\ pc[j] = "take"
        /\ UNCHANGED <<ticks, rps, entry, seen, held>>
        /\ \/ b.tokens >= PerSecond /\ TakeToken(j, b)
           \/ PutBack(j, b)
    BY <1>6, Zenon DEF Reserve
  <2>2. \/ Goto(j, "dispatched") /\ UNCHANGED <<wake, snoozed>>
        \/ /\ b.tokens < PerSecond /\ PutBack(j, b)
           /\ Goto(j, "idle")
           /\ wake' = [wake EXCEPT ![j] = ticks + Wait(b)]
           /\ snoozed' = [snoozed EXCEPT ![j] = <<held[j], Len(taken[held[j]])>>]
    BY <1>6, Zenon DEF Reserve
  <2> HIDE DEF b
  <2>3. /\ Used(held[j]) /\ held[j] \in 1..Len(buckets)
        /\ b \in BucketRecords /\ b.last = ticks
    BY <1>0, <1>c, <2>1, ReserveUses, Zenon DEF b
  <2>4. CASE Goto(j, "dispatched") /\ UNCHANGED <<wake, snoozed>>
    <3>1. Releases(j, held[j], "dispatched")
      BY <2>1, <2>4, Zenon DEF Releases, Goto
    <3> QED
      BY <1>c, <2>3, <3>1, UseStep, Zenon
  <2>5. CASE /\ b.tokens < PerSecond /\ PutBack(j, b)
             /\ Goto(j, "idle")
             /\ wake' = [wake EXCEPT ![j] = ticks + Wait(b)]
             /\ snoozed' = [snoozed EXCEPT ![j] = <<held[j], Len(taken[held[j]])>>]
    <3>1. ticks \in Nat /\ buckets \in Seq(BucketRecords)
      BY <1>0, Zenon DEF PacingTypeOK
    <3>2. Wait(b) \in Nat /\ Enough(b, ticks + Wait(b))
      BY <2>3, <2>5, <3>1, WaitIsEnough, Zenon
    <3>3. buckets'[held[j]] = b /\ taken' = taken
      BY <2>3, <2>5, <3>1 DEF PutBack
    <3>4. PICK w \in Nat : w = ticks + Wait(b)
      BY <3>1, <3>2
    <3>5. /\ wake' = [wake EXCEPT ![j] = w]
          /\ Enough(buckets'[held[j]], w)
      BY <2>5, <3>2, <3>3, <3>4, Zenon
    <3> QED
      <4>1. Snoozes(j, held[j], w)
        BY <2>5, <3>3, <3>5, Zenon DEF Snoozes
      <4>2. Releases(j, held[j], "idle")
        BY <2>1, <2>5, <4>1, Zenon DEF Releases, Goto
      <4> QED
        BY <1>c, <2>3, <4>2, UseStep, Zenon
  <2> QED
    BY <2>2, <2>4, <2>5, Zenon
<1>7. ASSUME NEW q \in Posts, LookupSource(q)
      PROVE  PacingInv'
  <2>1. /\ FindBucket(q, "limiter", Limit, entry["limiter"] # 0)
        /\ UNCHANGED <<ticks, rps, seen, wake, snoozed>>
    BY <1>7, Zenon DEF LookupSource
  <2>2. Limit \in Nat \ {0} /\ q \notin Jobs
    BY PacingAssumption, Zenon
  <2>4. entry["limiter"] # 0 => buckets[entry["limiter"]].rate = Limit
    BY <1>0, Zenon DEF BucketInv
  <2>5. Found(q, "limiter", Limit) \/ Made(q, "limiter", Limit)
    BY <2>1, <2>4, Zenon DEF FindBucket, Found, Made, mapVars
  <2>6. /\ Extended
        /\ \E h \in 1..Len(buckets') :
              /\ buckets'[h].rate = Limit
              /\ held' = [held EXCEPT ![q] = h]
              /\ pc' = [pc EXCEPT ![q] = "take"]
              /\ entry' \in {entry, [entry EXCEPT !["limiter"] = h]}
    BY <1>0, <1>c, <2>2, <2>5, FindCases
  <2> QED
    <3>1. PICK h \in 1..Len(buckets') :
             /\ buckets'[h].rate = Limit
             /\ held' = [held EXCEPT ![q] = h]
             /\ pc' = [pc EXCEPT ![q] = "take"]
             /\ entry' \in {entry, [entry EXCEPT !["limiter"] = h]}
      BY <2>6, Zenon
    <3>2. Holds(q, "limiter", h)
      BY <2>1, <2>2, <3>1, Zenon DEF Holds
    <3> QED
      BY <1>c, <2>6, <3>2, FindStep, Zenon
<1>8. ASSUME NEW q \in Posts, Allow(q)
      PROVE  PacingInv'
  <2> DEFINE b == Refill(buckets[held[q]])
  <2>1. /\ pc[q] = "take"
        /\ UNCHANGED <<ticks, rps, entry, seen, held, wake, snoozed>>
        /\ \/ b.tokens >= PerSecond /\ TakeToken(q, b)
           \/ PutBack(q, b)
    BY <1>8, Zenon DEF Allow
  <2>2. Goto(q, "refused") \/ Goto(q, "allowed")
    BY <1>8, Zenon DEF Allow
  <2> HIDE DEF b
  <2>3. Used(held[q]) /\ held[q] \in 1..Len(buckets)
    BY <1>0, <1>c, <2>1, ReserveUses, Zenon DEF b
  <2>4. PICK to \in {"refused", "allowed"} : Goto(q, to)
    BY <2>2, Zenon
  <2>5. Releases(q, held[q], to)
    BY <2>1, <2>4, Zenon DEF Releases, Goto
  <2> QED
    BY <1>c, <2>3, <2>5, UseStep, Zenon
<1>9. CASE UNCHANGED pacingVars
  <2>1. UNCHANGED <<ticks, rps, buckets, entry, pc, seen, held, wake, taken, snoozed>>
    BY <1>9, Zenon DEF pacingVars, mapVars, callVars, paceVars
  <2>2. PacingTypeOK' /\ ticks \in Nat
    BY <1>0, <2>1, Zenon DEF PacingTypeOK
  <2> QED
    BY <1>0, <1>a, <2>1, <2>2 DEF SnoozeInv
<1> QED
  BY <1>1, <1>2, <1>3, <1>4, <1>5, <1>6, <1>7, <1>8, <1>9, Zenon DEF PacingNext

\* The invariant of the two token buckets always holds.
LEMMA PacingInvariant == PacingSpec => []PacingInv
  BY PacingStarts, PacingStep, PTL DEF PacingSpec

\* No bucket changes its rate, and the record of its tokens only grows.
Kept ==
    \A g \in 1..Len(buckets) :
        /\ g \in 1..Len(buckets')
        /\ buckets'[g].rate = buckets[g].rate
        /\ Len(taken[g]) <= Len(taken'[g])
        /\ \A i \in 1..Len(taken[g]) : taken'[g][i] = taken[g][i]

\* Hence what is said of the dispatches without a token stays true.
LEMMA EarlyKept ==
    ASSUME PacingTypeOK, PacingTypeOK', Kept, NEW e, EarlyOK(e)
    PROVE  EarlyOK(e)'
<1>1. PICK g \in 1..Len(buckets) : g = e[1]
  BY Zenon DEF EarlyOK
<1>2. PICK n \in 0..Len(taken[g]) : n = e[2]
  BY <1>1, Zenon DEF EarlyOK
<1>3. Len(taken[g]) \in Nat /\ Len(taken'[g]) \in Nat
  <2>1. g \in 1..Len(taken) /\ g \in 1..Len(taken')
    BY <1>1, Zenon DEF PacingTypeOK, Kept
  <2>2. taken \in Seq(Seq(Nat)) /\ taken' \in Seq(Seq(Nat))
    BY Zenon DEF PacingTypeOK
  <2> QED
    BY <2>1, <2>2
<1>4. n \in 0..Len(taken'[g]) /\ 1..n \subseteq 1..Len(taken[g])
  <2>1. Len(taken[g]) <= Len(taken'[g])
    BY <1>1, Zenon DEF Kept
  <2> QED
    BY <1>2, <1>3, <2>1
<1>5. \A i \in 1..n : taken'[g][i] = taken[g][i]
  BY <1>1, <1>4, Zenon DEF Kept
<1>6. g \in 1..Len(buckets') /\ buckets'[g].rate = buckets[g].rate
  BY <1>1, Zenon DEF Kept
<1> QED
  BY <1>1, <1>2, <1>4, <1>5, <1>6, Zenon DEF EarlyOK

\* Finding a bucket, and using one, change no other.
LEMMA FindKeeps ==
    ASSUME PacingTypeOK, Extended
    PROVE  Kept
<1>1. Len(buckets) \in Nat /\ Len(buckets') \in Nat /\ Len(buckets') >= Len(buckets)
  BY DEF PacingTypeOK, Extended
<1>2. \A g \in 1..Len(buckets) : g \in 1..Len(buckets') /\ Len(taken[g]) \in Nat
  BY <1>1 DEF PacingTypeOK
<1>3. \A g \in 1..Len(buckets) : buckets'[g] = buckets[g] /\ taken'[g] = taken[g]
  BY Zenon DEF Extended
<1> QED
  BY <1>2, <1>3 DEF Kept

LEMMA UseKeeps ==
    ASSUME PacingTypeOK, NEW h \in 1..Len(buckets), Used(h)
    PROVE  Kept
<1> SUFFICES ASSUME NEW g \in 1..Len(buckets)
             PROVE  /\ buckets'[g].rate = buckets[g].rate
                    /\ Len(taken[g]) <= Len(taken'[g])
                    /\ \A i \in 1..Len(taken[g]) : taken'[g][i] = taken[g][i]
  BY Zenon DEF Kept, Used
<1>1. Len(taken[g]) \in Nat
  BY DEF PacingTypeOK
<1>2. CASE g # h
  <2>1. buckets'[g] = buckets[g] /\ taken'[g] = taken[g]
    BY <1>2, Zenon DEF Used
  <2>2. Len(taken[g]) <= Len(taken[g])
    BY <1>1
  <2> QED
    BY <2>1, <2>2, Zenon
<1>3. CASE g = h
  <2>1. buckets'[g].rate = buckets[g].rate
    BY <1>3, Zenon DEF Used
  <2>2. \/ taken'[g] = taken[g]
        \/ /\ Len(taken'[g]) = Len(taken[g]) + 1
           /\ \A i \in 1..Len(taken[g]) : taken'[g][i] = taken[g][i]
    BY <1>3, Zenon DEF Used
  <2>3. Len(taken[g]) <= Len(taken[g]) /\ Len(taken[g]) <= Len(taken[g]) + 1
    BY <1>1
  <2> QED
    BY <2>1, <2>2, <2>3, Zenon
<1> QED
  BY <1>2, <1>3, Zenon

\* A token of p units of which n are there and less than r are missing.
LEMMA ShortOfOne ==
    ASSUME NEW n \in Int, NEW p \in Int, NEW r \in Int, NEW x \in Int, NEW y \in Int,
           p - n < r, n + x <= y
    PROVE  x + p < y + r
  OBVIOUS

\* A bucket with less than a tick's refill missing of its next token: one
\* more dispatch is less than a tick early.
LEMMA AlmostThere ==
    ASSUME ticks \in Nat, NEW b \in BucketRecords, NEW s \in Seq(Nat),
           SpentWithin(b, s), b.last = ticks, b.tokens < PerSecond, Wait(b) = 0
    PROVE  \A i \in 1..Len(s) :
              (Len(s) - i + 2) * PerSecond < b.rate * (PerSecond + ticks + 1 - s[i])
<1> TAKE i \in 1..Len(s)
<1>1. /\ b.rate \in Nat \ {0} /\ b.tokens \in Nat /\ PerSecond \in Nat \ {0}
      /\ Len(s) \in Nat /\ s[i] \in Nat
  BY PacingAssumption DEF BucketRecords
<1>2. PerSecond - b.tokens < b.rate
  <2> DEFINE lack == PerSecond - b.tokens
  <2>1. lack \in Nat
    BY <1>1
  <2>2. lack \div b.rate = 0
    BY Zenon DEF Wait
  <2> HIDE DEF lack
  <2>3. b.rate * (lack \div b.rate) + b.rate > lack
    BY <1>1, <2>1, Truncated, Zenon
  <2>4. lack < b.rate
    BY <1>1, <2>1, <2>2, <2>3
  <2> QED
    BY <2>4 DEF lack
<1> DEFINE n == Len(s) - i + 1
           x == n * PerSecond
           z == PerSecond + ticks - s[i]
           y == b.rate * z
<1>3. b.tokens + x <= y
  BY Zenon DEF SpentWithin
<1>4. n \in Int /\ Len(s) - i + 2 = n + 1
  BY <1>1
<1>5. x \in Int /\ (n + 1) * PerSecond = x + PerSecond
  <2> HIDE DEF n
  <2> QED
    BY <1>4, OneMore, Zenon
<1>r. b.rate \in Int /\ b.tokens \in Int /\ PerSecond \in Int
  BY <1>1
<1>t. ticks \in Int /\ s[i] \in Int
  BY <1>1
<1>6. z \in Int /\ PerSecond + ticks + 1 - s[i] = z + 1
  <2>1. PICK q \in Int, t \in Int, u \in Int : q = PerSecond /\ t = ticks /\ u = s[i]
    BY <1>r, <1>t, Zenon
  <2>2. q + t - u \in Int /\ q + t + 1 - u = (q + t - u) + 1
    OBVIOUS
  <2> QED
    BY <2>1, <2>2, Zenon
<1>7. y \in Int /\ b.rate * (z + 1) = y + b.rate
  <2> HIDE DEF z
  <2> QED
    BY <1>6, <1>r, OneTickMore, Zenon
<1>8. x + PerSecond < y + b.rate
  <2>1. x \in Int /\ y \in Int
    BY <1>5, <1>7, Zenon
  <2> HIDE DEF x, y
  <2> QED
    BY <1>2, <1>3, <1>r, <2>1, ShortOfOne, Zenon
<1> QED
  <2> HIDE DEF n, x, y, z
  <2> QED
    BY <1>4, <1>5, <1>6, <1>7, <1>8, Zenon

\* Every step keeps the buckets' records, and dispatches a job without a token
\* only less than a tick early.
LEMMA EarlyStep ==
    ASSUME PacingInv, PacingInv', EarlyInv, [PacingNext]_pacingVars
    PROVE  EarlyInv'
<1>0. PacingTypeOK /\ BucketInv /\ SnoozeInv /\ PacingTypeOK'
  BY Zenon DEF PacingInv
<1>c. Jobs \subseteq Calls /\ Posts \subseteq Calls
  BY Zenon DEF Calls
<1>k. ASSUME Kept, early' = early
      PROVE  EarlyInv'
  BY <1>0, <1>k, EarlyKept, Zenon DEF EarlyInv
<1>u. ASSUME UNCHANGED <<buckets, taken, early>>
      PROVE  EarlyInv'
  <2>1. \A g \in 1..Len(buckets) : Len(taken[g]) \in Nat
    BY <1>0 DEF PacingTypeOK
  <2>2. Kept
    BY <1>u, <2>1 DEF Kept
  <2> QED
    BY <1>k, <1>u, <2>2, Zenon
<1>1. CASE Tick \/ UNCHANGED pacingVars
  BY <1>1, <1>u, Zenon DEF Tick, pacingVars, mapVars, paceVars
<1>2. ASSUME NEW r \in Rates, UpdateRate(r)
      PROVE  EarlyInv'
  BY <1>2, <1>u, Zenon DEF UpdateRate, mapVars
<1>3. ASSUME NEW j \in Jobs, Load(j) \/ Unpaced(j)
      PROVE  EarlyInv'
  BY <1>3, <1>u, Zenon DEF Load, Unpaced, mapVars, paceVars
<1>4. ASSUME NEW j \in Jobs, Lookup(j)
      PROVE  EarlyInv'
  <2>1. /\ pc[j] = "lookup" /\ seen[j] > 0 /\ early' = early
        /\ FindBucket(j, "pacer", seen[j], Fits(seen[j]))
    BY <1>4, Zenon DEF Lookup
  <2>s. seen[j] \in Int /\ seen[j] > 0
    BY <1>0, <1>c, <2>1, Zenon DEF PacingTypeOK
  <2>2. PICK rate \in Nat \ {0} : rate = seen[j]
    BY <2>s
  <2>3. Found(j, "pacer", rate) \/ Made(j, "pacer", rate)
    BY <2>1, <2>2, Zenon DEF FindBucket, Fits, Found, Made, mapVars
  <2>4. Extended
    BY <1>0, <1>c, <2>3, FindCases, Zenon
  <2> QED
    BY <1>0, <1>k, <2>1, <2>4, FindKeeps, Zenon
<1>5. ASSUME NEW q \in Posts, LookupSource(q)
      PROVE  EarlyInv'
  <2>1. /\ FindBucket(q, "limiter", Limit, entry["limiter"] # 0)
        /\ early' = early
    BY <1>5, Zenon DEF LookupSource
  <2>2. entry["limiter"] # 0 => buckets[entry["limiter"]].rate = Limit
    BY <1>0, Zenon DEF BucketInv
  <2>3. Found(q, "limiter", Limit) \/ Made(q, "limiter", Limit)
    BY <2>1, <2>2, Zenon DEF FindBucket, Found, Made, mapVars
  <2>4. Limit \in Nat \ {0}
    BY PacingAssumption, Zenon
  <2>5. Extended
    BY <1>0, <1>c, <2>3, <2>4, FindCases, Zenon
  <2> QED
    BY <1>0, <1>k, <2>1, <2>5, FindKeeps, Zenon
<1>6. ASSUME NEW q \in Posts, Allow(q)
      PROVE  EarlyInv'
  <2> DEFINE b == Refill(buckets[held[q]])
  <2>1. /\ pc[q] = "take" /\ early' = early
        /\ \/ b.tokens >= PerSecond /\ TakeToken(q, b)
           \/ PutBack(q, b)
    BY <1>6, Zenon DEF Allow
  <2> HIDE DEF b
  <2>2. Used(held[q]) /\ held[q] \in 1..Len(buckets)
    BY <1>0, <1>c, <2>1, ReserveUses, Zenon DEF b
  <2> QED
    BY <1>0, <1>k, <2>1, <2>2, UseKeeps, Zenon
<1>7. ASSUME NEW j \in Jobs, Reserve(j)
      PROVE  EarlyInv'
  <2> DEFINE b == Refill(buckets[held[j]])
             new == <<held[j], Len(taken[held[j]]), ticks>>
  <2>1. /\ pc[j] = "take"
        /\ \/ b.tokens >= PerSecond /\ TakeToken(j, b)
           \/ PutBack(j, b)
    BY <1>7, Zenon DEF Reserve
  <2>2. \/ early' = early
        \/ /\ b.tokens < PerSecond /\ Wait(b) = 0 /\ PutBack(j, b)
           /\ early' = early \cup {new}
    BY <1>7, Zenon DEF Reserve
  <2> HIDE DEF b
  <2>3. /\ Used(held[j]) /\ held[j] \in 1..Len(buckets)
        /\ b \in BucketRecords /\ b.last = ticks
    BY <1>0, <1>c, <2>1, ReserveUses, Zenon DEF b
  <2>4. Kept
    BY <1>0, <2>3, UseKeeps, Zenon
  <2>5. CASE early' = early
    BY <1>k, <2>4, <2>5, Zenon
  <2>6. CASE /\ b.tokens < PerSecond /\ Wait(b) = 0 /\ PutBack(j, b)
             /\ early' = early \cup {new}
    <3>1. PICK h \in 1..Len(buckets) : h = held[j]
      BY <2>3, Zenon
    <3>2. /\ buckets[h] \in BucketRecords /\ taken[h] \in Seq(Nat) /\ ticks \in Nat
          /\ BucketOK(buckets[h], taken[h]) /\ Len(taken[h]) \in 0..Len(taken[h])
      <4>0. /\ buckets \in Seq(BucketRecords) /\ taken \in Seq(Seq(Nat))
            /\ Len(taken) = Len(buckets) /\ ticks \in Nat
            /\ BucketOK(buckets[h], taken[h])
        BY <1>0, Zenon DEF PacingTypeOK, BucketInv
      <4>1. /\ buckets[h] \in BucketRecords /\ taken[h] \in Seq(Nat) /\ ticks \in Nat
            /\ BucketOK(buckets[h], taken[h])
        BY <4>0
      <4>2. Len(taken[h]) \in Nat
        BY <4>1
      <4>3. Len(taken[h]) \in 0..Len(taken[h])
        BY <4>2
      <4> QED
        BY <4>1, <4>3, Zenon
    <3>3. SpentWithin(b, taken[h]) /\ b.rate = buckets[h].rate
      BY <3>1, <3>2, RefillOK, RefillTokens, Zenon DEF BucketOK, b
    <3>4. taken' = taken /\ h \in 1..Len(buckets') /\ buckets'[h].rate = b.rate
      BY <2>4, <2>6, <3>1, <3>3, Zenon DEF PutBack, Kept
    <3>5. \A i \in 1..Len(taken[h]) :
             (Len(taken[h]) - i + 2) * PerSecond <
                b.rate * (PerSecond + ticks + 1 - taken[h][i])
      BY <2>3, <2>6, <3>2, <3>3, AlmostThere, Zenon
    <3>6. PICK e \in {new} :
             e[1] = h /\ e[2] = Len(taken[h]) /\ e[3] = ticks
      BY <3>1
    <3>7. EarlyOK(e)'
      BY <3>2, <3>4, <3>5, <3>6, Zenon DEF EarlyOK
    <3>8. \A f \in early : EarlyOK(f)'
      BY <1>0, <2>4, EarlyKept, Zenon DEF EarlyInv
    <3>9. early' = early \cup {e}
      BY <2>6, <3>6, Zenon
    <3> QED
      BY <3>7, <3>8, <3>9, Zenon DEF EarlyInv
  <2> QED
    BY <2>2, <2>5, <2>6, Zenon
<1> QED
  BY <1>1, <1>2, <1>3, <1>4, <1>5, <1>6, <1>7, Zenon DEF PacingNext

\* What paceBucket.reserve and tokenBucket.allow let through one bucket,
\* whatever the interleaving of the calls and the changes of the rate: with a
\* token, no more in any interval than its burst and the refill of that time;
\* without one, by a wait truncated to zero, only less than a tick early.  And
\* a call uses a bucket of the rate that it has loaded.
THEOREM RateIsKept == PacingSpec => []RateKept
<1>1. PacingInit => EarlyInv
  BY Zenon DEF PacingInit, EarlyInv
<1>2. PacingInv /\ EarlyInv /\ [PacingNext]_pacingVars /\ PacingInv' => EarlyInv'
  BY EarlyStep, Zenon
<1>3. PacingInv /\ EarlyInv => RateKept
  <2> SUFFICES ASSUME PacingInv, EarlyInv
               PROVE  RateKept
    BY Zenon
  <2>1. /\ DOMAIN buckets = 1..Len(buckets)
        /\ \A b \in 1..Len(buckets) : DOMAIN taken[b] = 1..Len(taken[b])
    BY DEF PacingInv, PacingTypeOK
  <2>2. \A b \in 1..Len(buckets) : TakenWithin(buckets[b], taken[b])
    BY Zenon DEF PacingInv, BucketInv, BucketOK
  <2>3. \A c \in Calls : pc[c] = "take" =>
           buckets[held[c]].rate = IF c \in Jobs THEN seen[c] ELSE Limit
    BY Zenon DEF PacingInv, BucketInv
  <2> QED
    BY <2>1, <2>2, <2>3, Zenon DEF RateKept, TakenWithin, EarlyInv, EarlyOK
<1> QED
  BY <1>1, <1>2, <1>3, PacingInvariant, PTL DEF PacingSpec

\* A job that Work snoozed for the wait of pacer.reserve, and that comes back
\* to the same bucket, is not snoozed again unless another call took a token in
\* the meantime: truncating the wait to the clock's resolution loses nothing.
THEOREM SnoozeIsEnough == PacingSpec => SnoozeSuffices
<1>1. ASSUME PacingInv, PacingNext, NEW j \in Jobs, pc[j] = "take", pc'[j] = "idle"
      PROVE  snoozed[j] # <<held[j], Len(taken[held[j]])>>
  <2>0. PacingTypeOK /\ BucketInv /\ SnoozeInv /\ j \in Calls
    BY <1>1, Zenon DEF PacingInv, Calls
  <2>1. Reserve(j)
    <3>1. Tick \/ (\E r \in Rates : UpdateRate(r)) => pc' = pc
      BY Zenon DEF Tick, UpdateRate, callVars
    <3>2. \A c \in Calls \ {j} :
             Load(c) \/ Unpaced(c) \/ Lookup(c) \/ Reserve(c) \/ LookupSource(c) \/ Allow(c)
                => pc'[j] = pc[j]
      <4> TAKE c \in Calls \ {j}
      <4>1. Load(c) \/ Unpaced(c) => \E to : pc' = [pc EXCEPT ![c] = to]
        BY Zenon DEF Load, Unpaced, Goto
      <4>2. Lookup(c) \/ LookupSource(c) => \E to : pc' = [pc EXCEPT ![c] = to]
        BY Zenon DEF Lookup, LookupSource, FindBucket, Hold
      <4>3. Reserve(c) \/ Allow(c) => \E to : pc' = [pc EXCEPT ![c] = to]
        BY Zenon DEF Reserve, Allow, Goto
      <4>4. (\E to : pc' = [pc EXCEPT ![c] = to]) => pc'[j] = pc[j]
        BY <2>0, Zenon DEF PacingTypeOK
      <4> QED
        BY <4>1, <4>2, <4>3, <4>4, Zenon
    <3>3. ~Load(j) /\ ~Unpaced(j) /\ ~Lookup(j) /\ ~LookupSource(j) /\ j \notin Posts
      BY <1>1, PacingAssumption, Zenon DEF Load, Unpaced, Lookup, LookupSource
    <3> QED
      BY <1>1, <3>1, <3>2, <3>3, Zenon DEF PacingNext, Calls
  <2> DEFINE b == Refill(buckets[held[j]])
  <2>2. /\ b.tokens < PerSecond /\ Wait(b) > 0 /\ PutBack(j, b)
    BY <1>1, <2>0, <2>1, Zenon DEF Reserve, Goto, PacingTypeOK
  <2>3. /\ held[j] \in 1..Len(buckets) /\ wake[j] <= ticks
        /\ ticks \in Nat /\ wake[j] \in Nat
        /\ buckets[held[j]] \in BucketRecords
        /\ BucketOK(buckets[held[j]], taken[held[j]])
    BY <1>1, <2>0 DEF BucketInv, SnoozeInv, PacingTypeOK
  <2>4. ASSUME snoozed[j] = <<held[j], Len(taken[held[j]])>>
        PROVE  Enough(b, wake[j])
    <3>1. Enough(buckets[held[j]], wake[j])
      BY <2>0, <2>3, <2>4 DEF SnoozeInv
    <3> QED
      BY <2>3, <3>1, RefillKeepsEnough, Zenon DEF BucketOK
  <2>5. b \in BucketRecords /\ b.last = ticks
    BY <2>3, RefillTokens, Zenon DEF BucketOK
  <2> HIDE DEF b
  <2> QED
    BY <2>2, <2>3, <2>4, <2>5, EnoughMeansNoWait
<1>2. PacingInv /\ [PacingNext]_pacingVars =>
        [\A j \in Jobs : pc[j] = "take" /\ pc'[j] = "idle" =>
            snoozed[j] # <<held[j], Len(taken[held[j]])>>]_pacingVars
  BY <1>1, Zenon
<1> QED
  BY <1>2, PacingInvariant, PTL DEF PacingSpec, SnoozeSuffices
=============================================================================
