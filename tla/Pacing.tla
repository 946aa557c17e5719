------------------------------- MODULE Pacing -------------------------------
(***************************************************************************)
(* The two token buckets of the gateway: the pacer of the delivery worker  *)
(* (internal/delivery/pacing.go), whose rate the destinations API changes, *)
(* and the rate limiter of the ingest endpoint                             *)
(* (internal/ingest/rate_limit.go), whose rate is fixed at startup.        *)
(*                                                                         *)
(* Keys do not share buckets, so there is one destination and one source.  *)
(* A bucket is found under the lock of the map and used under its own      *)
(* lock: two steps, between which time passes and other calls run.  A tick *)
(* is the resolution of the clock, a nanosecond; PerSecond is the number   *)
(* of ticks in a second.  Tokens are counted in units of 1/PerSecond, so   *)
(* that a tick refills exactly `rate' units.                               *)
(***************************************************************************)
EXTENDS Integers, Sequences, FiniteSets, FiniteSetsExt

CONSTANTS
    Jobs,         \* delivery jobs of the destination, each dispatched once
    Posts,        \* requests to the source
    Rates,        \* values of rate_limit_per_second; 0 for NULL
    Limit,        \* tokens per second of the ingest limiter
    PerSecond,    \* ticks in a second
    MaxUpdates,   \* bound: changes of the rate through the API
    MaxTicks      \* bound on the clock

ASSUME PacingAssumption ==
    /\ Rates \subseteq Int
    /\ {Limit, PerSecond} \subseteq Nat \ {0}
    /\ {MaxUpdates, MaxTicks} \subseteq Nat
    /\ Jobs \cap Posts = {}

Calls == Jobs \cup Posts

VARIABLES
    ticks,        \* the clock
    rps,          \* destinations.rate_limit_per_second
    buckets,      \* every bucket created, replaced ones included
    entry,        \* the maps: index of the current bucket, 0 when absent
    pc, seen,     \* each call: position, rate it loaded
    held,         \* bucket it found
    wake,         \* time a job is scheduled for
    \* history: times at which tokens were taken from each bucket; dispatches
    \* without a token: the bucket, how many were taken from it by then, the
    \* time; the bucket a job was last snoozed on with the tokens taken from
    \* it by then; the bounded number of updates
    taken, early, snoozed, updates

mapVars == <<buckets, entry>>
callVars == <<pc, seen, held, wake>>
paceVars == <<taken, early, snoozed, updates>>

pacingVars == <<ticks, rps, mapVars, callVars, paceVars>>
-----------------------------------------------------------------------------
PacingInit ==
    /\ ticks = 0
    /\ rps \in Rates
    /\ buckets = <<>>
    /\ entry = [m \in {"pacer", "limiter"} |-> 0]
    /\ pc = [c \in Calls |-> "idle"]
    /\ seen = [c \in Calls |-> 0]
    /\ held = [c \in Calls |-> 0]
    /\ wake = [j \in Jobs |-> 0]
    /\ taken = <<>>
    /\ early = {}
    /\ snoozed = [j \in Jobs |-> <<0, 0>>]
    /\ updates = 0

Tick ==
    /\ ticks < MaxTicks
    /\ ticks' = ticks + 1
    /\ UNCHANGED <<rps, mapVars, callVars, paceVars>>

\* PUT /api/destinations/{id}
UpdateRate(r) ==
    /\ updates < MaxUpdates
    /\ updates' = updates + 1
    /\ rps' = r
    /\ UNCHANGED <<ticks, mapVars, callVars, taken, early, snoozed>>

\* A job is worked once its snooze is over: the destination is loaded.
Load(j) ==
    /\ pc[j] = "idle"
    /\ wake[j] <= ticks
    /\ pc' = [pc EXCEPT ![j] = "lookup"]
    /\ seen' = [seen EXCEPT ![j] = rps]
    /\ UNCHANGED <<ticks, rps, mapVars, held, wake, paceVars>>
-----------------------------------------------------------------------------
(* The buckets *)

FullBucket(rate) == [rate |-> rate, tokens |-> rate * PerSecond, last |-> ticks]

\* The call has found its bucket.
Hold(c, b) ==
    /\ held' = [held EXCEPT ![c] = b]
    /\ pc' = [pc EXCEPT ![c] = "take"]

\* The bucket of a map, under the map's lock: the one it has, or a new one.
FindBucket(c, m, rate, fits) ==
    IF fits
    THEN Hold(c, entry[m]) /\ UNCHANGED <<mapVars, taken>>
    ELSE /\ buckets' = Append(buckets, FullBucket(rate))
         /\ taken' = Append(taken, <<>>)
         /\ entry' = [entry EXCEPT ![m] = Len(buckets) + 1]
         /\ Hold(c, Len(buckets) + 1)

\* Mutant: the refill is counted in whole tokens.
RefillWhole(b) ==
    LET whole == ((ticks - b.last) * b.rate) \div PerSecond IN
    [rate |-> b.rate,
     tokens |-> Min({b.tokens + whole * PerSecond, b.rate * PerSecond}),
     last |-> ticks]

\* Mutant: the time of the refill is not stored.
RefillForgetful(b) ==
    [rate |-> b.rate,
     tokens |-> Min({b.tokens + (ticks - b.last) * b.rate, b.rate * PerSecond}),
     last |-> b.last]

Refill(b) ==
    [rate |-> b.rate,
     tokens |-> Min({b.tokens + (ticks - b.last) * b.rate, b.rate * PerSecond}),
     last |-> ticks]

\* The token of a call that has refilled its bucket to b.
TakeToken(c, b) ==
    /\ buckets' = [buckets EXCEPT ![held[c]] = [b EXCEPT !.tokens = @ - PerSecond]]
    /\ taken' = [taken EXCEPT ![held[c]] = Append(@, ticks)]

PutBack(c, b) ==
    /\ buckets' = [buckets EXCEPT ![held[c]] = b]
    /\ UNCHANGED taken

Goto(c, to) == pc' = [pc EXCEPT ![c] = to]
-----------------------------------------------------------------------------
(* pacer.reserve, called by Work *)

\* The pacer's bucket exists and is of this rate.
Fits(rate) == entry["pacer"] # 0 /\ buckets[entry["pacer"]].rate = rate

\* No rate: dispatched at once.
Unpaced(j) ==
    /\ pc[j] = "lookup"
    /\ seen[j] <= 0
    /\ Goto(j, "dispatched")
    /\ UNCHANGED <<ticks, rps, mapVars, seen, held, wake, paceVars>>

Lookup(j) ==
    /\ pc[j] = "lookup"
    /\ seen[j] > 0
    /\ FindBucket(j, "pacer", seen[j], Fits(seen[j]))
    /\ UNCHANGED <<ticks, rps, seen, wake, early, snoozed, updates>>

\* The refill wait, truncated to whole ticks.
Wait(b) == (PerSecond - b.tokens) \div b.rate

\* paceBucket.reserve, and Work dispatches or snoozes.  A wait that is
\* truncated to zero dispatches the job, and leaves the token where it is.
Reserve(j) ==
    LET b == Refill(buckets[held[j]]) IN
    /\ j \in Jobs
    /\ pc[j] = "take"
    /\ \/ /\ b.tokens >= PerSecond
          /\ TakeToken(j, b)
          /\ Goto(j, "dispatched")
          /\ UNCHANGED <<wake, early, snoozed>>
       \/ /\ b.tokens < PerSecond /\ Wait(b) = 0
          /\ PutBack(j, b)
          /\ Goto(j, "dispatched")
          /\ early' = early \cup {<<held[j], Len(taken[held[j]]), ticks>>}
          /\ UNCHANGED <<wake, snoozed>>
       \/ /\ b.tokens < PerSecond /\ Wait(b) > 0
          /\ PutBack(j, b)
          /\ Goto(j, "idle")
          /\ wake' = [wake EXCEPT ![j] = ticks + Wait(b)]
          /\ snoozed' = [snoozed EXCEPT ![j] = <<held[j], Len(taken[held[j]])>>]
          /\ UNCHANGED early
    /\ UNCHANGED <<ticks, rps, entry, seen, held, updates>>
-----------------------------------------------------------------------------
(* rateLimiter.allow, called by the ingest handler *)

LookupSource(q) ==
    /\ pc[q] = "idle"
    /\ FindBucket(q, "limiter", Limit, entry["limiter"] # 0)
    /\ UNCHANGED <<ticks, rps, seen, wake, early, snoozed, updates>>

Allow(q) ==
    LET b == Refill(buckets[held[q]]) IN
    /\ q \in Posts
    /\ pc[q] = "take"
    /\ \/ b.tokens < PerSecond /\ PutBack(q, b) /\ Goto(q, "refused")
       \/ b.tokens >= PerSecond /\ TakeToken(q, b) /\ Goto(q, "allowed")
    /\ UNCHANGED <<ticks, rps, entry, seen, held, wake, early, snoozed,
                   updates>>
-----------------------------------------------------------------------------
PacingNext ==
    \/ Tick
    \/ \E r \in Rates : UpdateRate(r)
    \/ \E j \in Jobs : Load(j) \/ Unpaced(j) \/ Lookup(j) \/ Reserve(j)
    \/ \E q \in Posts : LookupSource(q) \/ Allow(q)

PacingSpec == PacingInit /\ [][PacingNext]_pacingVars
-----------------------------------------------------------------------------
(* Properties *)

\* The rate is kept, whatever calls share a bucket and in whichever order they
\* get its lock, a bucket that was replaced included.  A call uses a bucket of
\* the rate that it has loaded.  What goes through with a token in any
\* interval, every allowed request among it, is at most the burst and the
\* refill of that interval.  "0 means deliver now (a token was consumed)" is
\* not so for a wait that is truncated to zero: such a job is dispatched and
\* not charged, so that several may go at one instant; but each comes less
\* than a tick before the burst and the refill would have allowed it, counted
\* from any token taken before it.
RateKept ==
    /\ \A c \in Calls : pc[c] = "take" =>
          buckets[held[c]].rate = IF c \in Jobs THEN seen[c] ELSE Limit
    /\ \A b \in DOMAIN buckets : \A i, k \in DOMAIN taken[b] :
          i <= k => (k - i + 1) * PerSecond <=
                        buckets[b].rate * (PerSecond + taken[b][k] - taken[b][i])
    /\ \A e \in early : \A i \in 1..e[2] :
          (e[2] - i + 2) * PerSecond <
              buckets[e[1]].rate * (PerSecond + e[3] + 1 - taken[e[1]][i])

\* "snooze for exactly the refill wait": a job that comes back to the bucket
\* it was snoozed on is snoozed again only if another call has taken a token
\* of it in the meantime.
SnoozeSuffices ==
    [][\A j \in Jobs : pc[j] = "take" /\ pc'[j] = "idle" =>
          snoozed[j] # <<held[j], Len(taken[held[j]])>>]_pacingVars
=============================================================================
