------------------------------- MODULE Replay -------------------------------
(***************************************************************************)
(* Replaying events: the replay endpoints (internal/api/replay.go), the    *)
(* bulk-replay job (internal/delivery/replay_worker.go) and the rows of    *)
(* the replays table, while events arrive, deliveries are worked, routes   *)
(* are switched and destinations deleted.                                  *)
(*                                                                         *)
(* A step is one database transaction.  Event ids are UUIDv7, that is      *)
(* ordered; here they are numbers.  All events are of one source, so the   *)
(* enabled routes are a set of destinations.  A filter is the set of       *)
(* events its source, time and text conditions let through, with an        *)
(* optional delivery_status; the API has validated it, so decoding it in   *)
(* the worker does not fail.                                               *)
(***************************************************************************)
EXTENDS Integers, FiniteSets, FiniteSetsExt

CONSTANTS
    Replays,        \* calls of POST /api/replays
    Destinations,
    Filters,        \* [among: set of event ids, status: status or "any"]
    MaxEvents,      \* bound: events ever stored
    MaxSingles,     \* bound: calls of POST /api/events/{id}/replay
    MaxOutcomes,    \* bound: deliveries worked to a terminal status
    MaxEdits,       \* bound: calls of the routes and destinations APIs
    MaxFaults       \* bound: failed queries, lost replies, timeouts, crashes

Outcomes == {"succeeded", "dead_lettered"}
Statuses == {"pending"} \cup Outcomes

ASSUME ReplayAssumption ==
    /\ {MaxEvents, MaxSingles, MaxOutcomes, MaxEdits, MaxFaults} \subseteq Nat
    /\ IsFiniteSet(Destinations)
    /\ Replays \cap {"ingest", "api"} = {}
    /\ Filters \subseteq [among: SUBSET (1..MaxEvents),
                          status: Statuses \cup {"any"}]

VARIABLES
    \* tables: number of events, existing destinations, enabled routes, and
    \* the deliveries, each with the replay (or other path) that created it
    events, destinations, enabled, deliveries,
    \* the replays table
    status, filter, matched_count, requeued_count,
    \* the job of each replay, and its Work call: position, events still to
    \* replay, events selected, deliveries counted, and whether its context
    \* has expired
    job, attempt, pc, todo, selected, requeued, expired,
    \* history: deliveries created by each replay, those of them in a commit
    \* whose reply was lost, and the bounded numbers of steps
    created, unheard, singles, outcomes, edits, faults

tableVars == <<events, destinations, enabled>>
rowVars == <<status, filter, matched_count, requeued_count>>
runVars == <<job, attempt, pc, todo, selected, requeued, expired>>
countVars == <<singles, outcomes, edits>>
historyVars == <<created, unheard, countVars, faults>>

vars == <<tableVars, deliveries, rowVars, runVars, historyVars>>
-----------------------------------------------------------------------------
Working == {"load", "select", "replay", "fail"}

\* One delivery to every enabled destination, as EnqueueDeliveries inserts.
FanOut(path, e, n) ==
    {[by |-> path, n |-> n, event |-> e, to |-> x, status |-> "pending"] :
        x \in enabled}

Init ==
    /\ events = 0
    /\ destinations = Destinations
    /\ enabled = Destinations
    /\ deliveries = {}
    /\ status = [r \in Replays |-> "none"]
    /\ filter \in [Replays -> Filters]
    /\ matched_count = [r \in Replays |-> 0]
    /\ requeued_count = [r \in Replays |-> 0]
    /\ job = [r \in Replays |-> "none"]
    /\ attempt = [r \in Replays |-> 0]
    /\ pc = [r \in Replays |-> "idle"]
    /\ todo = [r \in Replays |-> {}]
    /\ selected = [r \in Replays |-> {}]
    /\ requeued = [r \in Replays |-> 0]
    /\ expired = {}
    /\ created = [r \in Replays |-> 0]
    /\ unheard = [r \in Replays |-> 0]
    /\ singles = 0
    /\ outcomes = 0
    /\ edits = 0
    /\ faults = 0

Fault == faults < MaxFaults /\ faults' = faults + 1
-----------------------------------------------------------------------------
(* The rest of the gateway *)

\* An event is stored and fanned out.
Ingest ==
    /\ events < MaxEvents
    /\ events' = events + 1
    /\ deliveries' = deliveries \cup FanOut("ingest", events', 0)
    /\ UNCHANGED <<destinations, enabled, rowVars, runVars, historyVars>>

\* A worker settles a delivery.
Settle(d, outcome) ==
    /\ d.status = "pending"
    /\ outcomes < MaxOutcomes
    /\ outcomes' = outcomes + 1
    /\ deliveries' = (deliveries \ {d}) \cup {[d EXCEPT !.status = outcome]}
    /\ UNCHANGED <<tableVars, rowVars, runVars, created, unheard, singles,
                   edits, faults>>

Edit ==
    /\ edits < MaxEdits
    /\ edits' = edits + 1
    /\ UNCHANGED <<events, rowVars, runVars, created, unheard, singles,
                   outcomes, faults>>

SwitchRoute(x) ==
    /\ Edit
    /\ x \in destinations
    /\ enabled' = IF x \in enabled THEN enabled \ {x} ELSE enabled \cup {x}
    /\ UNCHANGED <<destinations, deliveries>>

DeleteDestination(x) ==
    /\ Edit
    /\ x \in destinations
    /\ destinations' = destinations \ {x}
    /\ enabled' = enabled \ {x}
    /\ deliveries' = {d \in deliveries : d.to # x}
-----------------------------------------------------------------------------
(* The endpoints *)

\* POST /api/events/{id}/replay
ReplayEvent(e) ==
    /\ e <= events
    /\ singles < MaxSingles
    /\ singles' = singles + 1
    /\ deliveries' = deliveries \cup FanOut("api", e, singles)
    /\ UNCHANGED <<tableVars, rowVars, runVars, created, unheard, outcomes,
                   edits, faults>>

InsertReplay(r) ==
    /\ status[r] = "none"
    /\ status' = [status EXCEPT ![r] = "running"]

\* POST /api/replays: the row and its job commit together.
BulkReplay(r) ==
    /\ InsertReplay(r)
    /\ job' = [job EXCEPT ![r] = "queued"]
    /\ UNCHANGED <<tableVars, deliveries, filter, matched_count,
                   requeued_count, attempt, pc, todo, selected, requeued,
                   expired, historyVars>>
-----------------------------------------------------------------------------
(* River, from how InsertReplayJob uses it *)

\* Mutant: replay jobs are retried once, as delivery jobs are.
ReplayMaxAttemptsRetry == 2

\* InsertReplayJob's MaxAttempts.
ReplayMaxAttempts == 1

AfterError(r) ==
    IF attempt[r] < ReplayMaxAttempts THEN "queued" ELSE "discarded"

\* Work returns.
Return(r, verdict) ==
    /\ job' = [job EXCEPT ![r] =
                  IF verdict = "nil" THEN "completed" ELSE AfterError(r)]
    /\ pc' = [pc EXCEPT ![r] = "idle"]

Fetch(r) ==
    /\ job[r] = "queued"
    /\ job' = [job EXCEPT ![r] = "running"]
    /\ attempt' = [attempt EXCEPT ![r] = @ + 1]
    /\ pc' = [pc EXCEPT ![r] = "load"]
    /\ requeued' = [requeued EXCEPT ![r] = 0]
    /\ expired' = expired \ {r}
    /\ UNCHANGED <<tableVars, deliveries, rowVars, todo, selected,
                   historyVars>>

\* The job timeout: from now on every query of this Work call fails.
Expire(r) ==
    /\ pc[r] \in Working
    /\ r \notin expired
    /\ Fault
    /\ expired' = expired \cup {r}
    /\ UNCHANGED <<tableVars, deliveries, rowVars, job, attempt, pc, todo,
                   selected, requeued, created, unheard, countVars>>

Crash(r) ==
    /\ pc[r] \in Working
    /\ Fault
    /\ pc' = [pc EXCEPT ![r] = "idle"]
    /\ UNCHANGED <<tableVars, deliveries, rowVars, job, attempt, todo,
                   selected, requeued, expired, created, unheard, countVars>>

Rescue(r) ==
    /\ job[r] = "running"
    /\ pc[r] = "idle"
    /\ job' = [job EXCEPT ![r] = AfterError(r)]
    /\ UNCHANGED <<tableVars, deliveries, rowVars, attempt, pc, todo, selected,
                   requeued, expired, historyVars>>
-----------------------------------------------------------------------------
(* ReplayWorker.Work *)

\* A query of r goes through, or fails: for a reason of its own, or because
\* the context has expired.
Succeeds(r) == r \notin expired /\ faults' = faults
Fails(r) == IF r \in expired THEN faults' = faults ELSE Fault

\* Mutant: an error of the first query is taken for a missing row.
LoadDropsErrors(r) ==
    /\ pc[r] = "load"
    /\ \/ /\ Succeeds(r)
          /\ pc' = [pc EXCEPT ![r] = "select"]
          /\ UNCHANGED job
       \/ Fails(r) /\ Return(r, "nil")
    /\ UNCHANGED <<tableVars, deliveries, rowVars, attempt, todo, selected,
                   requeued, expired, created, unheard, countVars>>

\* GetReplay; when it fails the row is left as it is.
Load(r) ==
    /\ pc[r] = "load"
    /\ \/ /\ Succeeds(r)
          /\ pc' = [pc EXCEPT ![r] = "select"]
          /\ UNCHANGED job
       \/ Fails(r) /\ Return(r, "error")
    /\ UNCHANGED <<tableVars, deliveries, rowVars, attempt, todo, selected,
                   requeued, expired, created, unheard, countVars>>

\* The events a filter selects now.
Matches(f) ==
    {e \in f.among \cap (1..events) :
        \/ f.status = "any"
        \/ \E d \in deliveries : d.event = e /\ d.status = f.status}

\* ListEventsForReplay: one snapshot for the whole replay.
Select(r) ==
    /\ pc[r] = "select"
    /\ \/ /\ Succeeds(r)
          /\ todo' = [todo EXCEPT ![r] = Matches(filter[r])]
          /\ selected' = [selected EXCEPT ![r] = Matches(filter[r])]
          /\ pc' = [pc EXCEPT ![r] = "replay"]
       \/ /\ Fails(r)
          /\ todo' = [todo EXCEPT ![r] = {}]
          /\ selected' = [selected EXCEPT ![r] = {}]
          /\ pc' = [pc EXCEPT ![r] = "fail"]
    /\ UNCHANGED <<tableVars, deliveries, rowVars, job, attempt, requeued,
                   expired, created, unheard, countVars>>

\* Mutant: the events are counted, not their deliveries.
CountPerEvent(n) == IF n > 0 THEN 1 ELSE 0

\* What replayOne returns for n targets.
Count(n) == n

\* replayOne for the next event, in a transaction of its own: it commits, is
\* rolled back, or commits with the reply lost.
ReplayOne(r) ==
    LET e == Min(todo[r])
        n == Cardinality(enabled)
        commit == /\ deliveries' = deliveries \cup FanOut(r, e, created[r])
                  /\ created' = [created EXCEPT ![r] = @ + n] IN
    /\ pc[r] = "replay"
    /\ todo[r] # {}
    /\ \/ /\ Succeeds(r)
          /\ commit
          /\ requeued' = [requeued EXCEPT ![r] = @ + Count(n)]
          /\ todo' = [todo EXCEPT ![r] = @ \ {e}]
          /\ UNCHANGED <<pc, unheard>>
       \/ /\ Fails(r)
          /\ pc' = [pc EXCEPT ![r] = "fail"]
          /\ \/ UNCHANGED <<deliveries, created, unheard>>
             \/ /\ r \notin expired
                /\ commit
                /\ unheard' = [unheard EXCEPT ![r] = @ + n]
          /\ UNCHANGED <<todo, requeued>>
    /\ UNCHANGED <<tableVars, rowVars, job, attempt, selected, expired,
                   countVars>>

FinishReplay(r, outcome) ==
    /\ status' = [status EXCEPT ![r] = outcome]
    /\ matched_count' = [matched_count EXCEPT ![r] = Cardinality(selected[r])]
    /\ requeued_count' = [requeued_count EXCEPT ![r] = requeued[r]]
    /\ UNCHANGED filter

\* The loop is over.  When the update fails the row stays "running", unless
\* only its reply was lost.
Finish(r) ==
    /\ pc[r] = "replay"
    /\ todo[r] = {}
    /\ \/ Succeeds(r) /\ FinishReplay(r, "completed") /\ Return(r, "nil")
       \/ /\ Fails(r)
          /\ \/ UNCHANGED rowVars
             \/ r \notin expired /\ FinishReplay(r, "completed")
          /\ Return(r, "error")
    /\ UNCHANGED <<tableVars, deliveries, attempt, todo, selected, requeued,
                   expired, created, unheard, countVars>>

\* fail, with the same context; an error of its own is only logged.
Fail(r) ==
    /\ pc[r] = "fail"
    /\ \/ Succeeds(r) /\ FinishReplay(r, "failed")
       \/ /\ Fails(r)
          /\ \/ UNCHANGED rowVars
             \/ r \notin expired /\ FinishReplay(r, "failed")
    /\ Return(r, "error")
    /\ UNCHANGED <<tableVars, deliveries, attempt, todo, selected, requeued,
                   expired, created, unheard, countVars>>
-----------------------------------------------------------------------------
JobStep(r) ==
    Fetch(r) \/ Load(r) \/ Select(r) \/ ReplayOne(r) \/ Finish(r) \/ Fail(r)
        \/ Rescue(r)

Next ==
    \/ Ingest
    \/ \E d \in deliveries, o \in Outcomes : Settle(d, o)
    \/ \E x \in Destinations : SwitchRoute(x) \/ DeleteDestination(x)
    \/ \E e \in 1..MaxEvents : ReplayEvent(e)
    \/ \E r \in Replays : BulkReplay(r) \/ JobStep(r) \/ Expire(r) \/ Crash(r)

Spec == Init /\ [][Next]_vars

\* River fetches and rescues, and a Work call keeps running.
FairSpec == Spec /\ \A r \in Replays : WF_vars(JobStep(r))
-----------------------------------------------------------------------------
(* Properties *)

\* A bulk replay fans an event out once: no crash, timeout or rescue makes it
\* create a second delivery of an event to a destination, or work on a replay
\* whose row is closed.
RequeuedOnce ==
    /\ \A c, d \in deliveries :
          c.by \in Replays /\ c.by = d.by /\ c.event = d.event /\ c.to = d.to
              => c = d
    /\ \A r \in Replays :
          pc[r] # "idle" => job[r] = "running" /\ status[r] = "running"

\* "how many matched, how many actually got requeued": the counts of a
\* completed replay are exact, and no selected event was left out; those of a
\* failed one miss at most what was committed without the worker hearing.
CountsExact ==
    \A r \in Replays :
        /\ status[r] = "completed" =>
              /\ matched_count[r] = Cardinality(selected[r])
              /\ requeued_count[r] = created[r]
              /\ todo[r] = {}
        /\ status[r] = "failed" =>
              requeued_count[r] + unheard[r] = created[r]

\* A replay whose job River has not discarded comes to an end, and its row
\* says so.
ReplayEnds ==
    \A r \in Replays :
        status[r] = "running" ~>
            status[r] \in {"completed", "failed"} \/ job[r] = "discarded"
=============================================================================
