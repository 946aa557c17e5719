------------------------------ MODULE EventLog ------------------------------
(***************************************************************************)
(* The events API (internal/api/events.go) and its readers, while events   *)
(* are ingested, delivered and replayed: a client that pages through       *)
(* GET /api/events, and the trace view of an event.                        *)
(*                                                                         *)
(* Event ids are UUIDv7 and grow with the time of the INSERT, here 1, 2,   *)
(* and so on; an event becomes visible when its transaction commits, which *)
(* need not be in that order.  Every query reads the committed tables in   *)
(* one step; a handler that runs several sees a different state in each.   *)
(*                                                                         *)
(* A filter is a delivery status, or none: the other conditions are on     *)
(* columns that never change and select a subset of the events.            *)
(***************************************************************************)
EXTENDS Integers, Sequences, FiniteSets, FiniteSetsExt

CONSTANTS
    MaxEvents,        \* bound on the events
    MaxDeliveries,    \* bound on the deliveries
    MaxAttempts,      \* bound on the attempts of a delivery
    Limits,           \* values of ?limit=
    MaxPageSize       \* maxEventsPageSize, 200 in the code

ASSUME EventLogAssumption ==
    {MaxEvents, MaxDeliveries, MaxAttempts, MaxPageSize} \subseteq Nat \ {0}
    /\ Limits \subseteq Nat \ {0}

Ids == 1..MaxEvents
DeliveryIds == 1..MaxDeliveries
\* "failed" stands for dead_lettered as well.
Settled == {"pending", "failed", "succeeded"}

VARIABLES
    next_id,          \* the id of the next INSERT
    open,             \* events inserted by a transaction that is not over
    committed,
    \* deliveries in the order of their creation: their event and row; attempt
    \* rows are numbered 1 to attempt_count (proved in DeliveryProofs)
    deliveries,
    walk,             \* the client that pages
    trace,            \* the handler of the trace view
    throughout        \* history: events that matched ever since the walk began

logVars == <<next_id, open, committed, deliveries, walk, trace, throughout>>

NoWalk == [on |-> FALSE, filter |-> "any", limit |-> 1, cursor |-> 0,
           seen |-> <<>>, more |-> FALSE]
NoTrace == [at |-> "idle", event |-> 0, deliveries |-> {}, rows |-> {},
            attempts |-> {}]

LogInit ==
    /\ next_id = 1
    /\ open = {}
    /\ committed = {}
    /\ deliveries = <<>>
    /\ walk = NoWalk
    /\ trace = NoTrace
    /\ throughout = {}

Exists(d) == d \in DOMAIN deliveries /\ deliveries[d].status # "deleted"

\* The EXISTS of ListEvents, on a state of the table of deliveries.
Matches(table, e, filter) ==
    \/ filter = "any"
    \/ \E d \in DOMAIN table : table[d].event = e /\ table[d].status = filter

\* History: what still matches after a change of the table.
Keep == throughout' = {e \in throughout : Matches(deliveries', e, walk.filter)}

readers == <<walk, trace>>

\* Readers do not affect each other: it is enough to have one at a time.
NoReader == ~walk.on /\ trace.at = "idle"
-----------------------------------------------------------------------------
(* Ingest, delivery, replay and the destinations API *)

\* InsertEvent
Insert ==
    /\ next_id \in Ids
    /\ open' = open \cup {next_id}
    /\ next_id' = next_id + 1
    /\ UNCHANGED <<committed, deliveries, throughout, readers>>

NewDelivery(e) ==
    [event |-> e, status |-> "pending", attempt_count |-> 0]

\* The event and its delivery become visible; a dropped one has none.
CommitEvent(e) ==
    /\ e \in open
    /\ open' = open \ {e}
    /\ committed' = committed \cup {e}
    /\ \/ UNCHANGED deliveries
       \/ /\ Len(deliveries) < MaxDeliveries
          /\ deliveries' = Append(deliveries, NewDelivery(e))
    /\ UNCHANGED <<next_id, throughout, readers>>

RollbackEvent(e) ==
    /\ e \in open
    /\ open' = open \ {e}
    /\ UNCHANGED <<next_id, committed, deliveries, throughout, readers>>

\* POST /api/events/{id}/replay
Requeue(e) ==
    /\ e \in committed
    /\ Len(deliveries) < MaxDeliveries
    /\ deliveries' = Append(deliveries, NewDelivery(e))
    /\ UNCHANGED <<next_id, open, committed, throughout, readers>>

\* recordAttempt: the attempt row and the delivery in one transaction, whatever
\* the status is by now.
Attempt(d, status) ==
    /\ Exists(d)
    /\ deliveries[d].attempt_count < MaxAttempts
    /\ deliveries' = [deliveries EXCEPT ![d] =
          [event |-> @.event, status |-> status,
           attempt_count |-> @.attempt_count + 1]]
    /\ Keep
    /\ UNCHANGED <<next_id, open, committed, readers>>

\* recover: the delivery was dead-lettered when the handler read it; the update
\* does not look again, and the count goes on from where it was.
ResetDeliveryForRecovery(d) ==
    /\ Exists(d)
    /\ deliveries[d].attempt_count > 0
    /\ deliveries' = [deliveries EXCEPT ![d].status = "pending"]
    /\ Keep
    /\ UNCHANGED <<next_id, open, committed, readers>>

\* A destination is deleted, and its delivery and attempts with it.
DeleteDelivery(d) ==
    /\ Exists(d)
    /\ deliveries' = [deliveries EXCEPT ![d].status = "deleted"]
    /\ Keep
    /\ UNCHANGED <<next_id, open, committed, readers>>
-----------------------------------------------------------------------------
(* GET /api/events *)

\* ORDER BY id DESC
Descending(s) ==
    CHOOSE rows \in [1..Cardinality(s) -> s] :
        \A i, j \in 1..Cardinality(s) : i < j => rows[i] > rows[j]

\* The query: newest first, strictly below the cursor (0 for none).
ListEvents(filter, cursor, limit) ==
    LET found == {e \in committed : /\ Matches(deliveries, e, filter)
                                    /\ cursor = 0 \/ e < cursor}
        rows == Descending(found)
    IN SubSeq(rows, 1, Min({limit, Len(rows)}))

\* parseListEventsQuery: the caller's limit is capped.
PageSize(limit) == Min({limit, MaxPageSize})

\* Mutant: the cursor is the extra row that is trimmed.
PageCursorTrimmed(filter, cursor, limit) ==
    LET rows == ListEvents(filter, cursor, PageSize(limit) + 1)
        size == PageSize(limit)
        more == Len(rows) > size
    IN [events |-> IF more THEN SubSeq(rows, 1, size) ELSE rows,
        next |-> IF more THEN rows[size + 1] ELSE 0]

\* list: one row too many is asked for, to learn whether there are more; it is
\* trimmed, and the cursor is the last row that is kept.
Page(filter, cursor, limit) ==
    LET rows == ListEvents(filter, cursor, PageSize(limit) + 1)
        size == PageSize(limit)
        more == Len(rows) > size
    IN [events |-> IF more THEN SubSeq(rows, 1, size) ELSE rows,
        next |-> IF more THEN rows[size] ELSE 0]

Turn(filter, cursor, limit, seen) ==
    LET page == Page(filter, cursor, limit) IN
    walk' = [on |-> TRUE, filter |-> filter, limit |-> limit,
             cursor |-> page.next, seen |-> seen \o page.events,
             more |-> page.next # 0]

FirstPage(filter, limit) ==
    /\ NoReader
    /\ Turn(filter, 0, limit, <<>>)
    /\ throughout' = {e \in committed : Matches(deliveries, e, filter)}
    /\ UNCHANGED <<next_id, open, committed, deliveries, trace>>

NextPage ==
    /\ walk.on /\ walk.more
    /\ Turn(walk.filter, walk.cursor, walk.limit, walk.seen)
    /\ UNCHANGED <<next_id, open, committed, deliveries, trace,
                   throughout>>

\* The client is done with the log.
Leave ==
    /\ walk.on /\ ~walk.more
    /\ walk' = NoWalk
    /\ throughout' = {}
    /\ UNCHANGED <<next_id, open, committed, deliveries, trace>>
-----------------------------------------------------------------------------
(* GET /api/events/{id}/trace, three queries *)

logTables == <<next_id, open, committed, deliveries>>

GetEvent(e) == e \in committed

ListEventDeliveries(e) ==
    {d \in DOMAIN deliveries : Exists(d) /\ deliveries[d].event = e}

ListEventDeliveryAttempts(e) ==
    UNION {{<<d, n>> : n \in 1..deliveries[d].attempt_count} :
              d \in ListEventDeliveries(e)}

\* An unknown event is a 404, which changes nothing.
TraceEvent(e) ==
    /\ NoReader
    /\ GetEvent(e)
    /\ trace' = [at |-> "event", event |-> e, deliveries |-> {}, rows |-> {},
                 attempts |-> {}]
    /\ UNCHANGED <<logTables, walk, throughout>>

\* Mutant: the attempts are read before the deliveries they belong to.
TraceDeliveriesLast ==
    \/ /\ trace.at = "event"
       /\ trace' = [trace EXCEPT !.at = "rows",
                    !.rows = ListEventDeliveryAttempts(trace.event)]
       /\ UNCHANGED <<logTables, walk, throughout>>
    \/ /\ trace.at = "rows"
       /\ trace' = [trace EXCEPT !.at = "done",
                    !.deliveries = {<<d, deliveries[d].attempt_count>> :
                                       d \in ListEventDeliveries(trace.event)},
                    !.attempts = trace.rows]
       /\ UNCHANGED <<logTables, walk, throughout>>

TraceDeliveries ==
    /\ trace.at = "event"
    /\ trace' = [at |-> "deliveries", event |-> trace.event,
                 deliveries |-> {<<d, deliveries[d].attempt_count>> :
                                    d \in ListEventDeliveries(trace.event)},
                 rows |-> {}, attempts |-> {}]
    /\ UNCHANGED <<logTables, walk, throughout>>

\* The attempts are grouped by delivery; those of a delivery that was not
\* there before are left out of the answer.
TraceAttempts ==
    /\ trace.at = "deliveries"
    /\ trace' = [at |-> "done", event |-> trace.event,
                 deliveries |-> trace.deliveries, rows |-> {},
                 attempts |-> {a \in ListEventDeliveryAttempts(trace.event) :
                                  \E d \in trace.deliveries : d[1] = a[1]}]
    /\ UNCHANGED <<logTables, walk, throughout>>

TraceAnswered ==
    /\ trace.at = "done"
    /\ trace' = NoTrace
    /\ UNCHANGED <<logTables, walk, throughout>>

LogNext ==
    \/ Insert
    \/ \E e \in Ids :
          CommitEvent(e) \/ RollbackEvent(e) \/ Requeue(e) \/ TraceEvent(e)
    \/ \E d \in DeliveryIds :
          \/ DeleteDelivery(d) \/ ResetDeliveryForRecovery(d)
          \/ \E s \in {"failed", "succeeded"} : Attempt(d, s)
    \/ \E limit \in Limits :
          \E filter \in {"any"} \cup Settled : FirstPage(filter, limit)
    \/ NextPage \/ Leave
    \/ TraceDeliveries \/ TraceAttempts \/ TraceAnswered
-----------------------------------------------------------------------------
(* Properties *)

\* A client that pages to the end has seen, once and newest first, every event
\* that was in the log and matched its filter from the first page to the last,
\* whatever was committed or changed its status meanwhile.  What it may miss
\* is an event that committed, or began to match, after its first page, even
\* one with an id below the cursor of a later page.
PagingComplete ==
    walk.on =>
        /\ \A i \in 1..(Len(walk.seen) - 1) : walk.seen[i] > walk.seen[i + 1]
        /\ ~walk.more => throughout \subseteq Range(walk.seen)

\* The trace view never shows fewer attempts of a delivery than its
\* attempt_count says, unless the delivery was deleted between the queries;
\* the attempts it shows are numbered from 1 without a gap.
TraceNotBehind ==
    trace.at = "done" =>
        \A d \in trace.deliveries :
            LET numbers == {a[2] : a \in {b \in trace.attempts : b[1] = d[1]}}
            IN \/ ~Exists(d[1])
               \/ /\ numbers = 1..Cardinality(numbers)
                  /\ Cardinality(numbers) >= d[2]
=============================================================================
