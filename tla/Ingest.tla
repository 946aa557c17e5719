------------------------------- MODULE Ingest -------------------------------
(***************************************************************************)
(* Concurrent calls of ProcessEvent (internal/ingest/handler.go), each in  *)
(* its own READ COMMITTED transaction, for one source: store the event,    *)
(* claim its dedupe key, let the rules decide, fan out, commit, answer.    *)
(* They run against the routes, rules and destinations APIs and the        *)
(* periodic cleanup of dedup_index.                                        *)
(*                                                                         *)
(* A step is one SQL statement.  What a transaction wrote is private to    *)
(* its variables until Commit.  ClaimDedupeKey locks the row of its key,   *)
(* also when it finds a live claim there, until the transaction ends;      *)
(* inserting a delivery locks its destination against deletion.            *)
(*                                                                         *)
(* An event is named by the call that carries it: a provider that retries  *)
(* is a new event with the same key.  Calls refused before ProcessEvent    *)
(* (404, 413, 429) touch no table and are left out.                        *)
(***************************************************************************)
EXTENDS Integers, Sequences, FiniteSetsExt

CONSTANTS
    Events,        \* calls of ProcessEvent
    NoEvent,       \* NULL
    Keys,          \* dedupe keys
    NoKey,         \* no key could be derived: dedupe is off for the event
    Destinations,
    RuleSets,      \* enabled rules of the source, in evaluation order
    Window,        \* sources.dedupe_window_seconds
    MaxTime,       \* bound on the clock
    MaxCleanups,   \* bound: dedup_index rows removed by the cleanup job
    MaxFaults,     \* bound: failed statements, lost replies, crashes
    MaxEdits       \* bound: calls of the routes, rules and destinations APIs

\* A rule with the outcome of its expression: "error" stands for one that does
\* not compile, fails at run time or yields no Boolean.
Rules == [action: {"drop", "route"}, to: SUBSET Destinations,
          outcome: {"match", "no match", "error"}]

ASSUME IngestAssumption ==
    /\ NoKey \notin Keys
    /\ NoEvent \notin Events
    /\ RuleSets \subseteq Seq(Rules)
    /\ Window \in Nat \ {0}
    /\ {MaxTime, MaxCleanups, MaxFaults, MaxEdits} \subseteq Nat

VARIABLES
    clock,
    \* committed tables; a route is named by its destination, enabled holds
    \* those switched on, and dedup_index is split into its two columns
    destinations, routes, enabled, rules,
    events, dropped_reason, deliveries, dedup_event, expires_at,
    \* the transactions: position, key, now(), targets still to insert,
    \* uncommitted deliveries, and who holds the row lock of a key
    pc, key, now, targets, inserted, lock,
    \* history: destinations listed by a call, time of its claim, bounded
    \* numbers of cleanups, faults and API calls
    listed, claimed_at, cleanups, faults, edits

configVars == <<destinations, routes, enabled, rules, edits>>
storeVars == <<events, deliveries, dedup_event, expires_at>>
txVars == <<pc, key, now, dropped_reason, targets, inserted, lock>>
historyVars == <<listed, claimed_at, cleanups, faults>>

vars == <<clock, configVars, storeVars, txVars, historyVars>>
-----------------------------------------------------------------------------
InTransaction == {"claim", "rules", "fanout", "route", "insert", "commit"}
\* A call is "idle" before and "committed", then "acked", or "failed" after.
\* dropped_reason is "null", "duplicate" or "rule".

Init ==
    /\ clock = 0
    /\ destinations = Destinations
    /\ routes \in SUBSET Destinations
    /\ enabled = routes
    /\ rules \in RuleSets
    /\ edits = 0
    /\ events = {}
    /\ deliveries = {}
    /\ dedup_event = [k \in Keys |-> NoEvent]
    /\ expires_at = [k \in Keys |-> 0]
    /\ pc = [e \in Events |-> "idle"]
    /\ key = [e \in Events |-> NoKey]
    /\ now = [e \in Events |-> 0]
    /\ dropped_reason = [e \in Events |-> "null"]
    /\ targets = [e \in Events |-> {}]
    /\ inserted = [e \in Events |-> {}]
    /\ lock = [k \in Keys |-> NoEvent]
    /\ listed = [e \in Events |-> {}]
    /\ claimed_at = [e \in Events |-> 0]
    /\ cleanups = 0
    /\ faults = 0

Goto(e, to) == pc' = [pc EXCEPT ![e] = to]
Drop(e, reason) == dropped_reason' = [dropped_reason EXCEPT ![e] = reason]

Tick ==
    /\ clock < MaxTime
    /\ clock' = clock + 1
    /\ UNCHANGED <<configVars, storeVars, txVars, historyVars>>
-----------------------------------------------------------------------------
(* ProcessEvent *)

\* The event with its dedupe_key; now() is fixed for the transaction.
InsertEvent(e, k) ==
    /\ key' = [key EXCEPT ![e] = k]
    /\ now' = [now EXCEPT ![e] = clock]

\* dedupeKey, Begin and InsertEvent.
Begin(e, k) ==
    /\ pc[e] = "idle"
    /\ Goto(e, IF k = NoKey THEN "rules" ELSE "claim")
    /\ InsertEvent(e, k)
    /\ UNCHANGED <<clock, configVars, storeVars, dropped_reason, targets,
                   inserted, lock, historyVars>>

\* Mutant: a claim is over one tick too early.
ClaimableEarly(e) ==
    \/ dedup_event[key[e]] = NoEvent
    \/ expires_at[key[e]] <= now[e] + 1

\* The ON CONFLICT clause lets the claim through: no row, or an expired one.
Claimable(e) ==
    \/ dedup_event[key[e]] = NoEvent
    \/ expires_at[key[e]] <= now[e]

\* Mutant: a claim not yet committed counts, without waiting for its outcome.
ClaimWithoutWaiting(e) ==
    LET free == lock[key[e]] = NoEvent IN
    /\ pc[e] = "claim"
    /\ lock' = IF free THEN [lock EXCEPT ![key[e]] = e] ELSE lock
    /\ IF free /\ Claimable(e)
       THEN /\ Goto(e, "rules")
            /\ claimed_at' = [claimed_at EXCEPT ![e] = clock]
            /\ UNCHANGED dropped_reason
       ELSE /\ Drop(e, "duplicate")
            /\ Goto(e, "commit")
            /\ UNCHANGED claimed_at
    /\ UNCHANGED <<clock, configVars, storeVars, key, now, targets, inserted,
                   listed, cleanups, faults>>

\* ClaimDedupeKey waits for a transaction that holds the row, then sees what
\* that transaction left.  No row returned means duplicate.
ClaimDedupeKey(e) ==
    /\ pc[e] = "claim"
    /\ lock[key[e]] = NoEvent
    /\ lock' = [lock EXCEPT ![key[e]] = e]
    /\ IF Claimable(e)
       THEN /\ Goto(e, "rules")
            /\ claimed_at' = [claimed_at EXCEPT ![e] = clock]
            /\ UNCHANGED dropped_reason
       ELSE /\ Drop(e, "duplicate")
            /\ Goto(e, "commit")
            /\ UNCHANGED claimed_at
    /\ UNCHANGED <<clock, configVars, storeVars, key, now, targets, inserted,
                   listed, cleanups, faults>>

\* Evaluate: the first rule that matches; a broken rule is skipped.
Matching(rs) == {i \in DOMAIN rs : rs[i].outcome = "match"}
FirstMatch(rs) == rs[Min(Matching(rs))]

\* ListEnabledRulesForSource and Evaluate.  The targets of a route rule are
\* kept for the next statement.
EvaluateRules(e) ==
    /\ pc[e] = "rules"
    /\ \/ /\ Matching(rules) = {}
          /\ Goto(e, "fanout")
          /\ UNCHANGED <<dropped_reason, targets>>
       \/ /\ Matching(rules) # {}
          /\ FirstMatch(rules).action = "drop"
          /\ Drop(e, "rule")
          /\ Goto(e, "commit")
          /\ UNCHANGED targets
       \/ /\ Matching(rules) # {}
          /\ FirstMatch(rules).action = "route"
          /\ Goto(e, "route")
          /\ targets' = [targets EXCEPT ![e] = FirstMatch(rules).to]
          /\ UNCHANGED dropped_reason
    /\ UNCHANGED <<clock, configVars, storeVars, key, now, inserted, lock,
                   historyVars>>

ListEnabledDeliveryTargetsForSource == enabled

\* Destinations a route rule names that are gone are skipped.
ListDeliveryTargetsByDestinationIDs(ids) == ids \cap destinations

ListTargets(e) ==
    LET found == IF pc[e] = "fanout"
                 THEN ListEnabledDeliveryTargetsForSource
                 ELSE ListDeliveryTargetsByDestinationIDs(targets[e]) IN
    /\ pc[e] \in {"fanout", "route"}
    /\ Goto(e, "insert")
    /\ targets' = [targets EXCEPT ![e] = found]
    /\ listed' = [listed EXCEPT ![e] = found]
    /\ UNCHANGED <<clock, configVars, storeVars, key, now, dropped_reason,
                   inserted, lock, claimed_at, cleanups, faults>>

\* Mutant: the row stays locked.
UnlockForgotten(e) == UNCHANGED lock

\* The end of a transaction releases what it locked.
Unlock(e) == lock' = [k \in Keys |-> IF lock[k] = e THEN NoEvent ELSE lock[k]]

\* Mutant: a foreign key failure ends the fan-out, and what there is commits.
InsertDeliveryGivesUp(e, x) ==
    /\ pc[e] = "insert"
    /\ x \in targets[e]
    /\ IF x \in destinations
       THEN /\ inserted' = [inserted EXCEPT ![e] = @ \cup {x}]
            /\ targets' = [targets EXCEPT ![e] = @ \ {x}]
            /\ UNCHANGED pc
       ELSE /\ Goto(e, "commit")
            /\ UNCHANGED <<inserted, targets>>
    /\ UNCHANGED <<clock, configVars, storeVars, key, now, dropped_reason,
                   lock, historyVars>>

\* One round of EnqueueDeliveriesTo: a delivery and its job.  A destination
\* deleted since it was listed fails the foreign key: rollback, 500.
InsertDelivery(e, x) ==
    /\ pc[e] = "insert"
    /\ x \in targets[e]
    /\ IF x \in destinations
       THEN /\ inserted' = [inserted EXCEPT ![e] = @ \cup {x}]
            /\ targets' = [targets EXCEPT ![e] = @ \ {x}]
            /\ UNCHANGED <<pc, lock>>
       ELSE /\ Goto(e, "failed")
            /\ Unlock(e)
            /\ UNCHANGED <<inserted, targets>>
    /\ UNCHANGED <<clock, configVars, storeVars, key, now, dropped_reason,
                   historyVars>>

\* The transaction's writes become visible together.
Publish(e) ==
    /\ events' = events \cup {e}
    /\ deliveries' = deliveries \cup ({e} \X inserted[e])
    /\ IF key[e] # NoKey /\ dropped_reason[e] # "duplicate"
       THEN /\ dedup_event' = [dedup_event EXCEPT ![key[e]] = e]
            /\ expires_at' = [expires_at EXCEPT ![key[e]] = now[e] + Window]
       ELSE UNCHANGED <<dedup_event, expires_at>>
    /\ Unlock(e)

\* Commit, or a commit whose reply is lost: applied, but answered with 500.
Commit(e) ==
    /\ \/ pc[e] = "commit"
       \/ pc[e] = "insert" /\ targets[e] = {}
    /\ Publish(e)
    /\ \/ Goto(e, "committed") /\ faults' = faults
       \/ Goto(e, "failed") /\ faults < MaxFaults /\ faults' = faults + 1
    /\ UNCHANGED <<clock, configVars, key, now, dropped_reason, targets,
                   inserted, listed, claimed_at, cleanups>>

\* "Ack only after the commit".
Ack(e) ==
    /\ pc[e] = "committed"
    /\ Goto(e, "acked")
    /\ UNCHANGED <<clock, configVars, storeVars, key, now, dropped_reason,
                   targets, inserted, lock, historyVars>>

\* A statement fails, the caller disconnects or the process dies: rollback.
Rollback(e) ==
    /\ pc[e] \in InTransaction
    /\ faults < MaxFaults
    /\ faults' = faults + 1
    /\ Goto(e, "failed")
    /\ Unlock(e)
    /\ UNCHANGED <<clock, configVars, storeVars, key, now, dropped_reason,
                   targets, inserted, listed, claimed_at, cleanups>>
-----------------------------------------------------------------------------
(* The cleanup job and the APIs *)

\* Mutant: rows are removed one tick before they expire.
CleanupEarly(k) ==
    /\ cleanups < MaxCleanups
    /\ dedup_event[k] # NoEvent
    /\ lock[k] = NoEvent
    /\ expires_at[k] <= clock + 1
    /\ dedup_event' = [dedup_event EXCEPT ![k] = NoEvent]
    /\ cleanups' = cleanups + 1
    /\ UNCHANGED <<clock, configVars, events, deliveries, expires_at, txVars,
                   listed, claimed_at, faults>>

\* DeleteExpiredDedupEntries, one row of it; a locked row is waited for.
Cleanup(k) ==
    /\ cleanups < MaxCleanups
    /\ dedup_event[k] # NoEvent
    /\ lock[k] = NoEvent
    /\ expires_at[k] <= clock
    /\ dedup_event' = [dedup_event EXCEPT ![k] = NoEvent]
    /\ cleanups' = cleanups + 1
    /\ UNCHANGED <<clock, configVars, events, deliveries, expires_at, txVars,
                   listed, claimed_at, faults>>

Edit ==
    /\ edits < MaxEdits
    /\ edits' = edits + 1
    /\ UNCHANGED <<clock, events, dedup_event, expires_at, txVars,
                   historyVars>>

Switch(x, on) == enabled' = IF on THEN enabled \cup {x} ELSE enabled \ {x}

\* The route is unique, and its foreign key holds.
InsertRoute(x, on) ==
    /\ x \in destinations \ routes
    /\ routes' = routes \cup {x}
    /\ Switch(x, on)

\* A second route of the pair is a 409, one to a missing destination a 400.
CreateRoute(x, on) ==
    /\ Edit
    /\ InsertRoute(x, on)
    /\ UNCHANGED <<destinations, rules, deliveries>>

UpdateRoute(x, on) ==
    /\ Edit
    /\ x \in routes
    /\ Switch(x, on)
    /\ UNCHANGED <<destinations, routes, rules, deliveries>>

DeleteRoute(x) ==
    /\ Edit
    /\ x \in routes
    /\ routes' = routes \ {x}
    /\ Switch(x, FALSE)
    /\ UNCHANGED <<destinations, rules, deliveries>>

\* The rules without the i-th.
RemoveAt(rs, i) == SubSeq(rs, 1, i - 1) \o SubSeq(rs, i + 1, Len(rs))

\* The rules API, on the rules that are enabled: one is added at the place its
\* priority gives it, replaced (it may move) or removed.
InsertRuleRow(rs) ==
    /\ \E i \in DOMAIN rs : RemoveAt(rs, i) = rules
    /\ rules' = rs

UpdateRuleRow(rs) ==
    /\ \E i \in DOMAIN rs, k \in DOMAIN rules :
          RemoveAt(rs, i) = RemoveAt(rules, k)
    /\ rules' = rs

CreateRule(rs) ==
    /\ Edit
    /\ InsertRuleRow(rs)
    /\ UNCHANGED <<destinations, routes, enabled, deliveries>>

UpdateRule(rs) ==
    /\ Edit
    /\ UpdateRuleRow(rs)
    /\ UNCHANGED <<destinations, routes, enabled, deliveries>>

DeleteRule(rs) ==
    /\ Edit
    /\ \E i \in DOMAIN rules : RemoveAt(rules, i) = rs
    /\ rules' = rs
    /\ UNCHANGED <<destinations, routes, enabled, deliveries>>

\* Waits for transactions with a delivery to x; takes its routes and
\* deliveries along, but not the ids that rules hold.
DeleteDestination(x) ==
    /\ Edit
    /\ x \in destinations
    /\ \A e \in Events : pc[e] \in InTransaction => x \notin inserted[e]
    /\ destinations' = destinations \ {x}
    /\ routes' = routes \ {x}
    /\ Switch(x, FALSE)
    /\ deliveries' = {d \in deliveries : d[2] # x}
    /\ UNCHANGED rules
-----------------------------------------------------------------------------
Step(e) ==
    \/ ClaimDedupeKey(e)
    \/ EvaluateRules(e)
    \/ ListTargets(e)
    \/ \E x \in Destinations : InsertDelivery(e, x)
    \/ Commit(e)
    \/ Ack(e)

Next ==
    \/ Tick
    \/ \E e \in Events :
          \/ \E k \in Keys \cup {NoKey} : Begin(e, k)
          \/ Step(e)
          \/ Rollback(e)
    \/ \E k \in Keys : Cleanup(k)
    \/ \E x \in Destinations :
          \/ \E on \in BOOLEAN : CreateRoute(x, on) \/ UpdateRoute(x, on)
          \/ DeleteRoute(x)
          \/ DeleteDestination(x)
    \/ \E rs \in RuleSets : CreateRule(rs) \/ UpdateRule(rs) \/ DeleteRule(rs)

Spec == Init /\ [][Next]_vars

\* A handler that has begun keeps running.
FairSpec == Spec /\ \A e \in Events : WF_vars(Step(e))
-----------------------------------------------------------------------------
(* Properties *)

\* Committed events that won their key.
Claimed(e) ==
    e \in events /\ key[e] # NoKey /\ dropped_reason[e] # "duplicate"

\* Two events with one key that both go past deduplication were received at
\* least a window apart: "exactly one of them walks away with the claim", and
\* the cleanup never causes "a wrongly-delivered event".
OneClaimPerWindow ==
    \A e, f \in Events :
        e # f /\ Claimed(e) /\ Claimed(f) /\ key[e] = key[f] =>
            now[e] + Window <= now[f] \/ now[f] + Window <= now[e]

\* That much is true, however the transactions interleave and roll back, as
\* long as the cleanup job has removed nothing.
OneClaimUntilCleanup == cleanups = 0 => OneClaimPerWindow

\* With the cleanup job, the later claim is still made at least a window after
\* the earlier event was received.
ClaimsAWindowApart ==
    \A e, f \in Events :
        e # f /\ Claimed(e) /\ Claimed(f) /\ key[e] = key[f] =>
            \/ now[e] + Window <= claimed_at[f]
            \/ now[f] + Window <= claimed_at[e]

\* "never a wrongly-dropped event": an event stored as a duplicate has an
\* original that is committed, got past deduplication and was received less
\* than a window before (or even after) it, also when the transaction it
\* waited for was rolled back.
DuplicateHasOriginal ==
    \A f \in events : dropped_reason[f] = "duplicate" =>
        \E e \in events \ {f} :
            /\ key[e] = key[f]
            /\ dropped_reason[e] # "duplicate"
            /\ now[f] < now[e] + Window

\* An event is fanned out as a whole or not at all: a committed event has a
\* delivery for every destination listed for it that still exists, and none
\* if it was dropped; nothing refers to an event that was rolled back or to a
\* destination that is gone.
FanOutAllOrNothing ==
    /\ \A e \in events : \A x \in destinations :
          <<e, x>> \in deliveries <=>
              dropped_reason[e] = "null" /\ x \in listed[e]
    /\ \A d \in deliveries : d[1] \in events /\ d[2] \in destinations
    /\ enabled \subseteq routes /\ routes \subseteq destinations
    /\ \A k \in Keys : dedup_event[k] # NoEvent => dedup_event[k] \in events

\* What is committed of an event, and what its provider has heard.
Outcome == [e \in Events |-> IF e \in events THEN dropped_reason[e] ELSE "none"]
Heard ==
    [e \in Events |-> CASE pc[e] = "idle" -> "no call"
                        [] pc[e] = "acked" -> "200"
                        [] pc[e] = "failed" -> "500"
                        [] OTHER -> "waiting"]

Promise == INSTANCE Inbox WITH outcome <- Outcome, answer <- Heard

\* Whatever overlaps, waits, fails or is edited meanwhile, the transactions
\* of ProcessEvent look to the provider like single steps: an event, its
\* reason and its deliveries appear at once and do not change afterwards, a
\* duplicate only after its original, a 200 only after the event, and what was
\* rolled back stays away.
ImplementsInbox == Promise!Spec

\* Once a call has begun its transaction ends, also when it has to wait for
\* the key.
EventuallyAnswered ==
    \A e \in Events : pc[e] # "idle" ~> pc[e] \in {"acked", "failed"}
=============================================================================
