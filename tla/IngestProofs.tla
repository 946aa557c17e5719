---------------------------- MODULE IngestProofs ----------------------------
(***************************************************************************)
(* Machine-checked proofs about Ingest, for every set of events, keys,     *)
(* destinations and rules, every window and every number of faults, edits  *)
(* and cleanups: type correctness and the all-or-nothing fan-out, from     *)
(* what each position of a transaction says about its writes; duplicates   *)
(* have originals, and claims of one key are a window apart; and Ingest    *)
(* implements Inbox: every step of a transaction, of the cleanup and of    *)
(* the APIs is a step of the promise or invisible to the provider.         *)
(***************************************************************************)
EXTENDS Ingest, WellFoundedInduction, TLAPS

USE DEF configVars, storeVars, txVars, historyVars, InTransaction
-----------------------------------------------------------------------------
(* Lemmas about the operators of the rules *)

\* A non-empty set of natural numbers has the minimum that Min chooses.
LEMMA LeastExists ==
    ASSUME NEW S \in SUBSET Nat, S # {}
    PROVE  Min(S) \in S /\ \A y \in S : Min(S) <= y
<1> DEFINE R == {ss \in Nat \X Nat : ss[1] < ss[2]}
<1>1. IsWellFoundedOn(R, Nat)
  BY NatLessThanWellFounded, Zenon DEF OpToRel
<1>2. PICK x \in S : \A y \in S : ~ (<<y, x>> \in R)
  <2> HIDE DEF R
  <2> QED
    BY <1>1, WFMin, Zenon
<1>3. ASSUME NEW y \in S PROVE x <= y
  <2>1. x \in Nat /\ y \in Nat
    BY Zenon
  <2>2. ~ (<<y, x>> \in R)
    BY <1>2, Zenon
  <2>3. y < x => <<y, x>> \in R
    BY <2>1, Zenon
  <2> QED
    BY <2>1, <2>2, <2>3
<1> QED
  BY <1>3, Zenon DEF Min

\* Evaluate returns the first rule that matches: it matches, and no rule
\* before it does.
LEMMA FirstMatchCorrect ==
    ASSUME NEW rs \in Seq(Rules), Matching(rs) # {}
    PROVE  /\ FirstMatch(rs) \in Rules
           /\ FirstMatch(rs).outcome = "match"
           /\ \A i \in DOMAIN rs :
                 i < Min(Matching(rs)) => rs[i].outcome # "match"
<1>1. Matching(rs) \subseteq 1..Len(rs)
  BY DEF Matching
<1>2. /\ Min(Matching(rs)) \in Matching(rs)
      /\ \A y \in Matching(rs) : Min(Matching(rs)) <= y
  BY <1>1, LeastExists
<1>3. FirstMatch(rs).outcome = "match"
  BY <1>2, Zenon DEF FirstMatch, Matching
<1>4. FirstMatch(rs) \in Rules
  <2> HIDE DEF Rules
  <2> QED
    BY <1>1, <1>2 DEF FirstMatch
<1>5. ASSUME NEW i \in DOMAIN rs, i < Min(Matching(rs))
      PROVE  rs[i].outcome # "match"
  <2>1. i \in Int /\ Min(Matching(rs)) \in Int
    BY <1>1, <1>2
  <2>2. i \notin Matching(rs)
    BY <1>2, <1>5, <2>1
  <2> QED
    BY <2>2, Zenon DEF Matching
<1> QED
  BY <1>3, <1>4, <1>5, Zenon
-----------------------------------------------------------------------------
(* Type correctness *)

PCs == InTransaction \cup {"idle", "committed", "acked", "failed"}
Reasons == {"null", "duplicate", "rule"}

ConfigOK ==
    /\ destinations \subseteq Destinations
    /\ routes \subseteq destinations
    /\ enabled \subseteq routes
    /\ rules \in RuleSets

StoreOK ==
    /\ events \subseteq Events
    /\ deliveries \subseteq Events \X Destinations
    /\ dedup_event \in [Keys -> Events \cup {NoEvent}]
    /\ expires_at \in [Keys -> Nat]

TransactionsOK ==
    /\ pc \in [Events -> PCs]
    /\ key \in [Events -> Keys \cup {NoKey}]
    /\ now \in [Events -> Nat]
    /\ dropped_reason \in [Events -> Reasons]
    /\ targets \in [Events -> SUBSET Destinations]
    /\ inserted \in [Events -> SUBSET Destinations]
    /\ lock \in [Keys -> Events \cup {NoEvent}]
    /\ \A e \in Events : pc[e] = "claim" => key[e] \in Keys

HistoryOK ==
    /\ clock \in Nat
    /\ listed \in [Events -> SUBSET Destinations]
    /\ claimed_at \in [Events -> Nat]
    /\ cleanups \in Nat
    /\ faults \in Nat
    /\ edits \in Nat

\* Every variable has its type; routes point to destinations that exist, and
\* only routes are enabled.
IngestTypeOK == ConfigOK /\ StoreOK /\ TransactionsOK /\ HistoryOK
\* The end of a transaction leaves the locks typed.
LEMMA UnlockType ==
    ASSUME TransactionsOK, NEW e, Unlock(e)
    PROVE  lock' \in [Keys -> Events \cup {NoEvent}]
BY Zenon DEF TransactionsOK, Unlock

\* A transaction locks and commits under a key only when it has one.
LEMMA KeyType ==
    ASSUME TransactionsOK, NEW e \in Events, key[e] # NoKey
    PROVE  key[e] \in Keys
BY Zenon DEF TransactionsOK

\* Every action preserves IngestTypeOK.
LEMMA IngestTypeStep == IngestTypeOK /\ [Next]_vars => IngestTypeOK'
<1> USE DEF PCs, Reasons
<1> SUFFICES ASSUME IngestTypeOK, [Next]_vars PROVE IngestTypeOK'
  BY Zenon
<1>0. ConfigOK /\ StoreOK /\ TransactionsOK /\ HistoryOK
  BY Zenon DEF IngestTypeOK
<1> USE <1>0
<1>1. CASE Tick
  BY <1>1 DEF Tick, IngestTypeOK, ConfigOK, StoreOK, TransactionsOK, HistoryOK
<1>2. ASSUME NEW e \in Events, NEW k \in Keys \cup {NoKey}, Begin(e, k)
      PROVE  IngestTypeOK'
  <2>1. TransactionsOK'
    BY <1>2, IngestAssumption, Zenon
    DEF TransactionsOK, HistoryOK, Begin, InsertEvent, Goto
  <2> QED
    BY <1>2, <2>1, Zenon DEF Begin, IngestTypeOK, ConfigOK, StoreOK, HistoryOK
<1>3. ASSUME NEW e \in Events, ClaimDedupeKey(e)
      PROVE  IngestTypeOK'
  <2>1. TransactionsOK'
    BY <1>3 DEF TransactionsOK, ClaimDedupeKey, Goto, Drop
  <2>2. HistoryOK'
    BY <1>3, Zenon DEF HistoryOK, ClaimDedupeKey
  <2> QED
    BY <1>3, <2>1, <2>2, Zenon DEF ClaimDedupeKey, IngestTypeOK, ConfigOK, StoreOK
<1>4. ASSUME NEW e \in Events, EvaluateRules(e)
      PROVE  IngestTypeOK'
  <2>1. Matching(rules) # {} => FirstMatch(rules).to \in SUBSET Destinations
    BY FirstMatchCorrect, IngestAssumption, Zenon DEF ConfigOK, Rules
  <2>2. TransactionsOK'
    BY <1>4, <2>1 DEF TransactionsOK, EvaluateRules, Goto, Drop
  <2> QED
    BY <1>4, <2>2, Zenon
    DEF EvaluateRules, IngestTypeOK, ConfigOK, StoreOK, HistoryOK
<1>5. ASSUME NEW e \in Events, ListTargets(e)
      PROVE  IngestTypeOK'
  <2> DEFINE found == IF pc[e] = "fanout"
                      THEN ListEnabledDeliveryTargetsForSource
                      ELSE ListDeliveryTargetsByDestinationIDs(targets[e])
  <2>1. found \in SUBSET Destinations
    BY Zenon DEF ConfigOK, TransactionsOK, ListEnabledDeliveryTargetsForSource,
           ListDeliveryTargetsByDestinationIDs
  <2>2. /\ pc' = [pc EXCEPT ![e] = "insert"]
        /\ targets' = [targets EXCEPT ![e] = found]
        /\ listed' = [listed EXCEPT ![e] = found]
    BY <1>5, Zenon DEF ListTargets, Goto
  <2> HIDE DEF found
  <2>3. TransactionsOK'
    BY <1>5, <2>1, <2>2, Zenon DEF TransactionsOK, ListTargets
  <2>4. HistoryOK'
    BY <1>5, <2>1, <2>2, Zenon DEF HistoryOK, ListTargets
  <2> QED
    BY <1>5, <2>3, <2>4, Zenon DEF ListTargets, IngestTypeOK, ConfigOK, StoreOK
<1>6. ASSUME NEW e \in Events, NEW x \in Destinations, InsertDelivery(e, x)
      PROVE  IngestTypeOK'
  <2>1. lock' \in [Keys -> Events \cup {NoEvent}]
    <3>1. CASE x \in destinations
      BY <1>6, <3>1, Zenon DEF InsertDelivery, TransactionsOK
    <3>2. CASE x \notin destinations
      BY <1>6, <3>2, UnlockType, Zenon DEF InsertDelivery
    <3> QED
      BY <3>1, <3>2, Zenon
  <2>2. TransactionsOK'
    <3>1. CASE x \in destinations
      <4>1. /\ inserted[e] \cup {x} \in SUBSET Destinations
            /\ targets[e] \ {x} \in SUBSET Destinations
        BY Zenon DEF TransactionsOK
      <4>2. /\ inserted' \in [Events -> SUBSET Destinations]
            /\ targets' \in [Events -> SUBSET Destinations]
        <5>1. /\ inserted' = [inserted EXCEPT ![e] = inserted[e] \cup {x}]
              /\ targets' = [targets EXCEPT ![e] = targets[e] \ {x}]
          BY <1>6, <3>1, Zenon DEF InsertDelivery
        <5> QED
          BY <4>1, <5>1, Zenon DEF TransactionsOK
      <4>3. UNCHANGED <<pc, key, now, dropped_reason, lock>>
        BY <1>6, <3>1, Zenon DEF InsertDelivery
      <4> QED
        BY <4>2, <4>3, Zenon DEF TransactionsOK
    <3>2. CASE x \notin destinations
      BY <1>6, <2>1, <3>2, Zenon DEF TransactionsOK, InsertDelivery, Goto
    <3> QED
      BY <3>1, <3>2, Zenon
  <2> QED
    BY <1>6, <2>2, Zenon
    DEF InsertDelivery, IngestTypeOK, ConfigOK, StoreOK, HistoryOK
<1>7. ASSUME NEW e \in Events, Commit(e)
      PROVE  IngestTypeOK'
  <2>1. lock' \in [Keys -> Events \cup {NoEvent}]
    BY <1>7, UnlockType, Zenon DEF Commit, Publish
  <2>2. TransactionsOK'
    BY <1>7, <2>1, Zenon DEF TransactionsOK, Commit, Goto
  <2>3. StoreOK'
    <3>1. /\ events' \subseteq Events
          /\ deliveries' \subseteq Events \X Destinations
      BY <1>7 DEF StoreOK, TransactionsOK, Commit, Publish
    <3>2. now[e] + Window \in Nat
      BY IngestAssumption DEF TransactionsOK
    <3>3. /\ dedup_event' \in [Keys -> Events \cup {NoEvent}]
          /\ expires_at' \in [Keys -> Nat]
      <4>1. CASE key[e] # NoKey /\ dropped_reason[e] # "duplicate"
        <5>1. key[e] \in Keys
          BY <4>1, KeyType, Zenon
        <5> QED
          BY <1>7, <3>2, <4>1, <5>1, Zenon DEF StoreOK, Commit, Publish
      <4>2. CASE ~(key[e] # NoKey /\ dropped_reason[e] # "duplicate")
        BY <1>7, <4>2, Zenon DEF StoreOK, Commit, Publish
      <4> QED
        BY <4>1, <4>2, Zenon
    <3> QED
      BY <3>1, <3>3, Zenon DEF StoreOK
  <2>4. HistoryOK'
    BY <1>7 DEF Commit, HistoryOK
  <2>5. ConfigOK'
    BY <1>7, Zenon DEF Commit, ConfigOK
  <2> QED
    BY <2>2, <2>3, <2>4, <2>5, Zenon DEF IngestTypeOK
<1>8. ASSUME NEW e \in Events, Ack(e)
      PROVE  IngestTypeOK'
  BY <1>8, Zenon
  DEF Ack, Goto, IngestTypeOK, ConfigOK, StoreOK, TransactionsOK, HistoryOK
<1>9. ASSUME NEW e \in Events, Rollback(e)
      PROVE  IngestTypeOK'
  <2>1. TransactionsOK'
    BY <1>9, UnlockType, Zenon DEF TransactionsOK, Rollback, Goto
  <2>2. HistoryOK'
    BY <1>9 DEF Rollback, HistoryOK
  <2>3. ConfigOK' /\ StoreOK'
    BY <1>9, Zenon DEF Rollback, ConfigOK, StoreOK
  <2> QED
    BY <2>1, <2>2, <2>3, Zenon DEF IngestTypeOK
<1>10. ASSUME NEW k \in Keys, Cleanup(k)
       PROVE  IngestTypeOK'
  <2>1. StoreOK'
    BY <1>10, Zenon DEF Cleanup, StoreOK
  <2>2. HistoryOK'
    BY <1>10 DEF Cleanup, HistoryOK
  <2>3. ConfigOK' /\ TransactionsOK'
    BY <1>10, Zenon DEF Cleanup, ConfigOK, TransactionsOK
  <2> QED
    BY <2>1, <2>2, <2>3, Zenon DEF IngestTypeOK
<1>11. ASSUME Edit, ConfigOK', deliveries' \subseteq deliveries
       PROVE  IngestTypeOK'
  <2>1. StoreOK'
    BY <1>11, Zenon DEF Edit, StoreOK
  <2>2. HistoryOK'
    BY <1>11 DEF Edit, HistoryOK
  <2>3. TransactionsOK'
    BY <1>11, Zenon DEF Edit, TransactionsOK
  <2> QED
    BY <1>11, <2>1, <2>2, <2>3, Zenon DEF IngestTypeOK
<1>12. ASSUME NEW x \in Destinations, NEW on \in BOOLEAN,
              CreateRoute(x, on) \/ UpdateRoute(x, on)
       PROVE  IngestTypeOK'
  BY <1>11, <1>12, Zenon
  DEF CreateRoute, UpdateRoute, InsertRoute, Switch, ConfigOK
<1>13. ASSUME NEW x \in Destinations, DeleteRoute(x) \/ DeleteDestination(x)
       PROVE  IngestTypeOK'
  BY <1>11, <1>13, Zenon DEF DeleteRoute, DeleteDestination, Switch, ConfigOK
<1>14. ASSUME NEW rs \in RuleSets,
              CreateRule(rs) \/ UpdateRule(rs) \/ DeleteRule(rs)
       PROVE  IngestTypeOK'
  BY <1>11, <1>14, Zenon
  DEF CreateRule, UpdateRule, DeleteRule, InsertRuleRow, UpdateRuleRow,
      ConfigOK
<1>15. CASE UNCHANGED vars
  BY <1>15, Zenon
  DEF vars, IngestTypeOK, ConfigOK, StoreOK, TransactionsOK, HistoryOK
<1> QED
  BY <1>1, <1>2, <1>3, <1>4, <1>5, <1>6, <1>7, <1>8, <1>9, <1>10, <1>12,
     <1>13, <1>14, <1>15
  DEF Next, Step

\* The initial states are well typed.
LEMMA IngestInitType == Init => IngestTypeOK
<1>1. Init => ConfigOK /\ StoreOK
  BY DEF Init, ConfigOK, StoreOK
<1>2. Init => TransactionsOK
  BY DEF Init, TransactionsOK, PCs, Reasons
<1>3. Init => HistoryOK
  BY DEF Init, HistoryOK
<1> QED
  BY <1>1, <1>2, <1>3, Zenon DEF IngestTypeOK

\* Type correctness of the ingest transactions and of the tables they share
\* with the routes, rules and destinations APIs.
THEOREM IngestTypeCorrect == Spec => []IngestTypeOK
BY IngestInitType, IngestTypeStep, PTL DEF Spec
-----------------------------------------------------------------------------
\* Only three actions write the tables that an event is stored in or fanned
\* out to.
LEMMA QuietSteps ==
    ASSUME [Next]_vars
    PROVE  \/ UNCHANGED <<events, deliveries, destinations, dedup_event,
                          expires_at>>
           \/ \E e \in Events : Commit(e)
           \/ \E k \in Keys : Cleanup(k)
           \/ \E x \in Destinations : DeleteDestination(x)
<1> DEFINE Quiet == UNCHANGED <<events, deliveries, destinations,
                                dedup_event, expires_at>>
<1>1. ASSUME NEW e \in Events, NEW k \in Keys \cup {NoKey}, Begin(e, k)
      PROVE  Quiet
  BY <1>1, Zenon DEF Begin
<1>2. ASSUME NEW e \in Events, ClaimDedupeKey(e) \/ EvaluateRules(e)
      PROVE  Quiet
  BY <1>2, Zenon DEF ClaimDedupeKey, EvaluateRules
<1>3. ASSUME NEW e \in Events,
             ListTargets(e) \/ \E x \in Destinations : InsertDelivery(e, x)
      PROVE  Quiet
  BY <1>3, Zenon DEF ListTargets, InsertDelivery
<1>4. ASSUME NEW e \in Events, Ack(e) \/ Rollback(e)
      PROVE  Quiet
  BY <1>4, Zenon DEF Ack, Rollback
<1>5. ASSUME Edit, UNCHANGED <<destinations, deliveries>>
      PROVE  Quiet
  BY <1>5, Zenon DEF Edit
<1>6. ASSUME NEW x \in Destinations, NEW on \in BOOLEAN,
             CreateRoute(x, on) \/ UpdateRoute(x, on)
      PROVE  Quiet
  BY <1>5, <1>6, Zenon DEF CreateRoute, UpdateRoute
<1>7. ASSUME NEW x \in Destinations, DeleteRoute(x)
      PROVE  Quiet
  BY <1>5, <1>7, Zenon DEF DeleteRoute
<1>8. ASSUME NEW rs \in RuleSets,
             CreateRule(rs) \/ UpdateRule(rs) \/ DeleteRule(rs)
      PROVE  Quiet
  BY <1>5, <1>8, Zenon DEF CreateRule, UpdateRule, DeleteRule
<1>9. ASSUME Tick \/ UNCHANGED vars
      PROVE  Quiet
  BY <1>9, Zenon DEF Tick, vars
<1> HIDE DEF Quiet
<1>10. \/ Quiet
       \/ \E e \in Events : Commit(e)
       \/ \E k \in Keys : Cleanup(k)
       \/ \E x \in Destinations : DeleteDestination(x)
  BY <1>1, <1>2, <1>3, <1>4, <1>6, <1>7, <1>8, <1>9, Zenon DEF Next, Step
<1> QED
  BY <1>10, Zenon DEF Quiet

\* Where a transaction is tells what it has written so far: nothing is stored
\* before the commit, a drop inserts nothing, and what was inserted and what
\* is still to insert make up what was listed.  The destinations of its
\* deliveries are locked against deletion.
PlacedAt(e) ==
    /\ pc[e] \in InTransaction \cup {"idle"} => e \notin events
    /\ pc[e] \in {"committed", "acked"} => e \in events
    /\ pc[e] \in {"idle", "claim", "rules", "fanout", "route"} =>
          inserted[e] = {} /\ dropped_reason[e] = "null"
    /\ pc[e] = "insert" =>
          /\ listed[e] = targets[e] \cup inserted[e]
          /\ dropped_reason[e] = "null"
    /\ pc[e] = "commit" => inserted[e] = {} /\ dropped_reason[e] # "null"
    /\ pc[e] \in InTransaction => inserted[e] \subseteq destinations

Placed == \A e \in Events : PlacedAt(e)

\* An event is where it was when a step leaves its own variables alone.
LEMMA PlacedFrame ==
    ASSUME NEW f \in Events, PlacedAt(f),
           pc'[f] = pc[f], inserted'[f] = inserted[f],
           dropped_reason'[f] = dropped_reason[f], listed'[f] = listed[f],
           targets'[f] = targets[f], f \in events' <=> f \in events,
           destinations' = destinations
    PROVE  PlacedAt(f)'
BY Zenon DEF PlacedAt

\* Every action preserves Placed.
LEMMA PlacedStep == IngestTypeOK /\ Placed /\ [Next]_vars => Placed'
<1> SUFFICES ASSUME IngestTypeOK, Placed, [Next]_vars, NEW f \in Events
             PROVE  PlacedAt(f)'
  BY Zenon DEF Placed
<1>0. TransactionsOK /\ HistoryOK /\ PlacedAt(f)
  BY Zenon DEF IngestTypeOK, Placed
<1> USE <1>0
<1>1. CASE Tick
  BY <1>1, PlacedFrame, Zenon DEF Tick
<1>2. ASSUME NEW e \in Events, NEW k \in Keys \cup {NoKey}, Begin(e, k)
      PROVE  PlacedAt(f)'
  BY <1>2, PlacedFrame, Zenon DEF Begin, Goto, TransactionsOK, PlacedAt
<1>3. ASSUME NEW e \in Events, ClaimDedupeKey(e)
      PROVE  PlacedAt(f)'
  <2>1. CASE f = e
    BY <1>3, <2>1 DEF ClaimDedupeKey, Goto, Drop, TransactionsOK, PlacedAt
  <2>2. CASE f # e
    BY <1>3, <2>2, PlacedFrame, Zenon
    DEF ClaimDedupeKey, Goto, Drop, TransactionsOK
  <2> QED
    BY <2>1, <2>2, Zenon
<1>4. ASSUME NEW e \in Events, EvaluateRules(e)
      PROVE  PlacedAt(f)'
  <2>1. CASE f = e
    BY <1>4, <2>1 DEF EvaluateRules, Goto, Drop, TransactionsOK, PlacedAt
  <2>2. CASE f # e
    BY <1>4, <2>2, PlacedFrame DEF EvaluateRules, Goto, Drop, TransactionsOK
  <2> QED
    BY <2>1, <2>2, Zenon
<1>5. ASSUME NEW e \in Events, ListTargets(e)
      PROVE  PlacedAt(f)'
  <2>1. CASE f = e
    BY <1>5, <2>1, Zenon
    DEF ListTargets, Goto, TransactionsOK, HistoryOK, PlacedAt
  <2>2. CASE f # e
    BY <1>5, <2>2, PlacedFrame, Zenon
    DEF ListTargets, Goto, TransactionsOK, HistoryOK
  <2> QED
    BY <2>1, <2>2, Zenon
<1>6. ASSUME NEW e \in Events, NEW x \in Destinations, InsertDelivery(e, x)
      PROVE  PlacedAt(f)'
  <2>1. CASE f = e /\ x \in destinations
    BY <1>6, <2>1 DEF InsertDelivery, TransactionsOK, PlacedAt
  <2>2. CASE f = e /\ x \notin destinations
    BY <1>6, <2>2 DEF InsertDelivery, Goto, TransactionsOK, PlacedAt
  <2>3. CASE f # e
    BY <1>6, <2>3, PlacedFrame, Zenon DEF InsertDelivery, Goto, TransactionsOK
  <2> QED
    BY <2>1, <2>2, <2>3, Zenon
<1>7. ASSUME NEW e \in Events, Commit(e)
      PROVE  PlacedAt(f)'
  <2>1. CASE f = e
    BY <1>7, <2>1 DEF Commit, Publish, Goto, TransactionsOK, PlacedAt
  <2>2. CASE f # e
    BY <1>7, <2>2, PlacedFrame, Zenon DEF Commit, Publish, Goto, TransactionsOK
  <2> QED
    BY <2>1, <2>2, Zenon
<1>8. ASSUME NEW e \in Events, Ack(e)
      PROVE  PlacedAt(f)'
  BY <1>8, PlacedFrame, Zenon DEF Ack, Goto, TransactionsOK, PlacedAt
<1>9. ASSUME NEW e \in Events, Rollback(e)
      PROVE  PlacedAt(f)'
  BY <1>9, PlacedFrame, Zenon DEF Rollback, Goto, TransactionsOK, PlacedAt
<1>10. ASSUME NEW k \in Keys, Cleanup(k)
       PROVE  PlacedAt(f)'
  BY <1>10, PlacedFrame, Zenon DEF Cleanup
<1>11. ASSUME Edit, destinations' = destinations
       PROVE  PlacedAt(f)'
  BY <1>11, PlacedFrame, Zenon DEF Edit
<1>12. ASSUME NEW x \in Destinations, NEW on \in BOOLEAN,
              \/ CreateRoute(x, on) \/ UpdateRoute(x, on) \/ DeleteRoute(x)
       PROVE  PlacedAt(f)'
  BY <1>11, <1>12, Zenon DEF CreateRoute, UpdateRoute, DeleteRoute
<1>13. ASSUME NEW x \in Destinations, DeleteDestination(x)
       PROVE  PlacedAt(f)'
  BY <1>13, Zenon DEF DeleteDestination, Edit, PlacedAt
<1>14. ASSUME NEW rs \in RuleSets,
              CreateRule(rs) \/ UpdateRule(rs) \/ DeleteRule(rs)
       PROVE  PlacedAt(f)'
  BY <1>11, <1>14, Zenon DEF CreateRule, UpdateRule, DeleteRule
<1>15. CASE UNCHANGED vars
  BY <1>15, PlacedFrame, Zenon DEF vars
<1> QED
  BY <1>1, <1>2, <1>3, <1>4, <1>5, <1>6, <1>7, <1>8, <1>9, <1>10, <1>12,
     <1>13, <1>14, <1>15, Zenon
  DEF Next, Step

\* What is stored of an event, with the history of its call.
RowOf(e) == <<key[e], now[e], dropped_reason[e], listed[e], claimed_at[e]>>

\* A step never touches the row of an event that is stored: the transaction
\* that wrote it is over.
LEMMA StoredIsFinal ==
    ASSUME IngestTypeOK, Placed, [Next]_vars, NEW f \in events
    PROVE  f \in events' /\ UNCHANGED RowOf(f)
<1>0. /\ TransactionsOK /\ HistoryOK /\ f \in Events
      /\ pc[f] \in {"committed", "acked", "failed"}
  BY Zenon DEF IngestTypeOK, TransactionsOK, StoreOK, PCs, Placed, PlacedAt
<1> USE <1>0 DEF RowOf
<1>1. CASE Tick
  BY <1>1, Zenon DEF Tick
<1>2. ASSUME NEW e \in Events, NEW k \in Keys \cup {NoKey}, Begin(e, k)
      PROVE  f \in events' /\ UNCHANGED RowOf(f)
  BY <1>2, Zenon DEF Begin, InsertEvent, TransactionsOK
<1>3. ASSUME NEW e \in Events, ClaimDedupeKey(e)
      PROVE  f \in events' /\ UNCHANGED RowOf(f)
  BY <1>3, Zenon DEF ClaimDedupeKey, Drop, TransactionsOK, HistoryOK
<1>4. ASSUME NEW e \in Events, EvaluateRules(e)
      PROVE  f \in events' /\ UNCHANGED RowOf(f)
  BY <1>4, Zenon DEF EvaluateRules, Drop, TransactionsOK
<1>5. ASSUME NEW e \in Events, ListTargets(e)
      PROVE  f \in events' /\ UNCHANGED RowOf(f)
  BY <1>5, Zenon DEF ListTargets, TransactionsOK, HistoryOK
<1>6. ASSUME NEW e \in Events,
             \/ \E x \in Destinations : InsertDelivery(e, x)
             \/ Commit(e)
             \/ Ack(e)
             \/ Rollback(e)
      PROVE  f \in events' /\ UNCHANGED RowOf(f)
  BY <1>6, Zenon DEF InsertDelivery, Commit, Publish, Ack, Rollback
<1>7. ASSUME NEW k \in Keys, Cleanup(k)
      PROVE  f \in events' /\ UNCHANGED RowOf(f)
  BY <1>7, Zenon DEF Cleanup
<1>8. CASE Edit
  BY <1>8, Zenon DEF Edit
<1>9. CASE UNCHANGED vars
  BY <1>9, Zenon DEF vars
<1> QED
  BY <1>1, <1>2, <1>3, <1>4, <1>5, <1>6, <1>7, <1>8, <1>9, Zenon
  DEF Next, Step, CreateRoute, UpdateRoute, DeleteRoute, DeleteDestination,
      CreateRule, UpdateRule, DeleteRule

\* The part of FanOutAllOrNothing about the deliveries.
FannedOut ==
    /\ \A e \in events, x \in destinations :
          <<e, x>> \in deliveries <=>
              dropped_reason[e] = "null" /\ x \in listed[e]
    /\ \A d \in deliveries : d[1] \in events /\ d[2] \in destinations

\* Every action preserves FannedOut: only Commit adds events and deliveries,
\* and only DeleteDestination removes destinations and deliveries.
LEMMA FannedOutStep ==
    IngestTypeOK /\ Placed /\ FannedOut /\ [Next]_vars => FannedOut'
<1> SUFFICES ASSUME IngestTypeOK, Placed, FannedOut, [Next]_vars
             PROVE  FannedOut'
  BY Zenon
<1>0. \A f \in events : /\ dropped_reason'[f] = dropped_reason[f]
                        /\ listed'[f] = listed[f]
  BY StoredIsFinal, Zenon DEF RowOf
<1>1. ASSUME UNCHANGED <<events, deliveries, destinations>>
      PROVE  FannedOut'
  BY <1>0, <1>1, Zenon DEF FannedOut
<1>2. ASSUME NEW e \in Events, Commit(e)
      PROVE  FannedOut'
  <2>1. /\ events' = events \cup {e}
        /\ deliveries' = deliveries \cup ({e} \X inserted[e])
        /\ UNCHANGED <<destinations, dropped_reason, listed>>
    BY <1>2, Zenon DEF Commit, Publish
  <2>2. e \notin events /\ inserted[e] \subseteq destinations
    BY <1>2, Zenon DEF Commit, Placed, PlacedAt
  <2>3. \A x : x \in inserted[e] <=>
                  dropped_reason[e] = "null" /\ x \in listed[e]
    BY <1>2, Zenon DEF Commit, Placed, PlacedAt
  <2>4. ASSUME NEW g \in events', NEW x \in destinations'
        PROVE  <<g, x>> \in deliveries' <=>
                  dropped_reason'[g] = "null" /\ x \in listed'[g]
    <3>1. CASE g = e
      <4>1. <<g, x>> \notin deliveries
        BY <2>2, <3>1, Zenon DEF FannedOut
      <4> QED
        BY <2>1, <2>3, <3>1, <4>1, Zenon
    <3>2. CASE g # e
      BY <2>1, <3>2, Zenon DEF FannedOut
    <3> QED
      BY <3>1, <3>2, Zenon
  <2>5. ASSUME NEW d \in deliveries'
        PROVE  d[1] \in events' /\ d[2] \in destinations'
    BY <2>1, <2>2, Zenon DEF FannedOut
  <2> QED
    BY <2>4, <2>5, Zenon DEF FannedOut
<1>3. ASSUME NEW x \in Destinations, DeleteDestination(x)
      PROVE  FannedOut'
  <2>1. /\ destinations' = destinations \ {x}
        /\ deliveries' = {d \in deliveries : d[2] # x}
        /\ UNCHANGED <<events, dropped_reason, listed>>
    BY <1>3, Zenon DEF DeleteDestination, Edit
  <2>2. ASSUME NEW g \in events', NEW y \in destinations'
        PROVE  <<g, y>> \in deliveries' <=>
                  dropped_reason'[g] = "null" /\ y \in listed'[g]
    <3>1. <<g, y>> \in deliveries' <=> <<g, y>> \in deliveries
      BY <2>1, Zenon
    <3> QED
      BY <2>1, <3>1, Zenon DEF FannedOut
  <2>3. ASSUME NEW d \in deliveries'
        PROVE  d[1] \in events' /\ d[2] \in destinations'
    BY <2>1, Zenon DEF FannedOut
  <2> QED
    BY <2>2, <2>3, Zenon DEF FannedOut
<1>4. ASSUME NEW k \in Keys, Cleanup(k)
      PROVE  FannedOut'
  BY <1>1, <1>4, Zenon DEF Cleanup
<1> QED
  BY <1>1, <1>2, <1>3, <1>4, QuietSteps, Zenon

\* A row of dedup_index belongs to a stored event that won its key, and
\* expires a window after that event was received.
RowIsClaimed ==
    \A k \in Keys : dedup_event[k] # NoEvent =>
        /\ Claimed(dedup_event[k])
        /\ key[dedup_event[k]] = k
        /\ expires_at[k] = now[dedup_event[k]] + Window

\* Every action preserves RowIsClaimed: only Commit writes rows, and Cleanup
\* removes them.
LEMMA RowIsClaimedStep ==
    IngestTypeOK /\ Placed /\ RowIsClaimed /\ [Next]_vars => RowIsClaimed'
<1> SUFFICES ASSUME IngestTypeOK, Placed, RowIsClaimed, [Next]_vars,
                    NEW k \in Keys, dedup_event'[k] # NoEvent
             PROVE  /\ Claimed(dedup_event[k])'
                    /\ key'[dedup_event'[k]] = k
                    /\ expires_at'[k] = now'[dedup_event'[k]] + Window
  BY Zenon DEF RowIsClaimed
<1>0. StoreOK /\ TransactionsOK
  BY Zenon DEF IngestTypeOK
<1>1. ASSUME dedup_event'[k] = dedup_event[k], expires_at'[k] = expires_at[k]
      PROVE  /\ Claimed(dedup_event[k])'
             /\ key'[dedup_event'[k]] = k
             /\ expires_at'[k] = now'[dedup_event'[k]] + Window
  <2> DEFINE o == dedup_event[k]
  <2>1. /\ o \in events /\ key[o] # NoKey /\ dropped_reason[o] # "duplicate"
        /\ key[o] = k /\ expires_at[k] = now[o] + Window
    BY <1>1, Zenon DEF RowIsClaimed, Claimed
  <2>2. /\ o \in events' /\ key'[o] = key[o] /\ now'[o] = now[o]
        /\ dropped_reason'[o] = dropped_reason[o]
    BY <2>1, StoredIsFinal, Zenon DEF RowOf
  <2> QED
    BY <1>1, <2>1, <2>2, Zenon DEF Claimed
<1>2. ASSUME NEW e \in Events, Commit(e)
      PROVE  /\ Claimed(dedup_event[k])'
             /\ key'[dedup_event'[k]] = k
             /\ expires_at'[k] = now'[dedup_event'[k]] + Window
  <2>1. CASE key[e] = k /\ dropped_reason[e] # "duplicate" /\ k # NoKey
    <3>1. /\ dedup_event' = [dedup_event EXCEPT ![k] = e]
          /\ expires_at' = [expires_at EXCEPT ![k] = now[e] + Window]
          /\ events' = events \cup {e}
          /\ UNCHANGED <<key, now, dropped_reason>>
      BY <1>2, <2>1, Zenon DEF Commit, Publish
    <3>2. dedup_event'[k] = e /\ expires_at'[k] = now[e] + Window
      BY <1>0, <3>1, Zenon DEF StoreOK
    <3> QED
      BY <2>1, <3>1, <3>2 DEF Claimed
  <2>2. CASE ~(key[e] = k /\ dropped_reason[e] # "duplicate" /\ k # NoKey)
    <3>1. /\ dedup_event'[k] = dedup_event[k]
          /\ expires_at'[k] = expires_at[k]
      BY <1>0, <1>2, <2>2, IngestAssumption, Zenon
      DEF Commit, Publish, StoreOK, TransactionsOK
    <3> QED
      BY <1>1, <3>1, Zenon
  <2> QED
    BY <2>1, <2>2, Zenon
<1>3. ASSUME NEW l \in Keys, Cleanup(l)
      PROVE  /\ dedup_event'[k] = dedup_event[k]
             /\ expires_at'[k] = expires_at[k]
  BY <1>0, <1>3, Zenon DEF Cleanup, StoreOK
<1>4. ASSUME NEW x \in Destinations, DeleteDestination(x)
      PROVE  /\ dedup_event'[k] = dedup_event[k]
             /\ expires_at'[k] = expires_at[k]
  BY <1>4, Zenon DEF DeleteDestination, Edit
<1> QED
  BY <1>1, <1>2, <1>3, <1>4, QuietSteps, Zenon

\* The inductive invariant of the fan-out.
StoredInv == IngestTypeOK /\ Placed /\ FannedOut /\ RowIsClaimed

\* StoredInv holds initially.
LEMMA StoredInit == Init => StoredInv
<1>1. Init => IngestTypeOK
  BY IngestInitType, Zenon
<1>2. Init => Placed
  BY DEF Init, Placed, PlacedAt
<1>3. Init => FannedOut /\ RowIsClaimed
  BY DEF Init, FannedOut, RowIsClaimed
<1> QED
  BY <1>1, <1>2, <1>3, Zenon DEF StoredInv

\* Every step preserves StoredInv.
LEMMA StoredStep == StoredInv /\ [Next]_vars => StoredInv'
BY IngestTypeStep, PlacedStep, FannedOutStep, RowIsClaimedStep, Zenon
DEF StoredInv

\* An event is fanned out as a whole or not at all, for any number of
\* concurrent calls of ProcessEvent, whatever the routes, rules and
\* destinations APIs do meanwhile and wherever a transaction fails.
THEOREM FanOutIsAtomic == Spec => []FanOutAllOrNothing
<1>1. StoredInv => FanOutAllOrNothing
  BY Zenon
  DEF StoredInv, FannedOut, RowIsClaimed, Claimed, IngestTypeOK, ConfigOK,
         FanOutAllOrNothing
<1> QED
  BY <1>1, StoredInit, StoredStep, PTL DEF Spec
-----------------------------------------------------------------------------
(* Locks and times *)

Held == {"rules", "fanout", "route", "insert", "commit"}

\* A transaction that is past ClaimDedupeKey holds the row of its key, and its
\* times lie in the past.
LockedAt(e) ==
    /\ pc[e] \in Held /\ key[e] # NoKey => lock[key[e]] = e
    /\ now[e] <= clock
    /\ claimed_at[e] <= clock

Locked == \A e \in Events : LockedAt(e)

\* The end of another transaction leaves the locks of f alone.
LEMMA UnlockOther ==
    ASSUME TransactionsOK, NEW e \in Events, NEW f \in Events, e # f,
           Unlock(e), key[f] \in Keys, lock[key[f]] = f
    PROVE  lock'[key[f]] = f
BY Zenon DEF TransactionsOK, Unlock

\* A step that leaves the transaction of f and the locks alone.
LEMMA LockedFrame ==
    ASSUME HistoryOK, NEW f \in Events, LockedAt(f), pc'[f] = pc[f],
           key'[f] = key[f], now'[f] = now[f], claimed_at'[f] = claimed_at[f],
           clock' = clock, lock' = lock
    PROVE  LockedAt(f)'
BY Zenon DEF LockedAt

\* Every action preserves Locked.
LEMMA LockedStep == IngestTypeOK /\ Locked /\ [Next]_vars => Locked'
<1> SUFFICES ASSUME IngestTypeOK, Locked, [Next]_vars, NEW f \in Events
             PROVE  LockedAt(f)'
  BY Zenon DEF Locked
<1>0. TransactionsOK /\ HistoryOK /\ LockedAt(f)
  BY Zenon DEF IngestTypeOK, Locked
<1> USE <1>0
<1>1. CASE Tick
  <2>1. now[f] \in Nat /\ claimed_at[f] \in Nat /\ clock \in Nat
    BY Zenon DEF TransactionsOK, HistoryOK
  <2> QED
    BY <1>1, <2>1 DEF Tick, LockedAt
<1>2. ASSUME NEW e \in Events, NEW k \in Keys \cup {NoKey}, Begin(e, k)
      PROVE  LockedAt(f)'
  <2>1. CASE f = e
    BY <1>2, <2>1
    DEF Begin, InsertEvent, Goto, TransactionsOK, HistoryOK, LockedAt, Held
  <2>2. CASE f # e
    BY <1>2, <2>2, LockedFrame, Zenon DEF Begin, InsertEvent, Goto, TransactionsOK
  <2> QED
    BY <2>1, <2>2, Zenon
<1>3. ASSUME NEW e \in Events, ClaimDedupeKey(e)
      PROVE  LockedAt(f)'
  <2>0. key[e] \in Keys
    BY <1>3, Zenon DEF ClaimDedupeKey, TransactionsOK
  <2>1. CASE f = e
    BY <1>3, <2>0, <2>1
    DEF ClaimDedupeKey, Goto, TransactionsOK, HistoryOK, LockedAt
  <2>2. CASE f # e
    <3>1. /\ pc'[f] = pc[f] /\ key'[f] = key[f] /\ now'[f] = now[f]
          /\ claimed_at'[f] = claimed_at[f] /\ clock' = clock
      BY <1>3, <2>2, Zenon DEF ClaimDedupeKey, Goto, TransactionsOK, HistoryOK
    <3>2. ASSUME pc[f] \in Held, key[f] # NoKey
          PROVE  lock'[key[f]] = f
      <4>1. lock[key[f]] = f /\ f # NoEvent /\ key[f] \in Keys
        BY <3>2, KeyType, IngestAssumption, Zenon DEF LockedAt
      <4>2. key[f] # key[e]
        BY <1>3, <4>1, Zenon DEF ClaimDedupeKey
      <4> QED
        BY <1>3, <2>0, <4>1, <4>2, Zenon DEF ClaimDedupeKey, TransactionsOK
    <3> QED
      BY <3>1, <3>2, Zenon DEF LockedAt
  <2> QED
    BY <2>1, <2>2, Zenon
<1>4. ASSUME NEW e \in Events, EvaluateRules(e)
      PROVE  LockedAt(f)'
  BY <1>4, Zenon DEF EvaluateRules, Goto, TransactionsOK, LockedAt, Held
<1>5. ASSUME NEW e \in Events, ListTargets(e)
      PROVE  LockedAt(f)'
  BY <1>5, Zenon DEF ListTargets, Goto, TransactionsOK, LockedAt, Held
<1>6. ASSUME NEW e \in Events, Unlock(e),
             UNCHANGED <<clock, key, now, claimed_at>>,
             \E to \in {"failed", "committed"} : Goto(e, to)
      PROVE  LockedAt(f)'
  <2>1. CASE f = e
    BY <1>6, <2>1, Zenon DEF Goto, TransactionsOK, LockedAt, Held
  <2>2. CASE f # e
    BY <1>6, <2>2, UnlockOther, KeyType DEF Goto, TransactionsOK, LockedAt
  <2> QED
    BY <2>1, <2>2, Zenon
<1>7. ASSUME NEW e \in Events, NEW x \in Destinations, InsertDelivery(e, x)
      PROVE  LockedAt(f)'
  <2>1. CASE x \in destinations
    BY <1>7, <2>1, LockedFrame, Zenon DEF InsertDelivery
  <2>2. CASE x \notin destinations
    BY <1>6, <1>7, <2>2, Zenon DEF InsertDelivery
  <2> QED
    BY <2>1, <2>2, Zenon
<1>8. ASSUME NEW e \in Events, Commit(e) \/ Rollback(e)
      PROVE  LockedAt(f)'
  BY <1>6, <1>8, Zenon DEF Commit, Publish, Rollback
<1>9. ASSUME NEW e \in Events, Ack(e)
      PROVE  LockedAt(f)'
  BY <1>9, Zenon DEF Ack, Goto, TransactionsOK, LockedAt, Held
<1>10. ASSUME NEW k \in Keys, Cleanup(k)
       PROVE  LockedAt(f)'
  BY <1>10, LockedFrame, Zenon DEF Cleanup
<1>11. CASE Edit
  BY <1>11, LockedFrame, Zenon DEF Edit
<1>12. CASE UNCHANGED vars
  BY <1>12, LockedFrame, Zenon DEF vars
<1> QED
  BY <1>1, <1>2, <1>3, <1>4, <1>5, <1>7, <1>8, <1>9, <1>10, <1>11, <1>12, Zenon
  DEF Next, Step, CreateRoute, UpdateRoute, DeleteRoute, DeleteDestination,
      CreateRule, UpdateRule, DeleteRule
-----------------------------------------------------------------------------
(* Duplicates and claims *)

\* e is a reason for dropping f as a duplicate.
Original(e, f) ==
    /\ e \in events \ {f}
    /\ key[e] = key[f]
    /\ dropped_reason[e] # "duplicate"
    /\ now[f] < now[e] + Window

\* A duplicate has an original from the moment it is found to be one.
DuplicateExplained ==
    \A f \in Events : dropped_reason[f] = "duplicate" =>
        key[f] # NoKey /\ \E e \in Events : Original(e, f)

\* A claim that was made and is neither committed nor rolled back.
Holder(e) ==
    pc[e] \in Held /\ key[e] # NoKey /\ dropped_reason[e] # "duplicate"

\* How the call of f moves: it begins, claims its key, is found a duplicate,
\* or keeps what it has.
LEMMA CallSteps ==
    ASSUME IngestTypeOK, Placed, [Next]_vars, NEW f \in Events
    PROVE  \/ \E k \in Keys \cup {NoKey} : Begin(f, k)
           \/ ClaimDedupeKey(f)
           \/ /\ key'[f] = key[f] /\ now'[f] = now[f]
              /\ claimed_at'[f] = claimed_at[f]
              /\ dropped_reason'[f] = "duplicate" <=>
                    dropped_reason[f] = "duplicate"
              /\ pc'[f] \in Held => pc[f] \in Held
<1> DEFINE Keeps == /\ key'[f] = key[f] /\ now'[f] = now[f]
                    /\ claimed_at'[f] = claimed_at[f]
                    /\ dropped_reason'[f] = "duplicate" <=>
                          dropped_reason[f] = "duplicate"
                    /\ pc'[f] \in Held => pc[f] \in Held
<1>0. TransactionsOK /\ HistoryOK
  BY Zenon DEF IngestTypeOK
<1> USE <1>0
<1>1. ASSUME NEW e \in Events, NEW k \in Keys \cup {NoKey}, Begin(e, k), e # f
      PROVE  Keeps
  BY <1>1, Zenon DEF Begin, InsertEvent, Goto, TransactionsOK
<1>2. ASSUME NEW e \in Events, ClaimDedupeKey(e), e # f
      PROVE  Keeps
  BY <1>2, Zenon DEF ClaimDedupeKey, Goto, Drop, TransactionsOK, HistoryOK
<1>3. ASSUME NEW e \in Events, EvaluateRules(e)
      PROVE  Keeps
  <2>1. dropped_reason[e] = "null"
    BY <1>3, Zenon DEF EvaluateRules, Placed, PlacedAt
  <2> QED
    BY <1>3, <2>1, Zenon DEF EvaluateRules, Goto, Drop, TransactionsOK, Held
<1>4. ASSUME NEW e \in Events, ListTargets(e)
      PROVE  Keeps
  BY <1>4, Zenon DEF ListTargets, Goto, TransactionsOK, Held
<1>5. ASSUME NEW e \in Events, NEW x \in Destinations, InsertDelivery(e, x)
      PROVE  Keeps
  <2>1. CASE x \in destinations
    BY <1>5, <2>1, Zenon DEF InsertDelivery
  <2>2. CASE x \notin destinations
    BY <1>5, <2>2, Zenon DEF InsertDelivery, Goto, TransactionsOK, Held
  <2> QED
    BY <2>1, <2>2, Zenon
<1>6. ASSUME NEW e \in Events, Commit(e) \/ Ack(e) \/ Rollback(e)
      PROVE  Keeps
  BY <1>6, Zenon DEF Commit, Ack, Rollback, Goto, TransactionsOK, Held
<1>7. ASSUME NEW k \in Keys, Cleanup(k)
      PROVE  Keeps
  BY <1>7, Zenon DEF Cleanup
<1>8. ASSUME Tick \/ Edit \/ UNCHANGED vars
      PROVE  Keeps
  BY <1>8, Zenon DEF Tick, Edit, vars
<1> HIDE DEF Keeps
<1>9. \/ \E k \in Keys \cup {NoKey} : Begin(f, k)
      \/ ClaimDedupeKey(f)
      \/ Keeps
  BY <1>1, <1>2, <1>3, <1>4, <1>5, <1>6, <1>7, <1>8, Zenon
  DEF Next, Step, CreateRoute, UpdateRoute, DeleteRoute, DeleteDestination,
      CreateRule, UpdateRule, DeleteRule
<1> QED
  BY <1>9, Zenon DEF Keeps

\* A step that leaves f a duplicate keeps its original.
LEMMA OriginalStays ==
    ASSUME IngestTypeOK, Placed, [Next]_vars,
           NEW f \in Events, NEW e \in Events, Original(e, f),
           key'[f] = key[f], now'[f] = now[f]
    PROVE  Original(e, f)'
BY StoredIsFinal, Zenon DEF Original, RowOf

\* Every action preserves DuplicateExplained.
LEMMA DuplicateExplainedStep ==
    StoredInv /\ DuplicateExplained /\ [Next]_vars => DuplicateExplained'
<1> SUFFICES ASSUME StoredInv, DuplicateExplained, [Next]_vars,
                    NEW f \in Events, dropped_reason'[f] = "duplicate"
             PROVE  key'[f] # NoKey /\ \E e \in Events : Original(e, f)'
  BY Zenon DEF DuplicateExplained
<1>0. /\ IngestTypeOK /\ Placed /\ RowIsClaimed
      /\ TransactionsOK /\ StoreOK /\ PlacedAt(f)
  BY Zenon DEF StoredInv, IngestTypeOK, Placed
<1> USE <1>0
<1>1. ASSUME dropped_reason[f] = "duplicate", key'[f] = key[f],
             now'[f] = now[f]
      PROVE  key'[f] # NoKey /\ \E e \in Events : Original(e, f)'
  BY <1>1, OriginalStays, Zenon DEF DuplicateExplained
<1>2. ASSUME NEW k \in Keys \cup {NoKey}, Begin(f, k)
      PROVE  FALSE
  BY <1>2, Zenon DEF Begin, PlacedAt
<1>3. ASSUME ClaimDedupeKey(f)
      PROVE  key'[f] # NoKey /\ \E e \in Events : Original(e, f)'
  <2>1. pc[f] = "claim" /\ key[f] \in Keys /\ f \notin events
    BY <1>3, Zenon DEF ClaimDedupeKey, TransactionsOK, PlacedAt
  <2>2. ~Claimable(f)
    BY <1>3, <2>1, Zenon DEF ClaimDedupeKey, PlacedAt
  <2>3. PICK o \in Events : o = dedup_event[key[f]]
    BY <2>1, <2>2, Zenon DEF Claimable, StoreOK
  <2>4. /\ Claimed(o) /\ key[o] = key[f]
        /\ expires_at[key[f]] = now[o] + Window
    BY <2>1, <2>2, <2>3, Zenon DEF Claimable, RowIsClaimed
  <2>5. now[f] < expires_at[key[f]]
    BY <2>1, <2>2 DEF Claimable, TransactionsOK, StoreOK
  <2>6. Original(o, f)
    BY <2>1, <2>4, <2>5, Zenon DEF Original, Claimed
  <2>7. key'[f] = key[f] /\ now'[f] = now[f]
    BY <1>3, Zenon DEF ClaimDedupeKey
  <2>8. Original(o, f)'
    BY <2>6, <2>7, OriginalStays, Zenon
  <2> QED
    BY <2>1, <2>7, <2>8, IngestAssumption, Zenon
<1> QED
  BY <1>1, <1>2, <1>3, CallSteps, Zenon
-----------------------------------------------------------------------------
(* Claims of one key *)

\* The row of the key is at least as young as e.
Live(e) ==
    dedup_event[key[e]] # NoEvent /\ now[e] + Window <= expires_at[key[e]]

\* What a claim leaves behind: a row that covers its window, until the window
\* is over; without the cleanup, for good.
ClaimsLive ==
    \A e \in Events : Claimed(e) =>
        /\ Live(e) \/ now[e] + Window <= clock
        /\ cleanups = 0 => Live(e)

\* A claim under way was made after the window of every committed one.
HolderApart ==
    \A e, h \in Events : Claimed(e) /\ Holder(h) /\ key[e] = key[h] =>
        /\ now[e] + Window <= claimed_at[h]
        /\ cleanups = 0 => now[e] + Window <= now[h]

\* An event gets past deduplication in the commit of its claim.
LEMMA NewClaim ==
    ASSUME IngestTypeOK, Placed, [Next]_vars, NEW e \in Events, Claimed(e)'
    PROVE  /\ Claimed(e) \/ (Commit(e) /\ Holder(e))
           /\ UNCHANGED RowOf(e)
<1>1. CASE e \in events
  BY <1>1, StoredIsFinal, Zenon DEF Claimed, RowOf
<1>2. CASE e \notin events
  <2>1. e \in events'
    BY Zenon DEF Claimed
  <2>2. Commit(e)
    <3>1. ASSUME NEW f \in Events, Commit(f)
          PROVE  f = e
      BY <1>2, <2>1, <3>1, Zenon DEF Commit, Publish
    <3>2. ASSUME NEW k \in Keys, Cleanup(k)
          PROVE  FALSE
      BY <1>2, <2>1, <3>2, Zenon DEF Cleanup
    <3>3. ASSUME NEW x \in Destinations, DeleteDestination(x)
          PROVE  FALSE
      BY <1>2, <2>1, <3>3, Zenon DEF DeleteDestination, Edit
    <3> QED
      BY <1>2, <2>1, <3>1, <3>2, <3>3, QuietSteps, Zenon
  <2>3. UNCHANGED RowOf(e)
    BY <2>2, Zenon DEF Commit, RowOf
  <2> QED
    BY <2>2, <2>3, Zenon DEF Commit, Holder, Held, Claimed, RowOf
<1> QED
  BY <1>1, <1>2, Zenon

\* A claim under way was under way before, or is made by this step.
LEMMA NewHolder ==
    ASSUME IngestTypeOK, Placed, [Next]_vars, NEW h \in Events, Holder(h)'
    PROVE  \/ /\ Holder(h) /\ key'[h] = key[h] /\ now'[h] = now[h]
              /\ claimed_at'[h] = claimed_at[h]
           \/ ClaimDedupeKey(h) /\ Claimable(h)
<1>0. TransactionsOK
  BY Zenon DEF IngestTypeOK
<1>1. ASSUME NEW k \in Keys \cup {NoKey}, Begin(h, k)
      PROVE  FALSE
  BY <1>0, <1>1, Zenon DEF Begin, InsertEvent, Goto, TransactionsOK, Holder, Held
<1>2. ASSUME ClaimDedupeKey(h)
      PROVE  Claimable(h)
  BY <1>0, <1>2, Zenon DEF ClaimDedupeKey, Drop, TransactionsOK, Holder
<1> QED
  BY <1>1, <1>2, CallSteps, Zenon DEF Holder

\* The clock and the number of cleanups never decrease.
LEMMA Monotone ==
    ASSUME IngestTypeOK, [Next]_vars
    PROVE  clock <= clock' /\ (cleanups' = 0 => cleanups = 0)
<1>0. clock \in Nat /\ cleanups \in Nat
  BY Zenon DEF IngestTypeOK, HistoryOK
<1>1. CASE Tick
  BY <1>0, <1>1 DEF Tick
<1>2. ASSUME NEW k \in Keys, Cleanup(k)
      PROVE  clock' = clock /\ cleanups' = cleanups + 1
  BY <1>2, Zenon DEF Cleanup
<1>3. ASSUME NEW e \in Events, NEW k \in Keys \cup {NoKey}, Begin(e, k)
      PROVE  UNCHANGED <<clock, cleanups>>
  BY <1>3, Zenon DEF Begin
<1>4. ASSUME NEW e \in Events,
             ClaimDedupeKey(e) \/ EvaluateRules(e) \/ ListTargets(e)
      PROVE  UNCHANGED <<clock, cleanups>>
  BY <1>4, Zenon DEF ClaimDedupeKey, EvaluateRules, ListTargets
<1>5. ASSUME NEW e \in Events, NEW x \in Destinations, InsertDelivery(e, x)
      PROVE  UNCHANGED <<clock, cleanups>>
  BY <1>5, Zenon DEF InsertDelivery
<1>6. ASSUME NEW e \in Events, Commit(e) \/ Ack(e) \/ Rollback(e)
      PROVE  UNCHANGED <<clock, cleanups>>
  BY <1>6, Zenon DEF Commit, Ack, Rollback
<1>7. ASSUME Edit \/ UNCHANGED vars
      PROVE  UNCHANGED <<clock, cleanups>>
  BY <1>7, Zenon DEF Edit, vars
<1>8. \/ Tick
      \/ \E k \in Keys : Cleanup(k)
      \/ UNCHANGED <<clock, cleanups>>
  BY <1>3, <1>4, <1>5, <1>6, <1>7, Zenon
  DEF Next, Step, CreateRoute, UpdateRoute, DeleteRoute, DeleteDestination,
      CreateRule, UpdateRule, DeleteRule
<1> QED
  BY <1>0, <1>1, <1>2, <1>8

\* Every action preserves ClaimsLive: a commit replaces a row by a younger one
\* or one whose window is over, and so does the cleanup.
LEMMA ClaimsLiveStep ==
    StoredInv /\ Locked /\ ClaimsLive /\ HolderApart /\ [Next]_vars
        => ClaimsLive'
<1> SUFFICES ASSUME StoredInv, Locked, ClaimsLive, HolderApart, [Next]_vars,
                    NEW e \in Events, Claimed(e)'
             PROVE  /\ Live(e)' \/ now'[e] + Window <= clock'
                    /\ cleanups' = 0 => Live(e)'
  BY Zenon DEF ClaimsLive
<1>0. IngestTypeOK /\ Placed /\ StoreOK /\ TransactionsOK /\ HistoryOK
  BY Zenon DEF StoredInv, IngestTypeOK
<1>1. /\ key'[e] = key[e] /\ now'[e] = now[e] /\ key[e] \in Keys
      /\ dropped_reason'[e] = dropped_reason[e]
      /\ Claimed(e) \/ (Commit(e) /\ Holder(e))
  <2>1. /\ UNCHANGED RowOf(e)
        /\ Claimed(e) \/ (Commit(e) /\ Holder(e))
    BY <1>0, NewClaim, Zenon
  <2>2. key[e] # NoKey
    BY <2>1, Zenon DEF Claimed, Holder
  <2> QED
    BY <1>0, <2>1, <2>2, KeyType, Zenon DEF RowOf
<1>2. PICK over \in Nat : over = now[e] + Window /\ over = now'[e] + Window
  <2>1. now[e] \in Nat /\ Window \in Nat
    BY <1>0, IngestAssumption, Zenon DEF TransactionsOK
  <2>2. now[e] + Window \in Nat
    BY <2>1
  <2> QED
    BY <1>1, <2>2, Zenon
<1>3. /\ clock \in Nat /\ clock' \in Nat /\ clock <= clock'
      /\ cleanups' = 0 => cleanups = 0
  <2>1. clock' \in Nat
    BY IngestTypeStep, <1>0, Zenon DEF IngestTypeOK, HistoryOK
  <2> QED
    BY <1>0, <2>1, Monotone, Zenon DEF HistoryOK
<1>4. Live(e)' <=> /\ dedup_event'[key[e]] # NoEvent
                   /\ over <= expires_at'[key[e]]
  BY <1>1, <1>2, Zenon DEF Live
<1>5. Claimed(e) => /\ \/ /\ dedup_event[key[e]] # NoEvent
                          /\ over <= expires_at[key[e]]
                       \/ over <= clock
                    /\ cleanups = 0 => /\ dedup_event[key[e]] # NoEvent
                                       /\ over <= expires_at[key[e]]
  BY <1>2, Zenon DEF ClaimsLive, Live
<1> DEFINE Goal == /\ Live(e)' \/ over <= clock'
                   /\ cleanups' = 0 => Live(e)'
<1>6. SUFFICES Goal
  BY <1>2, Zenon
<1>7. ASSUME Claimed(e), dedup_event'[key[e]] = dedup_event[key[e]],
             expires_at'[key[e]] = expires_at[key[e]]
      PROVE  Goal
  <2>1. over <= clock => over <= clock'
    BY <1>3
  <2> QED
    BY <1>3, <1>4, <1>5, <1>7, <2>1, Zenon
<1>8. ASSUME NEW h \in Events, Commit(h)
      PROVE  Goal
  <2>1. CASE key[h] = key[e] /\ dropped_reason[h] # "duplicate"
    <3>1. key[e] # NoKey
      BY <1>1, IngestAssumption, Zenon
    <3>2. /\ dedup_event' = [dedup_event EXCEPT ![key[e]] = h]
          /\ expires_at' = [expires_at EXCEPT ![key[e]] = now[h] + Window]
      BY <1>8, <2>1, <3>1, Zenon DEF Commit, Publish
    <3>3. /\ dedup_event'[key[e]] = h /\ h # NoEvent
          /\ expires_at'[key[e]] = now[h] + Window
      BY <1>0, <1>1, <3>2, IngestAssumption, Zenon DEF StoreOK
    <3>4. CASE e = h
      <4>1. over = expires_at'[key[e]]
        BY <1>2, <3>3, <3>4, Zenon
      <4>2. over <= expires_at'[key[e]]
        BY <4>1
      <4> QED
        BY <1>4, <3>3, <4>2, Zenon
    <3>5. CASE e # h
      <4>1. Claimed(e)
        <5>1. ASSUME Commit(e)
              PROVE  FALSE
          <6>1. pc[e] \in InTransaction /\ pc[h] \in InTransaction
            BY <1>8, <5>1, Zenon DEF Commit
          <6>2. e \notin events /\ h \notin events
            BY <1>0, <6>1, Zenon DEF Placed, PlacedAt
          <6> QED
            BY <1>8, <3>5, <5>1, <6>2, Zenon DEF Commit, Publish
        <5> QED
          BY <1>1, <5>1, Zenon
      <4>2. Holder(h)
        BY <1>8, <2>1, <3>1, Zenon DEF Commit, Holder, Held
      <4>3. over <= claimed_at[h] /\ (cleanups = 0 => over <= now[h])
        BY <1>2, <2>1, <4>1, <4>2, Zenon DEF HolderApart
      <4>4. now[h] \in Nat /\ claimed_at[h] \in Nat
        BY <1>0, Zenon DEF TransactionsOK, HistoryOK
      <4>5. claimed_at[h] <= clock
        BY Zenon DEF Locked, LockedAt
      <4>6. over <= clock'
        BY <1>3, <4>3, <4>4, <4>5
      <4>7. over <= now[h] => over <= now[h] + Window
        BY <4>4, IngestAssumption
      <4> QED
        BY <1>3, <1>4, <3>3, <4>3, <4>6, <4>7
    <3> QED
      BY <3>4, <3>5, Zenon
  <2>2. CASE ~(key[h] = key[e] /\ dropped_reason[h] # "duplicate")
    <3>1. /\ dedup_event'[key[e]] = dedup_event[key[e]]
          /\ expires_at'[key[e]] = expires_at[key[e]]
      BY <1>0, <1>1, <1>8, <2>2, IngestAssumption, Zenon
      DEF Commit, Publish, StoreOK
    <3>2. Claimed(e)
      BY <1>1, <1>8, <2>2, Zenon DEF Commit, Publish, Holder, Claimed
    <3> QED
      BY <1>7, <3>1, <3>2, Zenon
  <2> QED
    BY <2>1, <2>2, Zenon
<1>9. ASSUME NEW k \in Keys, Cleanup(k)
      PROVE  Goal
  <2>1. cleanups' # 0
    <3>1. cleanups \in Nat /\ cleanups' = cleanups + 1
      BY <1>0, <1>9, Zenon DEF Cleanup, HistoryOK
    <3> QED
      BY <3>1
  <2>2. clock' = clock /\ Claimed(e)
    BY <1>1, <1>9, Zenon DEF Cleanup, Claimed
  <2>3. CASE k = key[e]
    <3>1. expires_at[k] <= clock /\ expires_at[k] \in Nat
      BY <1>0, <1>9, Zenon DEF Cleanup, StoreOK
    <3>2. over <= clock
      BY <1>3, <1>5, <2>2, <2>3, <3>1
    <3> QED
      BY <2>1, <2>2, <3>2, Zenon
  <2>4. CASE k # key[e]
    <3>1. /\ dedup_event'[key[e]] = dedup_event[key[e]]
          /\ expires_at'[key[e]] = expires_at[key[e]]
      BY <1>0, <1>1, <1>9, <2>4, Zenon DEF Cleanup, StoreOK
    <3> QED
      BY <1>7, <2>2, <3>1, Zenon
  <2> QED
    BY <2>3, <2>4, Zenon
<1>10. ASSUME UNCHANGED <<dedup_event, expires_at, events>>
       PROVE  Goal
  <2>1. Claimed(e)
    BY <1>1, <1>10, Zenon DEF Claimed
  <2> QED
    BY <1>7, <1>10, <2>1, Zenon
<1>11. ASSUME NEW x \in Destinations, DeleteDestination(x)
       PROVE  UNCHANGED <<dedup_event, expires_at, events>>
  BY <1>11, Zenon DEF DeleteDestination, Edit
<1> HIDE DEF Goal
<1> QED
  BY <1>8, <1>9, <1>10, <1>11, QuietSteps, Zenon

\* Every action preserves HolderApart: who claims a key finds it free because
\* its last window is over, and who commits one held its row alone.
LEMMA HolderApartStep ==
    StoredInv /\ Locked /\ ClaimsLive /\ HolderApart /\ [Next]_vars
        => HolderApart'
<1> SUFFICES ASSUME StoredInv, Locked, ClaimsLive, HolderApart, [Next]_vars,
                    NEW e \in Events, NEW h \in Events,
                    Claimed(e)', Holder(h)', key'[e] = key'[h]
             PROVE  /\ now'[e] + Window <= claimed_at'[h]
                    /\ cleanups' = 0 => now'[e] + Window <= now'[h]
  BY Zenon DEF HolderApart
<1>0. IngestTypeOK /\ Placed /\ StoreOK /\ TransactionsOK /\ HistoryOK
  BY Zenon DEF StoredInv, IngestTypeOK
<1>1. /\ key'[e] = key[e] /\ now'[e] = now[e]
      /\ Claimed(e) \/ (Commit(e) /\ Holder(e))
  BY <1>0, NewClaim, Zenon DEF RowOf
<1>2. cleanups' = 0 => cleanups = 0
  BY <1>0, Monotone, Zenon
<1>3. ASSUME Holder(h), key'[h] = key[h], now'[h] = now[h],
             claimed_at'[h] = claimed_at[h]
      PROVE  /\ now'[e] + Window <= claimed_at'[h]
             /\ cleanups' = 0 => now'[e] + Window <= now'[h]
  <2>1. CASE Claimed(e)
    BY <1>1, <1>2, <1>3, <2>1, Zenon DEF HolderApart
  <2>2. CASE Commit(e) /\ Holder(e)
    <3>1. lock[key[e]] = e /\ lock[key[h]] = h
      BY <1>3, <2>2, Zenon DEF Locked, LockedAt, Holder
    <3>2. e = h
      BY <1>1, <1>3, <3>1, Zenon
    <3>3. pc'[h] \notin Held
      BY <1>0, <2>2, <3>2, Zenon DEF Commit, Goto, TransactionsOK, Held
    <3> QED
      BY <3>3, Zenon DEF Holder
  <2> QED
    BY <1>1, <2>1, <2>2, Zenon
<1>4. ASSUME ClaimDedupeKey(h), Claimable(h)
      PROVE  /\ now'[e] + Window <= claimed_at'[h]
             /\ cleanups' = 0 => now'[e] + Window <= now'[h]
  <2>1. /\ claimed_at'[h] = clock /\ now'[h] = now[h] /\ key'[h] = key[h]
        /\ events' = events /\ dropped_reason' = dropped_reason
        /\ key' = key /\ cleanups' = cleanups
    BY <1>0, <1>4, Zenon DEF ClaimDedupeKey, HistoryOK
  <2>2. Claimed(e)
    BY <2>1, Zenon DEF Claimed
  <2>3. key[e] \in Keys /\ key[e] = key[h]
    BY <1>0, <1>1, <2>1, <2>2, KeyType, Zenon DEF Claimed
  <2>4. PICK over \in Nat : over = now[e] + Window
    <3>1. now[e] \in Nat /\ Window \in Nat
      BY <1>0, IngestAssumption, Zenon DEF TransactionsOK
    <3>2. now[e] + Window \in Nat
      BY <3>1
    <3> QED
      BY <3>2, Zenon
  <2>5. now[h] \in Nat /\ clock \in Nat /\ now[h] <= clock
    BY <1>0, Zenon DEF TransactionsOK, HistoryOK, Locked, LockedAt
  <2>6. expires_at[key[e]] \in Nat
    BY <1>0, <2>3, Zenon DEF StoreOK
  <2>7. /\ Live(e) \/ over <= clock
        /\ cleanups = 0 => Live(e)
    BY <2>2, <2>4, Zenon DEF ClaimsLive
  <2>8. Live(e) => over <= expires_at[key[e]] /\ expires_at[key[e]] <= now[h]
    BY <1>4, <2>3, <2>4, Zenon DEF Live, Claimable
  <2>9. Live(e) => over <= now[h]
    BY <2>5, <2>6, <2>8
  <2>10. over <= clock /\ (cleanups = 0 => over <= now[h])
    BY <2>5, <2>7, <2>9
  <2> QED
    BY <1>1, <2>1, <2>4, <2>10, Zenon
<1> QED
  BY <1>0, <1>3, <1>4, NewHolder, Zenon

\* Two committed claims of a key are a window apart, in one of two ways.
ClaimsApart ==
    \A e, f \in Events : e # f /\ Claimed(e) /\ Claimed(f) /\ key[e] = key[f] =>
        \/ /\ now[e] + Window <= claimed_at[f]
           /\ cleanups = 0 => now[e] + Window <= now[f]
        \/ /\ now[f] + Window <= claimed_at[e]
           /\ cleanups = 0 => now[f] + Window <= now[e]

\* Every action preserves ClaimsApart: the later of the two was a claim under
\* way when the earlier one was committed already.
LEMMA ClaimsApartStep ==
    StoredInv /\ HolderApart /\ ClaimsApart /\ [Next]_vars => ClaimsApart'
<1> SUFFICES ASSUME StoredInv, HolderApart, ClaimsApart, [Next]_vars,
                    NEW e \in Events, NEW f \in Events, e # f,
                    Claimed(e)', Claimed(f)', key'[e] = key'[f]
             PROVE  \/ /\ now'[e] + Window <= claimed_at'[f]
                       /\ cleanups' = 0 => now'[e] + Window <= now'[f]
                    \/ /\ now'[f] + Window <= claimed_at'[e]
                       /\ cleanups' = 0 => now'[f] + Window <= now'[e]
  BY Zenon DEF ClaimsApart
<1>0. IngestTypeOK /\ Placed
  BY Zenon DEF StoredInv
<1>1. /\ key'[e] = key[e] /\ now'[e] = now[e] /\ claimed_at'[e] = claimed_at[e]
      /\ key'[f] = key[f] /\ now'[f] = now[f] /\ claimed_at'[f] = claimed_at[f]
      /\ cleanups' = 0 => cleanups = 0
  BY <1>0, NewClaim, Monotone, Zenon DEF RowOf
<1>2. /\ Claimed(e) \/ (Commit(e) /\ Holder(e))
      /\ Claimed(f) \/ (Commit(f) /\ Holder(f))
  BY <1>0, NewClaim, Zenon
<1>3. ~(Commit(e) /\ Commit(f))
  <2> SUFFICES ASSUME Commit(e), Commit(f) PROVE FALSE
    BY Zenon
  <2>1. e \notin events /\ f \notin events
    BY <1>0, Zenon DEF Commit, Placed, PlacedAt
  <2> QED
    BY <2>1, Zenon DEF Commit, Publish
<1>4. CASE Claimed(e) /\ Claimed(f)
  BY <1>1, <1>4, Zenon DEF ClaimsApart
<1>5. CASE Claimed(e) /\ Holder(f)
  BY <1>1, <1>5, Zenon DEF HolderApart
<1>6. CASE Holder(e) /\ Claimed(f)
  BY <1>1, <1>6, Zenon DEF HolderApart
<1> QED
  BY <1>2, <1>3, <1>4, <1>5, <1>6, Zenon

\* The inductive invariant of the deduplication.
DedupInv ==
    /\ StoredInv
    /\ Locked
    /\ DuplicateExplained
    /\ ClaimsLive
    /\ HolderApart
    /\ ClaimsApart

\* DedupInv holds initially, and every step preserves it.
LEMMA DedupInductive ==
    /\ Init => DedupInv
    /\ DedupInv /\ [Next]_vars => DedupInv'
<1>1. Init => StoredInv
  BY StoredInit, Zenon
<1>2. Init => Locked
  BY DEF Init, Locked, LockedAt, Held
<1>3. Init => DuplicateExplained /\ ClaimsLive /\ HolderApart /\ ClaimsApart
  BY Zenon DEF Init, DuplicateExplained, ClaimsLive, HolderApart, ClaimsApart,
         Claimed
<1>4. DedupInv /\ [Next]_vars => DedupInv'
  BY StoredStep, LockedStep, DuplicateExplainedStep, ClaimsLiveStep,
     HolderApartStep, ClaimsApartStep, Zenon
  DEF DedupInv, StoredInv
<1> QED
  BY <1>1, <1>2, <1>3, <1>4, Zenon DEF DedupInv

\* "never a wrongly-dropped event": ProcessEvent stores an event as a duplicate
\* only of a committed one that got past deduplication less than a window
\* before it, for any number of calls, rollbacks and cleanups.
THEOREM DuplicatesAreExplained == Spec => []DuplicateHasOriginal
<1>1. DedupInv => DuplicateHasOriginal
  BY Zenon DEF DedupInv, StoredInv, IngestTypeOK, StoreOK, DuplicateExplained,
         Original, DuplicateHasOriginal
<1> QED
  BY <1>1, DedupInductive, PTL DEF Spec

\* Until the cleanup job has removed a row, ClaimDedupeKey lets one event per
\* key and window past deduplication.
THEOREM OneClaimWithoutCleanup == Spec => []OneClaimUntilCleanup
<1>1. DedupInv => OneClaimUntilCleanup
  BY Zenon DEF DedupInv, ClaimsApart, OneClaimUntilCleanup, OneClaimPerWindow
<1> QED
  BY <1>1, DedupInductive, PTL DEF Spec

\* With the cleanup job too, the later of two claims of a key is made at least
\* a window after the earlier event was received.
THEOREM ClaimsAreApart == Spec => []ClaimsAWindowApart
<1>1. DedupInv => ClaimsAWindowApart
  BY Zenon DEF DedupInv, ClaimsApart, ClaimsAWindowApart
<1> QED
  BY <1>1, DedupInductive, PTL DEF Spec
-----------------------------------------------------------------------------
\* What the provider hears depends on the position of the call alone.
HeardAt(p) ==
    CASE p = "idle" -> "no call"
      [] p = "acked" -> "200"
      [] p = "failed" -> "500"
      [] OTHER -> "waiting"

\* Heard is computed call by call.
LEMMA HeardIs == Heard = [e \in Events |-> HeardAt(pc[e])]
BY Zenon DEF Heard, HeardAt

\* A step of the call of e changes what its provider hears, and no other's.
LEMMA HeardStep ==
    ASSUME TransactionsOK, NEW e \in Events, NEW to \in PCs, Goto(e, to)
    PROVE  Heard' = [Heard EXCEPT ![e] = HeardAt(to)]
<1>1. pc' = [pc EXCEPT ![e] = to] /\ pc \in [Events -> PCs]
  BY Zenon DEF Goto, TransactionsOK
<1>2. Heard' = [f \in Events |-> HeardAt(pc'[f])]
  BY Zenon DEF Heard, HeardAt
<1>3. ASSUME NEW f \in Events
      PROVE  HeardAt(pc'[f]) = [Heard EXCEPT ![e] = HeardAt(to)][f]
  BY <1>1, HeardIs, Zenon
<1> QED
  BY <1>2, <1>3, HeardIs, Zenon

\* Nothing is heard of a step within the transaction.
LEMMA HeardNothing ==
    ASSUME TransactionsOK, NEW e \in Events, NEW to \in PCs, Goto(e, to),
           HeardAt(to) = HeardAt(pc[e])
    PROVE  Heard' = Heard
BY HeardStep, HeardIs

\* What is committed of an event changes in its commit only.
LEMMA OutcomeStays ==
    ASSUME IngestTypeOK, Placed, [Next]_vars, events' = events
    PROVE  Outcome' = Outcome
BY StoredIsFinal, Zenon DEF Outcome, RowOf

\* A step that ends the call of e without storing anything is an answer.
LEMMA EndsWithAnswer ==
    ASSUME StoredInv, [Next]_vars, NEW e \in Events, pc[e] \in InTransaction,
           Goto(e, "failed"), UNCHANGED <<key, events, deliveries>>
    PROVE  Promise!Answer(e)
<1>0. IngestTypeOK /\ Placed /\ TransactionsOK /\ pc[e] # "idle"
  BY Zenon DEF StoredInv, IngestTypeOK
<1>1. Outcome' = Outcome /\ Outcome[e] = "none"
  BY <1>0, OutcomeStays, Zenon DEF Outcome, Placed, PlacedAt
<1>2. Heard' = [Heard EXCEPT ![e] = "500"]
  BY <1>0, HeardStep, Zenon DEF HeardAt, PCs
<1>3. Heard[e] = "waiting"
  BY <1>0, HeardIs, Zenon DEF HeardAt
<1> QED
  BY <1>1, <1>2, <1>3, Zenon DEF Promise!Answer

\* The commit of e stores the event, its reason and its deliveries at once.
LEMMA CommitStores ==
    ASSUME DedupInv, [Next]_vars, NEW e \in Events, Commit(e)
    PROVE  Promise!Store(e)
<1>0. /\ IngestTypeOK /\ Placed /\ TransactionsOK /\ PlacedAt(e)
      /\ dropped_reason[e] \in Reasons /\ inserted[e] \in SUBSET Destinations
  BY Zenon DEF DedupInv, StoredInv, IngestTypeOK, TransactionsOK, Placed
<1>1. /\ pc[e] \in {"insert", "commit"} /\ e \notin events
      /\ key' = key /\ dropped_reason' = dropped_reason
      /\ events' = events \cup {e}
      /\ deliveries' = deliveries \cup ({e} \X inserted[e])
  BY <1>0, Zenon DEF Commit, Publish, PlacedAt
<1>2. Heard[e] = "waiting" /\ Outcome[e] = "none"
  <2>1. HeardAt(pc[e]) = "waiting"
    BY <1>1, Zenon DEF HeardAt
  <2> QED
    BY <1>1, <2>1, HeardIs, Zenon DEF Outcome
<1>3. Outcome' = [Outcome EXCEPT ![e] = dropped_reason[e]]
  BY <1>1, Zenon DEF Outcome
<1>4. Heard' \in {Heard, [Heard EXCEPT ![e] = "500"]}
  <2>1. Goto(e, "committed") \/ Goto(e, "failed")
    BY Zenon DEF Commit
  <2>2. HeardAt("committed") = "waiting" /\ HeardAt("failed") = "500"
    BY Zenon DEF HeardAt
  <2>3. Heard = [Heard EXCEPT ![e] = "waiting"]
    BY <1>2, HeardIs, Zenon
  <2>4. {"committed", "failed"} \subseteq PCs
    BY Zenon DEF PCs
  <2> QED
    BY <1>0, <2>1, <2>2, <2>3, <2>4, HeardStep
<1>5. CASE dropped_reason[e] = "null"
  <2>1. Outcome' = [Outcome EXCEPT ![e] = "null"]
    BY <1>3, <1>5, Zenon
  <2> QED
    BY <1>0, <1>1, <1>2, <1>4, <2>1, Zenon DEF Promise!Store
<1>6. ASSUME dropped_reason[e] # "null"
      PROVE  deliveries' = deliveries
  <2>1. inserted[e] = {}
    BY <1>0, <1>1, <1>6, Zenon DEF PlacedAt
  <2> QED
    BY <1>1, <2>1, Zenon
<1>7. CASE dropped_reason[e] = "rule"
  BY <1>1, <1>2, <1>3, <1>4, <1>6, <1>7 DEF Promise!Store
<1>8. CASE dropped_reason[e] = "duplicate"
  <2>1. PICK o \in Events : Original(o, e)
    BY <1>8, Zenon DEF DedupInv, DuplicateExplained
  <2>2. Outcome[o] \in {"null", "rule"}
    BY <1>0, <2>1, Zenon DEF Outcome, Original, TransactionsOK, Reasons
  <2>3. o \in Promise!Originals(key[e])
    BY <2>1, <2>2, Zenon DEF Original, Promise!Originals
  <2>4. key[e] # NoKey
    BY <1>8, Zenon DEF DedupInv, DuplicateExplained
  <2> QED
    BY <1>1, <1>2, <1>3, <1>4, <1>6, <1>8, <2>3, <2>4 DEF Promise!Store
<1> QED
  BY <1>0, <1>5, <1>7, <1>8, Zenon DEF Reasons

\* Every step of Ingest is a step of Inbox or leaves what it shows alone.
LEMMA InboxStep ==
    ASSUME DedupInv, [Next]_vars
    PROVE  Promise!Next \/ UNCHANGED Promise!inboxVars
<1> DEFINE Unseen == UNCHANGED Promise!inboxVars
<1>0. /\ StoredInv /\ IngestTypeOK /\ Placed /\ TransactionsOK
  BY Zenon DEF DedupInv, StoredInv, IngestTypeOK
<1>1. ASSUME UNCHANGED <<key, events, deliveries>>, Heard' = Heard
      PROVE  Unseen
  BY <1>0, <1>1, OutcomeStays, Zenon DEF Promise!inboxVars
<1>2. ASSUME UNCHANGED <<key, events, deliveries, pc>>
      PROVE  Unseen
  <2>1. Heard' = Heard
    BY <1>2, Zenon DEF Heard
  <2> QED
    BY <1>1, <1>2, <2>1, Zenon
<1>3. ASSUME NEW e \in Events, NEW k \in Keys \cup {NoKey}, Begin(e, k)
      PROVE  Promise!Receive(e, k)
  <2>1. PICK to \in {"rules", "claim"} : Goto(e, to)
    BY <1>3, Zenon DEF Begin
  <2>2. HeardAt(to) = "waiting" /\ HeardAt("idle") = "no call"
    BY <2>1, Zenon DEF HeardAt
  <2>3. Heard' = [Heard EXCEPT ![e] = "waiting"]
    BY <1>0, <2>1, <2>2, HeardStep, Zenon DEF PCs
  <2>4. Heard[e] = "no call"
    BY <1>3, <2>2, HeardIs, Zenon DEF Begin
  <2>5. Outcome' = Outcome /\ key' = [key EXCEPT ![e] = k]
        /\ deliveries' = deliveries
    BY <1>0, <1>3, OutcomeStays, Zenon DEF Begin, InsertEvent
  <2> QED
    BY <2>3, <2>4, <2>5, Zenon DEF Promise!Receive
<1>4. ASSUME NEW e \in Events,
             ClaimDedupeKey(e) \/ EvaluateRules(e) \/ ListTargets(e)
      PROVE  Unseen
  <2>1. UNCHANGED <<key, events, deliveries>>
    BY <1>4, Zenon DEF ClaimDedupeKey, EvaluateRules, ListTargets
  <2>2. /\ pc[e] \in InTransaction
        /\ \E to \in InTransaction : Goto(e, to)
    BY <1>4, Zenon DEF ClaimDedupeKey, EvaluateRules, ListTargets
  <2>3. \A p \in InTransaction : p \in PCs /\ HeardAt(p) = "waiting"
    BY Zenon DEF HeardAt, PCs
  <2>4. Heard' = Heard
    BY <1>0, <2>2, <2>3, HeardNothing, Zenon
  <2> QED
    BY <1>1, <2>1, <2>4, Zenon
<1>5. ASSUME NEW e \in Events, NEW x \in Destinations, InsertDelivery(e, x)
      PROVE  Promise!Answer(e) \/ Unseen
  <2>1. CASE x \in destinations
    BY <1>2, <1>5, <2>1, Zenon DEF InsertDelivery
  <2>2. CASE x \notin destinations
    BY <1>0, <1>5, <2>2, EndsWithAnswer, Zenon DEF InsertDelivery
  <2> QED
    BY <2>1, <2>2, Zenon
<1>6. ASSUME NEW e \in Events, Rollback(e)
      PROVE  Promise!Answer(e)
  BY <1>0, <1>6, EndsWithAnswer, Zenon DEF Rollback
<1>7. ASSUME NEW e \in Events, Ack(e)
      PROVE  Promise!Answer(e)
  <2>1. Outcome' = Outcome /\ key' = key /\ deliveries' = deliveries
    BY <1>0, <1>7, OutcomeStays, Zenon DEF Ack
  <2>2. Outcome[e] # "none"
    BY <1>0, <1>7, Zenon
    DEF Ack, Placed, PlacedAt, Outcome, TransactionsOK, Reasons
  <2>3. HeardAt("committed") = "waiting" /\ HeardAt("acked") = "200"
    BY Zenon DEF HeardAt
  <2>4. Heard[e] = "waiting" /\ Heard' = [Heard EXCEPT ![e] = "200"]
    BY <1>0, <1>7, <2>3, HeardIs, HeardStep DEF Ack, PCs
  <2> QED
    BY <2>1, <2>2, <2>4, Zenon DEF Promise!Answer
<1>8. ASSUME NEW x \in Destinations, DeleteDestination(x)
      PROVE  Promise!Forget(x)
  <2>1. Heard' = Heard
    BY <1>8, Zenon DEF DeleteDestination, Edit, Heard
  <2>2. Outcome' = Outcome
    BY <1>0, <1>8, OutcomeStays, Zenon DEF DeleteDestination, Edit
  <2> QED
    BY <1>8, <2>1, <2>2, Zenon DEF DeleteDestination, Edit, Promise!Forget
<1>9. ASSUME NEW k \in Keys, Cleanup(k)
      PROVE  Unseen
  BY <1>2, <1>9, Zenon DEF Cleanup
<1>10. ASSUME Edit, UNCHANGED deliveries
       PROVE  Unseen
  BY <1>2, <1>10, Zenon DEF Edit
<1>11. ASSUME Tick \/ UNCHANGED vars
       PROVE  Unseen
  BY <1>2, <1>11, Zenon DEF Tick, vars
<1> HIDE DEF Unseen
<1>12. ASSUME NEW x \in Destinations, NEW on \in BOOLEAN,
              \/ CreateRoute(x, on) \/ UpdateRoute(x, on) \/ DeleteRoute(x)
       PROVE  Unseen
  BY <1>10, <1>12, Zenon DEF CreateRoute, UpdateRoute, DeleteRoute
<1>13. ASSUME NEW rs \in RuleSets,
              CreateRule(rs) \/ UpdateRule(rs) \/ DeleteRule(rs)
       PROVE  Unseen
  BY <1>10, <1>13, Zenon DEF CreateRule, UpdateRule, DeleteRule
<1>14. ASSUME NEW e \in Events, Commit(e)
       PROVE  Promise!Store(e)
  BY <1>14, CommitStores, Zenon
<1>15. Promise!Next \/ Unseen
  BY <1>3, <1>4, <1>5, <1>6, <1>7, <1>8, <1>9, <1>11, <1>12, <1>13, <1>14, Zenon
  DEF Next, Step, Promise!Next
<1> QED
  BY <1>15, Zenon DEF Unseen

\* Whatever overlaps, waits, fails or is edited meanwhile, ProcessEvent looks
\* to the provider like the single steps of Inbox.
THEOREM InboxImplemented == Spec => ImplementsInbox
<1>1. Init => Promise!Init
  BY DEF Init, Promise!Init, Outcome, Heard
<1>2. DedupInv /\ [Next]_vars => [Promise!Next]_(Promise!inboxVars)
  BY InboxStep, Zenon
<1> QED
  BY <1>1, <1>2, DedupInductive, PTL DEF Spec, ImplementsInbox, Promise!Spec
=============================================================================
