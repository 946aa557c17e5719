---------------------------- MODULE ReplayProofs ----------------------------
(***************************************************************************)
(* Proofs about bulk replays, for any number of replays, events,           *)
(* destinations and faults: each event is fanned out once, and the counts  *)
(* that a closed row shows are what was created.                           *)
(***************************************************************************)
EXTENDS Replay, FiniteSetTheorems, WellFoundedInduction, TLAPS

\* The next event of a replay is one of those still to do.
LEMMA NextEvent ==
    ASSUME NEW S \in SUBSET Nat, S # {}
    PROVE  Min(S) \in S
<1> DEFINE R == {ss \in Nat \X Nat : ss[1] < ss[2]}
<1>1. IsWellFoundedOn(R, Nat)
  BY NatLessThanWellFounded, Zenon DEF OpToRel
<1>2. PICK x \in S : \A y \in S : ~ (<<y, x>> \in R)
  <2> HIDE DEF R
  <2> QED
    BY <1>1, WFMin, Zenon
<1>3. \A y \in S : x <= y
  <2> TAKE y \in S
  <2>1. x \in Nat /\ y \in Nat
    BY Zenon
  <2>2. ~ (<<y, x>> \in R)
    BY <1>2, Zenon
  <2>3. y < x => <<y, x>> \in R
    BY <2>1, Zenon
  <2> QED
    BY <2>1, <2>2, <2>3
<1> QED
  BY <1>3, Zenon DEF Min
-----------------------------------------------------------------------------
(* The inductive invariant *)

PCs == Working \cup {"idle"}
JobStates == {"none", "queued", "running", "completed", "discarded"}
RowStates == {"none", "running", "completed", "failed"}
Paths == Replays \cup {"ingest", "api"}

Rows == [by: Paths, n: Nat, event: Nat, to: Destinations, status: Statuses]

\* Every variable that the invariant speaks of has its type.
ReplayTypeOK ==
    /\ enabled \subseteq Destinations
    /\ deliveries \subseteq Rows
    /\ events \in Nat
    /\ singles \in Nat
    /\ status \in [Replays -> RowStates]
    /\ filter \in [Replays -> Filters]
    /\ matched_count \in [Replays -> Nat]
    /\ requeued_count \in [Replays -> Nat]
    /\ job \in [Replays -> JobStates]
    /\ attempt \in [Replays -> Nat]
    /\ pc \in [Replays -> PCs]
    /\ todo \in [Replays -> SUBSET (1..MaxEvents)]
    /\ selected \in [Replays -> SUBSET (1..MaxEvents)]
    /\ requeued \in [Replays -> Nat]
    /\ created \in [Replays -> Nat]
    /\ unheard \in [Replays -> Nat]

\* A job is worked once (MaxAttempts is 1): it has not been fetched before the
\* row is written and while it is queued, and a Work call runs only of a job that
\* River has as running, of a replay whose row is open.
JobInv(r) ==
    /\ job[r] = "none" <=> status[r] = "none"
    /\ job[r] \in {"queued", "running"} => status[r] = "running"
    /\ job[r] \in {"none", "queued"} <=> attempt[r] = 0
    /\ pc[r] # "idle" => job[r] = "running"

\* Nothing was created by r; and of what it still has to do, nothing was.
NoneMade(r) == \A d \in deliveries : d.by # r
TodoUnmade(r) == \A d \in deliveries : d.by = r => d.event \notin todo[r]

\* The worker has counted what it created, but for the commit it did not hear of.
WorkInv(r) ==
    /\ job[r] \in {"none", "queued"} \/ pc[r] \in {"load", "select"} =>
          created[r] = 0 /\ unheard[r] = 0 /\ NoneMade(r)
    /\ pc[r] \in {"load", "select"} => requeued[r] = 0
    /\ pc[r] = "replay" =>
          requeued[r] = created[r] /\ unheard[r] = 0 /\ TodoUnmade(r)
    /\ pc[r] = "fail" => requeued[r] + unheard[r] = created[r]

\* CountsExact, of one replay.
CountInv(r) ==
    /\ status[r] = "completed" =>
          /\ matched_count[r] = Cardinality(selected[r])
          /\ requeued_count[r] = created[r]
          /\ todo[r] = {}
    /\ status[r] = "failed" =>
          requeued_count[r] + unheard[r] = created[r]

MadeOnce ==
    \A c, d \in deliveries :
        c.by \in Replays /\ c.by = d.by /\ c.event = d.event /\ c.to = d.to
            => c = d

ReplayInv ==
    /\ ReplayTypeOK
    /\ MadeOnce
    /\ \A r \in Replays : JobInv(r) /\ WorkInv(r) /\ CountInv(r)
-----------------------------------------------------------------------------
(* Types *)

\* What EnqueueDeliveries inserts is rows of the given path and event, and their
\* number is counted.
LEMMA FanOutType ==
    ASSUME ReplayTypeOK, NEW path \in Paths, NEW e \in Nat, NEW n \in Nat
    PROVE  /\ FanOut(path, e, n) \subseteq Rows
           /\ \A d \in FanOut(path, e, n) : d.by = path /\ d.event = e
           /\ \A c, d \in FanOut(path, e, n) : c.to = d.to => c = d
           /\ Cardinality(enabled) \in Nat
<1>1. FanOut(path, e, n) \subseteq Rows
  BY DEF FanOut, Rows, ReplayTypeOK, Statuses
<1>2. \A d \in FanOut(path, e, n) : d.by = path /\ d.event = e
  BY DEF FanOut
<1>3. \A c, d \in FanOut(path, e, n) : c.to = d.to => c = d
  BY DEF FanOut
<1>4. Cardinality(enabled) \in Nat
  BY FS_Subset, FS_CardinalityType, ReplayAssumption, Zenon DEF ReplayTypeOK
<1> QED
  BY <1>1, <1>2, <1>3, <1>4, Zenon

\* A worked delivery stays a row, of the same path, event and destination.
LEMMA SettledRow ==
    ASSUME NEW d \in Rows, NEW o \in Outcomes
    PROVE  /\ [d EXCEPT !.status = o] \in Rows
           /\ [d EXCEPT !.status = o].by = d.by
           /\ [d EXCEPT !.status = o].event = d.event
           /\ [d EXCEPT !.status = o].to = d.to
BY Zenon DEF Rows, Statuses

\* A filter selects stored events.
LEMMA MatchesType ==
    ASSUME NEW f \in Filters
    PROVE  Matches(f) \in SUBSET (1..MaxEvents)
BY ReplayAssumption, Zenon DEF Matches

\* The matched events of a replay can be counted.
LEMMA SelectedCount ==
    ASSUME ReplayTypeOK, NEW r \in Replays
    PROVE  Cardinality(selected[r]) \in Nat
<1>1. selected[r] \subseteq 1..MaxEvents /\ MaxEvents \in Nat
  BY ReplayAssumption, Zenon DEF ReplayTypeOK
<1>2. IsFiniteSet(1..MaxEvents)
  BY <1>1, FS_Interval
<1>3. IsFiniteSet(selected[r])
  BY <1>1, <1>2, FS_Subset, Zenon
<1> QED
  BY <1>3, FS_CardinalityType, Zenon

\* The next event is a number of todo.
LEMMA TodoType ==
    ASSUME ReplayTypeOK, NEW r \in Replays, todo[r] # {}
    PROVE  Min(todo[r]) \in todo[r] /\ Min(todo[r]) \in Nat
<1>1. todo[r] \in SUBSET (1..MaxEvents)
  BY Zenon DEF ReplayTypeOK
<1>2. MaxEvents \in Nat
  BY ReplayAssumption, Zenon
<1>3. todo[r] \in SUBSET Nat
  BY <1>1, <1>2
<1> QED
  BY <1>3, NextEvent, Zenon

\* Every action preserves the types.
LEMMA ReplayTypeStep == ReplayTypeOK /\ [Next]_vars => ReplayTypeOK'
<1> SUFFICES ASSUME ReplayTypeOK, [Next]_vars
             PROVE  ReplayTypeOK'
  BY Zenon
<1> USE DEF tableVars, rowVars, runVars, countVars, historyVars
<1>1. CASE Ingest
  <2>1. events' \in Nat /\ "ingest" \in Paths
    BY <1>1 DEF Ingest, ReplayTypeOK, Paths
  <2>2. FanOut("ingest", events', 0) \subseteq Rows
    BY <2>1, FanOutType, Zenon
  <2> QED
    BY <1>1, <2>1, <2>2, Zenon DEF Ingest, ReplayTypeOK
<1>2. ASSUME NEW d \in deliveries, NEW o \in Outcomes, Settle(d, o)
      PROVE  ReplayTypeOK'
  <2>1. d \in Rows
    BY Zenon DEF ReplayTypeOK
  <2>2. [d EXCEPT !.status = o] \in Rows
    BY <2>1, SettledRow, Zenon
  <2>3. deliveries' \subseteq Rows
    BY <1>2, <2>2, Zenon DEF Settle, ReplayTypeOK
  <2> QED
    BY <1>2, <2>3, Zenon DEF Settle, ReplayTypeOK
<1>3. ASSUME NEW x \in Destinations, SwitchRoute(x) \/ DeleteDestination(x)
      PROVE  ReplayTypeOK'
  BY <1>3, Zenon DEF SwitchRoute, DeleteDestination, Edit, ReplayTypeOK
<1>4. ASSUME NEW e \in 1..MaxEvents, ReplayEvent(e)
      PROVE  ReplayTypeOK'
  <2>1. e \in Nat /\ singles \in Nat
    BY ReplayAssumption DEF ReplayTypeOK
  <2>2. FanOut("api", e, singles) \subseteq Rows
    BY <2>1, FanOutType, Zenon DEF Paths
  <2> QED
    BY <1>4, <2>1, <2>2 DEF ReplayEvent, ReplayTypeOK
<1>5. ASSUME NEW r \in Replays, BulkReplay(r)
      PROVE  ReplayTypeOK'
  BY <1>5, Zenon DEF BulkReplay, InsertReplay, ReplayTypeOK, JobStates, RowStates
<1>6. ASSUME NEW r \in Replays, Fetch(r)
      PROVE  ReplayTypeOK'
  BY <1>6 DEF Fetch, ReplayTypeOK, JobStates, PCs, Working
<1>7. ASSUME NEW r \in Replays, Load(r)
      PROVE  ReplayTypeOK'
  BY <1>7, Zenon
  DEF Load, Return, AfterError, ReplayTypeOK, JobStates, PCs, Working
<1>8. ASSUME NEW r \in Replays, Select(r)
      PROVE  ReplayTypeOK'
  <2>1. Matches(filter[r]) \in SUBSET (1..MaxEvents)
    BY MatchesType, Zenon DEF ReplayTypeOK
  <2>2. /\ todo' \in [Replays -> SUBSET (1..MaxEvents)]
        /\ selected' \in [Replays -> SUBSET (1..MaxEvents)]
    <3>1. PICK S \in SUBSET (1..MaxEvents) :
              /\ todo' = [todo EXCEPT ![r] = S]
              /\ selected' = [selected EXCEPT ![r] = S]
      BY <1>8, <2>1, Zenon DEF Select
    <3> QED
      BY <3>1, Zenon DEF ReplayTypeOK
  <2>3. pc' \in [Replays -> PCs]
    BY <1>8, Zenon DEF Select, ReplayTypeOK, PCs, Working
  <2> QED
    BY <1>8, <2>2, <2>3, Zenon DEF Select, ReplayTypeOK
<1>9. ASSUME NEW r \in Replays, ReplayOne(r)
      PROVE  ReplayTypeOK'
  <2>1. Min(todo[r]) \in Nat
    BY <1>9, TodoType, Zenon DEF ReplayOne
  <2>2. created[r] \in Nat /\ r \in Paths
    BY Zenon DEF ReplayTypeOK, Paths
  <2>3. /\ FanOut(r, Min(todo[r]), created[r]) \subseteq Rows
        /\ Cardinality(enabled) \in Nat
    BY <2>1, <2>2, FanOutType, Zenon
  <2>4. deliveries' \subseteq Rows
    <3>1. \/ deliveries' = deliveries
          \/ deliveries' = deliveries \cup FanOut(r, Min(todo[r]), created[r])
      BY <1>9, Zenon DEF ReplayOne
    <3> QED
      BY <2>3, <3>1, Zenon DEF ReplayTypeOK
  <2>5. PICK n \in Nat : n = Cardinality(enabled)
    BY <2>3, Zenon
  <2>6. /\ created' \in [Replays -> Nat]
        /\ requeued' \in [Replays -> Nat]
        /\ unheard' \in [Replays -> Nat]
    <3>1. /\ created' = [created EXCEPT ![r] = @ + n] \/ created' = created
          /\ requeued' = [requeued EXCEPT ![r] = @ + n] \/ requeued' = requeued
          /\ unheard' = [unheard EXCEPT ![r] = @ + n] \/ unheard' = unheard
      BY <1>9, <2>5, Zenon DEF ReplayOne, Count
    <3> QED
      BY <3>1 DEF ReplayTypeOK
  <2>7. todo' \in [Replays -> SUBSET (1..MaxEvents)] /\ pc' \in [Replays -> PCs]
    BY <1>9 DEF ReplayOne, ReplayTypeOK, PCs, Working
  <2>8. UNCHANGED <<tableVars, rowVars, job, attempt, selected, countVars>>
    BY <1>9, Zenon DEF ReplayOne
  <2> QED
    BY <2>4, <2>6, <2>7, <2>8, Zenon DEF ReplayTypeOK
<1>10. ASSUME NEW r \in Replays, NEW outcome \in {"completed", "failed"},
              FinishReplay(r, outcome) \/ UNCHANGED rowVars
       PROVE  /\ status' \in [Replays -> RowStates]
              /\ filter' \in [Replays -> Filters]
              /\ matched_count' \in [Replays -> Nat]
              /\ requeued_count' \in [Replays -> Nat]
  <2>1. Cardinality(selected[r]) \in Nat
    BY SelectedCount, Zenon
  <2>2. CASE FinishReplay(r, outcome)
    BY <2>1, <2>2, Zenon DEF FinishReplay, ReplayTypeOK, RowStates
  <2>3. CASE UNCHANGED rowVars
    BY <2>3, Zenon DEF ReplayTypeOK
  <2> QED
    BY <1>10, <2>2, <2>3, Zenon
<1>11. ASSUME NEW r \in Replays, Finish(r) \/ Fail(r)
       PROVE  ReplayTypeOK'
  <2>1. \E o \in {"completed", "failed"} :
            FinishReplay(r, o) \/ UNCHANGED rowVars
    BY <1>11, Zenon DEF Finish, Fail
  <2>2. job' \in [Replays -> JobStates] /\ pc' \in [Replays -> PCs]
    BY <1>11, Zenon
    DEF Finish, Fail, Return, AfterError, ReplayTypeOK, JobStates, PCs
  <2> QED
    BY <1>10, <1>11, <2>1, <2>2, Zenon DEF Finish, Fail, ReplayTypeOK
<1>12. ASSUME NEW r \in Replays, Rescue(r) \/ Expire(r) \/ Crash(r)
       PROVE  ReplayTypeOK'
  BY <1>12, Zenon
  DEF Rescue, Expire, Crash, AfterError, ReplayTypeOK, JobStates, PCs
<1>13. CASE UNCHANGED vars
  BY <1>13, Zenon DEF vars, ReplayTypeOK
<1> QED
  BY <1>1, <1>2, <1>3, <1>4, <1>5, <1>6, <1>7, <1>8, <1>9, <1>11, <1>12, <1>13
  DEF Next, JobStep
-----------------------------------------------------------------------------
(* What a step does to the replays it is not a step of *)

\* The row, the job and the Work call of q are left alone.
Kept(q) ==
    /\ status'[q] = status[q] /\ job'[q] = job[q] /\ attempt'[q] = attempt[q]
    /\ pc'[q] = pc[q] /\ todo'[q] = todo[q] /\ selected'[q] = selected[q]
    /\ matched_count'[q] = matched_count[q]
    /\ requeued_count'[q] = requeued_count[q]
    /\ requeued'[q] = requeued[q] /\ created'[q] = created[q]
    /\ unheard'[q] = unheard[q]

\* No delivery of q is of an event that q had not fanned out.
NothingNew(q) ==
    \A d \in deliveries' : d.by = q =>
        \E c \in deliveries : c.by = q /\ c.event = d.event

RunInv(q) == JobInv(q) /\ WorkInv(q) /\ CountInv(q)

\* Such a step preserves what the invariant says of q.
LEMMA RunFrame ==
    ASSUME NEW q \in Replays, RunInv(q), Kept(q), NothingNew(q)
    PROVE  RunInv(q)'
<1>1. JobInv(q)' /\ CountInv(q)'
  BY Zenon DEF RunInv, Kept, JobInv, CountInv
<1>2. NoneMade(q) => NoneMade(q)'
  BY Zenon DEF NothingNew, NoneMade
<1>3. TodoUnmade(q) => TodoUnmade(q)'
  BY Zenon DEF NothingNew, TodoUnmade, Kept
<1>4. WorkInv(q)'
  BY <1>2, <1>3, Zenon DEF RunInv, Kept, WorkInv
<1> QED
  BY <1>1, <1>4, Zenon DEF RunInv

\* The rest of the gateway and the single replays touch no bulk replay: what
\* they insert is of another path, what a worker settles stays of its path, event
\* and destination, and deletions only take away.
LEMMA OthersStep ==
    ASSUME ReplayTypeOK, MadeOnce,
           \/ Ingest
           \/ \E d \in deliveries, o \in Outcomes : Settle(d, o)
           \/ \E x \in Destinations : SwitchRoute(x) \/ DeleteDestination(x)
           \/ \E e \in 1..MaxEvents : ReplayEvent(e)
    PROVE  /\ MadeOnce'
           /\ \A q \in Replays : Kept(q) /\ NothingNew(q)
<1> USE DEF tableVars, rowVars, runVars, countVars, historyVars
<1>1. \A q \in Replays : Kept(q)
  BY DEF Ingest, Settle, SwitchRoute, DeleteDestination, Edit, ReplayEvent, Kept
<1>2. ASSUME NEW path \in {"ingest", "api"}, NEW e \in Nat, NEW n \in Nat,
             deliveries' = deliveries \cup FanOut(path, e, n)
      PROVE  MadeOnce' /\ \A q \in Replays : NothingNew(q)
  <2>1. path \in Paths /\ path \notin Replays
    BY ReplayAssumption, Zenon DEF Paths
  <2>2. \A d \in FanOut(path, e, n) : d.by \notin Replays
    BY <2>1, FanOutType
  <2>3. \A d \in deliveries' : d.by \in Replays => d \in deliveries
    BY <1>2, <2>2, Zenon
  <2> QED
    BY <2>3, Zenon DEF MadeOnce, NothingNew
<1>3. ASSUME deliveries' \subseteq deliveries
      PROVE  MadeOnce' /\ \A q \in Replays : NothingNew(q)
  BY <1>3, Zenon DEF MadeOnce, NothingNew
<1>4. CASE Ingest
  <2>1. events' \in Nat /\ deliveries' = deliveries \cup FanOut("ingest", events', 0)
    BY <1>4 DEF Ingest, ReplayTypeOK
  <2> QED
    BY <1>1, <1>2, <2>1, Zenon
<1>5. ASSUME NEW d \in deliveries, NEW o \in Outcomes, Settle(d, o)
      PROVE  MadeOnce' /\ \A q \in Replays : NothingNew(q)
  <2>1. d \in Rows
    BY Zenon DEF ReplayTypeOK
  <2>2. PICK s \in Rows : s = [d EXCEPT !.status = o]
    BY <2>1, SettledRow, Zenon
  <2>3. s.by = d.by /\ s.event = d.event /\ s.to = d.to
    BY <2>1, <2>2, SettledRow, Zenon
  <2>4. deliveries' = (deliveries \ {d}) \cup {s}
    BY <1>5, <2>2, Zenon DEF Settle
  <2> QED
    BY <2>3, <2>4 DEF MadeOnce, NothingNew
<1>6. ASSUME NEW e \in 1..MaxEvents, ReplayEvent(e)
      PROVE  MadeOnce' /\ \A q \in Replays : NothingNew(q)
  <2>1. e \in Nat /\ singles \in Nat
    BY ReplayAssumption DEF ReplayTypeOK
  <2>2. deliveries' = deliveries \cup FanOut("api", e, singles)
    BY <1>6, Zenon DEF ReplayEvent
  <2> QED
    BY <1>2, <2>1, <2>2, Zenon
<1>7. ASSUME NEW x \in Destinations, SwitchRoute(x) \/ DeleteDestination(x)
      PROVE  deliveries' \subseteq deliveries
  BY <1>7, Zenon DEF SwitchRoute, DeleteDestination
<1> QED
  BY <1>1, <1>3, <1>4, <1>5, <1>6, <1>7, Zenon
-----------------------------------------------------------------------------
(* What a step does to the replay it is a step of *)

\* A step of r leaves the other replays alone.
LEMMA OtherReplays ==
    ASSUME ReplayTypeOK, NEW r \in Replays, NEW q \in Replays, q # r,
           BulkReplay(r) \/ JobStep(r) \/ Expire(r) \/ Crash(r)
    PROVE  Kept(q) /\ NothingNew(q)
<1> USE DEF tableVars, rowVars, runVars, countVars, historyVars
<1>1. CASE BulkReplay(r)
  BY <1>1, Zenon DEF BulkReplay, InsertReplay, Kept, NothingNew, ReplayTypeOK
<1>2. CASE Fetch(r)
  BY <1>2, Zenon DEF Fetch, Kept, NothingNew, ReplayTypeOK
<1>3. CASE Load(r)
  BY <1>3, Zenon DEF Load, Return, Kept, NothingNew, ReplayTypeOK
<1>4. CASE Select(r)
  <2>1. PICK S, to : /\ todo' = [todo EXCEPT ![r] = S]
                     /\ selected' = [selected EXCEPT ![r] = S]
                     /\ pc' = [pc EXCEPT ![r] = to]
    BY <1>4, Zenon DEF Select
  <2>2. UNCHANGED <<deliveries, rowVars, job, attempt, requeued, created, unheard>>
    BY <1>4, Zenon DEF Select
  <2> QED
    BY <2>1, <2>2, Zenon DEF Kept, NothingNew, ReplayTypeOK
<1>5. CASE ReplayOne(r)
  <2>1. Min(todo[r]) \in Nat
    BY <1>5, TodoType, Zenon DEF ReplayOne
  <2>2. created[r] \in Nat /\ r \in Paths
    BY Zenon DEF ReplayTypeOK, Paths
  <2>3. \A d \in FanOut(r, Min(todo[r]), created[r]) : d.by = r
    BY <2>1, <2>2, FanOutType
  <2>4. \/ deliveries' = deliveries
        \/ deliveries' = deliveries \cup FanOut(r, Min(todo[r]), created[r])
    BY <1>5, Zenon DEF ReplayOne
  <2>5. NothingNew(q)
    BY <2>3, <2>4, Zenon DEF NothingNew
  <2>6. PICK n : n = Cardinality(enabled)
    BY Zenon
  <2>7. /\ created' = [created EXCEPT ![r] = @ + n] \/ created' = created
        /\ requeued' = [requeued EXCEPT ![r] = @ + n] \/ requeued' = requeued
        /\ unheard' = [unheard EXCEPT ![r] = @ + n] \/ unheard' = unheard
    BY <1>5, <2>6, Zenon DEF ReplayOne, Count
  <2>8. /\ pc' = [pc EXCEPT ![r] = "fail"] \/ pc' = pc
        /\ \/ todo' = [todo EXCEPT ![r] = @ \ {Min(todo[r])}]
           \/ todo' = todo
        /\ UNCHANGED <<rowVars, job, attempt, selected>>
    BY <1>5, Zenon DEF ReplayOne
  <2> QED
    BY <2>5, <2>7, <2>8, Zenon DEF Kept, ReplayTypeOK
<1>6. CASE Finish(r) \/ Fail(r)
  <2>1. UNCHANGED <<deliveries, attempt, todo, selected, requeued, created, unheard>>
    BY <1>6, Zenon DEF Finish, Fail
  <2>2. (\E o : FinishReplay(r, o)) \/ UNCHANGED rowVars
    BY <1>6, Zenon DEF Finish, Fail
  <2>3. \E verdict : Return(r, verdict)
    BY <1>6, Zenon DEF Finish, Fail
  <2> QED
    BY <2>1, <2>2, <2>3 DEF FinishReplay, Return, Kept, NothingNew, ReplayTypeOK
<1>7. CASE Rescue(r) \/ Expire(r) \/ Crash(r)
  BY <1>7, Zenon DEF Rescue, Expire, Crash, Kept, NothingNew, ReplayTypeOK
<1> QED
  BY <1>1, <1>2, <1>3, <1>4, <1>5, <1>6, <1>7, Zenon DEF JobStep

\* replayOne creates deliveries of an event of which r had none.
LEMMA MadeOnceStep ==
    ASSUME ReplayTypeOK, MadeOnce, NEW r \in Replays, RunInv(r), ReplayOne(r)
    PROVE  MadeOnce'
<1>1. PICK e \in Nat : e = Min(todo[r]) /\ e \in todo[r]
  BY TodoType, Zenon DEF ReplayOne
<1>2. PICK new : new = FanOut(r, e, created[r])
  BY Zenon
<1>3. \/ deliveries' = deliveries
      \/ deliveries' = deliveries \cup new
  BY <1>1, <1>2, Zenon DEF ReplayOne
<1>4. /\ \A d \in new : d.by = r /\ d.event = e
      /\ \A c, d \in new : c.to = d.to => c = d
  <2>1. created[r] \in Nat /\ r \in Paths
    BY Zenon DEF ReplayTypeOK, Paths
  <2> QED
    BY <1>2, <2>1, FanOutType, Zenon
<1>5. \A d \in deliveries : d.by = r => d.event # e
  BY <1>1, Zenon DEF RunInv, WorkInv, TodoUnmade, ReplayOne
<1> QED
  BY <1>3, <1>4, <1>5 DEF MadeOnce

\* After an error the job is discarded: it was the only attempt.
LEMMA NoRetry ==
    ASSUME ReplayTypeOK, NEW r \in Replays, JobInv(r), job[r] = "running"
    PROVE  AfterError(r) = "discarded" /\ attempt[r] # 0 /\ status[r] = "running"
<1>1. attempt[r] \in Nat /\ attempt[r] # 0 /\ status[r] = "running"
  BY Zenon DEF JobInv, ReplayTypeOK
<1>2. ~(attempt[r] < ReplayMaxAttempts)
  BY <1>1 DEF ReplayMaxAttempts
<1> QED
  BY <1>1, <1>2, Zenon DEF AfterError

\* Work returns: the job is over, and only the row's counts remain to be seen.
LEMMA ReturnStep ==
    ASSUME ReplayTypeOK, NEW r \in Replays, JobInv(r), job[r] = "running",
           NEW verdict, Return(r, verdict),
           status'[r] \in {"running", "completed", "failed"},
           attempt' = attempt
    PROVE  JobInv(r)' /\ WorkInv(r)'
<1>1. job'[r] \in {"completed", "discarded"} /\ pc'[r] = "idle"
  BY NoRetry, Zenon DEF Return, ReplayTypeOK
<1>2. attempt'[r] # 0
  BY NoRetry, Zenon
<1> QED
  BY <1>1, <1>2, Zenon DEF JobInv, WorkInv

\* FinishReplay writes the worker's counts into the row.
LEMMA FinishCounts ==
    ASSUME ReplayTypeOK, NEW r \in Replays, NEW o \in {"completed", "failed"},
           FinishReplay(r, o), UNCHANGED <<selected, requeued>>
    PROVE  /\ status'[r] = o
           /\ matched_count'[r] = Cardinality(selected'[r])
           /\ requeued_count'[r] = requeued[r]
BY Zenon DEF FinishReplay, ReplayTypeOK

\* A step of r preserves what the invariant says of r.
LEMMA OwnReplay ==
    ASSUME ReplayTypeOK, NEW r \in Replays, RunInv(r),
           BulkReplay(r) \/ JobStep(r) \/ Expire(r) \/ Crash(r)
    PROVE  RunInv(r)'
<1> USE DEF tableVars, rowVars, runVars, countVars, historyVars
<1>0. JobInv(r) /\ WorkInv(r) /\ CountInv(r)
  BY Zenon DEF RunInv
<1>1. CASE BulkReplay(r)
  <2>1. /\ status[r] = "none" /\ status'[r] = "running" /\ job'[r] = "queued"
        /\ UNCHANGED <<attempt, pc, created, unheard, requeued, deliveries>>
    BY <1>1, Zenon DEF BulkReplay, InsertReplay, ReplayTypeOK
  <2> QED
    BY <1>0, <2>1, Zenon DEF RunInv, JobInv, WorkInv, CountInv, NoneMade
<1>2. CASE Fetch(r)
  <2>1. /\ job[r] = "queued" /\ job'[r] = "running" /\ pc'[r] = "load"
        /\ attempt'[r] = attempt[r] + 1 /\ requeued'[r] = 0
        /\ UNCHANGED <<status, created, unheard, deliveries>>
    BY <1>2, Zenon DEF Fetch, ReplayTypeOK
  <2>2. status[r] = "running" /\ attempt[r] = 0
    BY <1>0, <2>1, Zenon DEF JobInv
  <2>3. attempt'[r] # 0
    <3>1. attempt'[r] = 0 + 1
      BY <2>1, <2>2, Zenon
    <3> QED
      BY <3>1
  <2> QED
    BY <1>0, <2>1, <2>2, <2>3, Zenon
    DEF RunInv, JobInv, WorkInv, CountInv, NoneMade
<1>3. ASSUME pc[r] # "idle"
      PROVE  job[r] = "running" /\ status[r] = "running" /\ attempt[r] # 0
  BY <1>0, <1>3, Zenon DEF JobInv
<1>4. CASE Load(r)
  <2>1. pc[r] = "load" /\ job[r] = "running" /\ status' = status /\ attempt' = attempt
    BY <1>3, <1>4, Zenon DEF Load
  <2>2. CASE pc' = [pc EXCEPT ![r] = "select"] /\ job' = job
    <3>1. pc'[r] = "select" /\ job' = job
      BY <2>2, Zenon DEF ReplayTypeOK
    <3>2. UNCHANGED <<status, attempt, requeued, created, unheard, deliveries>>
      BY <1>4, Zenon DEF Load
    <3> QED
      BY <1>0, <1>3, <2>1, <3>1, <3>2, Zenon
      DEF RunInv, JobInv, WorkInv, CountInv, NoneMade
  <2>3. CASE Return(r, "error")
    BY <1>0, <1>3, <2>1, <2>3, ReturnStep, Zenon DEF RunInv, CountInv
  <2> QED
    BY <1>4, <2>2, <2>3, Zenon DEF Load
<1>5. CASE Select(r)
  <2>1. /\ pc[r] = "select" /\ pc'[r] \in {"replay", "fail"}
        /\ UNCHANGED <<status, job, attempt, requeued, created, unheard, deliveries>>
    BY <1>5, Zenon DEF Select, ReplayTypeOK
  <2>2. /\ created[r] = 0 /\ unheard[r] = 0 /\ requeued[r] = 0 /\ NoneMade(r)
        /\ job[r] = "running" /\ status[r] = "running"
    BY <1>0, <1>3, <2>1, Zenon DEF WorkInv
  <2>3. TodoUnmade(r)'
    BY <2>1, <2>2, Zenon DEF NoneMade, TodoUnmade
  <2>4. requeued'[r] + unheard'[r] = created'[r]
    BY <2>1, <2>2
  <2>5. WorkInv(r)'
    BY <2>1, <2>2, <2>3, <2>4, Zenon DEF WorkInv
  <2>6. JobInv(r)' /\ CountInv(r)'
    BY <1>0, <2>1, <2>2, Zenon DEF JobInv, CountInv
  <2> QED
    BY <2>5, <2>6, Zenon DEF RunInv
<1>6. CASE ReplayOne(r)
  <2>1. /\ pc[r] = "replay" /\ requeued[r] = created[r] /\ unheard[r] = 0
        /\ TodoUnmade(r) /\ job[r] = "running" /\ status[r] = "running"
        /\ created[r] \in Nat
    BY <1>0, <1>3, <1>6, Zenon DEF ReplayOne, WorkInv, ReplayTypeOK
  <2>2. UNCHANGED <<status, job, attempt>>
    BY <1>6, Zenon DEF ReplayOne
  <2>3. ASSUME pc'[r] \in {"replay", "fail"}, WorkInv(r)'
        PROVE  RunInv(r)'
    BY <1>0, <2>1, <2>2, <2>3, Zenon DEF RunInv, JobInv, CountInv
  <2>4. PICK n \in Nat : n = Cardinality(enabled)
    <3>1. "api" \in Paths
      BY Zenon DEF Paths
    <3> QED
      BY <3>1, FanOutType, Zenon
  <2>5. PICK e \in Nat : e = Min(todo[r]) /\ e \in todo[r]
    BY <1>6, TodoType, Zenon DEF ReplayOne
  <2>6. \A d \in FanOut(r, e, created[r]) : d.event = e
    <3>1. r \in Paths
      BY Zenon DEF Paths
    <3> QED
      BY <2>1, <3>1, FanOutType, Zenon
  <2>7. CASE /\ deliveries' = deliveries \cup FanOut(r, e, created[r])
             /\ created' = [created EXCEPT ![r] = @ + n]
             /\ requeued' = [requeued EXCEPT ![r] = @ + n]
             /\ todo' = [todo EXCEPT ![r] = @ \ {e}]
             /\ UNCHANGED <<pc, unheard>>
    <3>1. /\ created'[r] = created[r] + n /\ requeued'[r] = requeued[r] + n
          /\ todo'[r] = todo[r] \ {e}
      BY <2>7, Zenon DEF ReplayTypeOK
    <3>2. TodoUnmade(r)'
      BY <2>1, <2>6, <2>7, <3>1, Zenon DEF TodoUnmade
    <3>3. WorkInv(r)'
      BY <2>1, <2>2, <2>7, <3>1, <3>2, Zenon DEF WorkInv
    <3> QED
      BY <2>1, <2>3, <2>7, <3>3, Zenon
  <2>8. CASE /\ pc' = [pc EXCEPT ![r] = "fail"]
             /\ UNCHANGED <<created, unheard, requeued>>
    <3>1. pc'[r] = "fail"
      BY <2>8, Zenon DEF ReplayTypeOK
    <3>2. requeued'[r] + unheard'[r] = created'[r]
      BY <2>1, <2>8
    <3>3. WorkInv(r)'
      BY <2>1, <2>2, <3>1, <3>2, Zenon DEF WorkInv
    <3> QED
      BY <2>3, <3>1, <3>3, Zenon
  <2>9. CASE /\ pc' = [pc EXCEPT ![r] = "fail"]
             /\ created' = [created EXCEPT ![r] = @ + n]
             /\ unheard' = [unheard EXCEPT ![r] = @ + n]
             /\ UNCHANGED requeued
    <3>1. /\ pc'[r] = "fail" /\ created'[r] = created[r] + n
          /\ unheard'[r] = unheard[r] + n
      BY <2>9, Zenon DEF ReplayTypeOK
    <3>2. requeued'[r] = created[r] /\ unheard'[r] = 0 + n
      BY <2>1, <2>9, <3>1, Zenon
    <3>3. requeued'[r] + unheard'[r] = created'[r]
      <4>1. \A a, b \in Nat : a + (0 + b) = a + b
        OBVIOUS
      <4> QED
        BY <2>1, <2>4, <3>1, <3>2, <4>1, Zenon
    <3>4. WorkInv(r)'
      BY <2>1, <2>2, <3>1, <3>3, Zenon DEF WorkInv
    <3> QED
      BY <2>3, <3>1, <3>4, Zenon
  <2> QED
    BY <1>6, <2>4, <2>5, <2>7, <2>8, <2>9 DEF ReplayOne, Count
<1>7. CASE Finish(r)
  <2>1. /\ pc[r] = "replay" /\ todo[r] = {} /\ requeued[r] = created[r]
        /\ job[r] = "running" /\ status[r] = "running"
        /\ UNCHANGED <<attempt, todo, selected, requeued, created, unheard>>
    BY <1>0, <1>3, <1>7, Zenon DEF Finish, WorkInv
  <2>2. ASSUME NEW verdict, FinishReplay(r, "completed"), Return(r, verdict)
        PROVE  RunInv(r)'
    <3>1. /\ status'[r] = "completed" /\ requeued_count'[r] = requeued[r]
          /\ matched_count'[r] = Cardinality(selected'[r])
      BY <2>1, <2>2, FinishCounts, Zenon
    <3>2. JobInv(r)' /\ WorkInv(r)'
      BY <1>0, <2>1, <2>2, <3>1, ReturnStep, Zenon
    <3> QED
      BY <2>1, <3>1, <3>2, Zenon DEF RunInv, CountInv
  <2>3. CASE UNCHANGED rowVars /\ Return(r, "error")
    <3>1. JobInv(r)' /\ WorkInv(r)'
      BY <1>0, <2>1, <2>3, ReturnStep, Zenon
    <3> QED
      BY <2>1, <2>3, <3>1, Zenon DEF RunInv, CountInv
  <2>4. \/ FinishReplay(r, "completed") /\ Return(r, "nil")
        \/ FinishReplay(r, "completed") /\ Return(r, "error")
        \/ UNCHANGED rowVars /\ Return(r, "error")
    BY <1>7, Zenon DEF Finish
  <2> QED
    BY <2>2, <2>3, <2>4, Zenon
<1>8. CASE Fail(r)
  <2>1. /\ pc[r] = "fail" /\ requeued[r] + unheard[r] = created[r]
        /\ job[r] = "running" /\ status[r] = "running" /\ Return(r, "error")
        /\ UNCHANGED <<attempt, todo, selected, requeued, created, unheard>>
    BY <1>0, <1>3, <1>8, Zenon DEF Fail, WorkInv
  <2>2. CASE FinishReplay(r, "failed")
    <3>1. status'[r] = "failed" /\ requeued_count'[r] = requeued[r]
      BY <2>1, <2>2, FinishCounts, Zenon
    <3>2. JobInv(r)' /\ WorkInv(r)'
      BY <1>0, <2>1, <3>1, ReturnStep, Zenon
    <3> QED
      BY <2>1, <3>1, <3>2, Zenon DEF RunInv, CountInv
  <2>3. CASE UNCHANGED rowVars
    <3>1. JobInv(r)' /\ WorkInv(r)'
      BY <1>0, <2>1, <2>3, ReturnStep, Zenon
    <3> QED
      BY <2>1, <2>3, <3>1, Zenon DEF RunInv, CountInv
  <2> QED
    BY <1>8, <2>2, <2>3, Zenon DEF Fail
<1>9. CASE Rescue(r)
  <2>1. /\ job[r] = "running" /\ job'[r] = AfterError(r) /\ pc[r] = "idle"
        /\ UNCHANGED <<status, attempt, pc, todo, selected, matched_count,
                       requeued_count, requeued, created, unheard>>
    BY <1>9, Zenon DEF Rescue, ReplayTypeOK
  <2>2. job'[r] = "discarded" /\ attempt[r] # 0 /\ status[r] = "running"
    BY <1>0, <2>1, NoRetry, Zenon
  <2> QED
    BY <2>1, <2>2, Zenon DEF RunInv, JobInv, WorkInv, CountInv
<1>10. CASE Crash(r)
  <2>1. /\ pc'[r] = "idle" /\ pc[r] # "idle"
        /\ UNCHANGED <<status, job, attempt>>
    BY <1>10, Zenon DEF Crash, Working, ReplayTypeOK
  <2> QED
    BY <1>0, <1>3, <2>1, Zenon DEF RunInv, JobInv, WorkInv, CountInv
<1>11. CASE Expire(r)
  <2>1. Kept(r) /\ NothingNew(r)
    BY <1>11, Zenon DEF Expire, Kept, NothingNew
  <2> QED
    BY <2>1, RunFrame, Zenon
<1> QED
  BY <1>1, <1>2, <1>4, <1>5, <1>6, <1>7, <1>8, <1>9, <1>10, <1>11 DEF JobStep
-----------------------------------------------------------------------------
(* The theorems *)

\* The initial state satisfies the invariant.
LEMMA ReplayInit == Init => ReplayInv
<1> SUFFICES ASSUME Init
             PROVE  ReplayInv
  BY Zenon
<1>1. ReplayTypeOK
  BY Zenon DEF Init, ReplayTypeOK, PCs, JobStates, RowStates
<1>2. \A r \in Replays : RunInv(r)
  BY Zenon DEF Init, RunInv, JobInv, WorkInv, CountInv, NoneMade
<1> QED
  BY <1>1, <1>2, Zenon DEF Init, ReplayInv, RunInv, MadeOnce

\* Every action preserves the invariant.
LEMMA ReplayStep == ReplayInv /\ [Next]_vars => ReplayInv'
<1> SUFFICES ASSUME ReplayInv, [Next]_vars
             PROVE  ReplayInv'
  BY Zenon
<1>1. /\ ReplayTypeOK /\ MadeOnce
      /\ \A q \in Replays : RunInv(q)
  BY Zenon DEF ReplayInv, RunInv
<1>2. ReplayTypeOK'
  BY <1>1, ReplayTypeStep, Zenon
<1>3. ASSUME \A q \in Replays : Kept(q) /\ NothingNew(q)
      PROVE  \A q \in Replays : RunInv(q)'
  BY <1>1, <1>3, RunFrame, Zenon
<1>4. CASE \/ Ingest
           \/ \E d \in deliveries, o \in Outcomes : Settle(d, o)
           \/ \E x \in Destinations : SwitchRoute(x) \/ DeleteDestination(x)
           \/ \E e \in 1..MaxEvents : ReplayEvent(e)
  <2>1. MadeOnce' /\ \A q \in Replays : Kept(q) /\ NothingNew(q)
    BY <1>1, <1>4, OthersStep, Zenon
  <2> QED
    BY <1>2, <1>3, <2>1, Zenon DEF ReplayInv, RunInv
<1>5. ASSUME NEW r \in Replays,
             BulkReplay(r) \/ JobStep(r) \/ Expire(r) \/ Crash(r)
      PROVE  ReplayInv'
  <2>1. \A q \in Replays : RunInv(q)'
    <3> TAKE q \in Replays
    <3>1. CASE q = r
      BY <1>1, <1>5, <3>1, OwnReplay, Zenon
    <3>2. CASE q # r
      <4>1. Kept(q) /\ NothingNew(q)
        BY <1>1, <1>5, <3>2, OtherReplays, Zenon
      <4> QED
        BY <1>1, <4>1, RunFrame, Zenon
    <3> QED
      BY <3>1, <3>2, Zenon
  <2>2. MadeOnce'
    <3>1. CASE ReplayOne(r)
      BY <1>1, <3>1, MadeOnceStep, Zenon
    <3>2. CASE ~ReplayOne(r)
      <4>1. deliveries' = deliveries
        BY <1>5, <3>2, Zenon
        DEF JobStep, BulkReplay, Fetch, Load, Select, Finish, Fail,
                          Rescue, Expire, Crash
      <4> QED
        BY <1>1, <4>1, Zenon DEF MadeOnce
    <3> QED
      BY <3>1, <3>2, Zenon
  <2> QED
    BY <1>2, <2>1, <2>2, Zenon DEF ReplayInv, RunInv
<1>6. CASE UNCHANGED vars
  <2>1. \A q \in Replays : Kept(q) /\ NothingNew(q)
    BY <1>6, Zenon DEF vars, rowVars, runVars, historyVars, Kept, NothingNew
  <2>2. MadeOnce'
    BY <1>1, <1>6, Zenon DEF vars, MadeOnce
  <2> QED
    BY <1>2, <1>3, <2>1, <2>2, Zenon DEF ReplayInv, RunInv
<1> QED
  BY <1>4, <1>5, <1>6, Zenon DEF Next

\* However jobs crash, time out and are rescued, however many replays overlap
\* with ingest, deliveries and edits of the routes: a bulk replay creates at most
\* one delivery of an event to a destination, and a Work call runs only for a
\* replay whose row is open.
THEOREM EventsRequeuedOnce == Spec => []RequeuedOnce
<1>1. ReplayInv => RequeuedOnce
  BY Zenon DEF ReplayInv, MadeOnce, JobInv, RequeuedOnce
<1> QED
  BY <1>1, ReplayInit, ReplayStep, PTL DEF Spec

\* The counts that FinishReplay wrote are what the worker created, short of a
\* commit whose reply was lost, and stay so.
THEOREM CountsAreExact == Spec => []CountsExact
<1>1. ReplayInv => CountsExact
  BY Zenon DEF ReplayInv, CountInv, CountsExact
<1> QED
  BY <1>1, ReplayInit, ReplayStep, PTL DEF Spec
=============================================================================
