--------------------------- MODULE AlertingProofs ---------------------------
(***************************************************************************)
(* Proofs about the alert check, for any number of runs, destinations,     *)
(* deliveries, channels and faults, and any window, cooldown and timeout:  *)
(* what is recorded was sent, a recorded fire binds the runs that start    *)
(* later to the cooldown, and a run that ends without an error leaves      *)
(* nothing unsaid.                                                         *)
(***************************************************************************)
EXTENDS Alerting, WellFoundedInduction, TLAPS

\* The instant that Tick goes to is one of those ahead.
LEMMA NextInstant ==
    ASSUME NEW S \in SUBSET Nat, S # {}
    PROVE  Min(S) \in S
<1> DEFINE R == {ss \in Nat \X Nat : ss[1] < ss[2]}
<1>1. IsWellFoundedOn(R, Nat)
  BY NatLessThanWellFounded, Zenon DEF OpToRel
<1>2. PICK x \in S : \A y \in S : ~ (<<y, x>> \in R)
  <2> HIDE DEF R
  <2> QED
    BY <1>1, WFMin, Zenon
<1>3. \A y \in S : x <= y
  <2> TAKE y \in S
  <2>1. x \in Nat /\ y \in Nat
    BY Zenon
  <2>2. ~ (<<y, x>> \in R)
    BY <1>2, Zenon
  <2>3. y < x => <<y, x>> \in R
    BY <2>1, Zenon
  <2> QED
    BY <2>1, <2>2, <2>3
<1> QED
  BY <1>3, Zenon DEF Min
-----------------------------------------------------------------------------
(* The inductive invariant *)

Positions == Conditions \cup {"idle", "start", "notify", "mark", "ended", "failed"}

\* A run is inside maybeFire, past the read of the state.
Firing(r) == pc[r] \in {"notify", "mark"}

\* Every variable that the invariant speaks of has its type; the pair of a run
\* is one exactly where maybeFire needs it.
AlertingTypeOK ==
    /\ clock \in Nat
    /\ destinations \subseteq Destinations
    /\ last_fired_at \in [Pairs -> Nat \cup {Never}]
    /\ pc \in [Runs -> Positions]
    /\ now \in [Runs -> Nat]
    /\ todo \in [Runs -> SUBSET Pairs]
    /\ current \in [Runs -> Pairs \cup {NoPair}]
    /\ errs \subseteq Runs
    /\ sent \subseteq (Pairs \X Nat) \X Channels
    /\ recorded \subseteq Pairs \X Nat \X Nat
    /\ found \in [Runs -> SUBSET Pairs]
    /\ \A r \in Runs : Firing(r) => current[r] \in Pairs

\* Every channel has taken the alert of pair p by the run that started at t.
SentToAll(p, t) == \A c \in Channels : <<<<p, t>>, c>> \in sent

\* What is recorded, and what a run is about to record, was sent.
SentInv ==
    /\ \A p \in Pairs : last_fired_at[p] # Never =>
          /\ SentToAll(p, last_fired_at[p])
          /\ p[1] \in destinations
    /\ \A r \in Runs : pc[r] = "mark" => SentToAll(current[r], now[r])

\* Nothing comes from the future.
PastInv ==
    /\ \A r \in Runs : now[r] <= clock
    /\ \A s \in sent : s[1][2] <= clock
    /\ \A f \in recorded : f[2] <= f[3] /\ f[3] <= clock

\* An alert of a run that started at t keeps the cooldown after fire f, or
\* after an earlier one of the given fires that was recorded over it.
Spaced(t, f, fires) ==
    t > f[3] =>
        \/ t - f[2] >= Cooldown
        \/ \E g \in fires : /\ g[1] = f[1]
                           /\ g[2] < f[2]
                           /\ f[3] <= g[3] /\ g[3] <= g[2] + Timeout
                           /\ t - g[2] >= Cooldown

\* alert_state holds a fire that was recorded no earlier than any other of its
\* pair, and by a run within its timeout; it may have started earlier.  And so
\* the pair that a run is about to alert on is off the cooldown of the fires
\* recorded before the run started.
CooldownInv ==
    /\ \A f \in recorded : f[1][1] \in destinations =>
          /\ last_fired_at[f[1]] # Never
          /\ \E g \in recorded : /\ g[1] = f[1]
                                /\ g[2] = last_fired_at[f[1]]
                                /\ f[3] <= g[3] /\ g[3] <= g[2] + Timeout
    /\ \A r \in Runs, f \in recorded :
          Firing(r) /\ f[1] = current[r] /\ f[1][1] \in destinations =>
              Spaced(now[r], f, recorded)
    /\ \A s \in sent, f \in recorded :
          f[1] = s[1][1] /\ f[1][1] \in destinations =>
              Spaced(s[1][2], f, recorded)

\* Every channel has an alert of p that is not a cooldown older than run r.
Said(r, p) ==
    \A c \in Channels :
        \E s \in sent : s[1][1] = p /\ s[2] = c /\ now[r] - s[1][2] < Cooldown

\* Of the pairs a run found due, and as long as it has collected no error, each
\* is still to be looked at, is being fired, or has been said.
FoundInv ==
    \A r \in Runs :
        /\ (~UnderWay(r) \/ pc[r] = "start") => found[r] = {}
        /\ r \notin errs =>
              \A p \in found[r] :
                  p \in todo[r] \/ (Firing(r) /\ p = current[r]) \/ Said(r, p)

AlertingInv ==
    AlertingTypeOK /\ SentInv /\ PastInv /\ CooldownInv /\ FoundInv
-----------------------------------------------------------------------------
(* Types *)

\* The pairs that a query finds due.
Due(r, c) ==
    (IF c = "dlq" THEN DeadLetteredSince(now[r] - Window)
                  ELSE FailingSince(now[r] - Window)) \X {c}

\* What a condition's query can find are pairs of a destination and a
\* condition.
LEMMA DueArePairs ==
    ASSUME AlertingTypeOK, NEW r \in Runs, NEW c \in Conditions
    PROVE  Due(r, c) \subseteq Pairs
  BY Zenon DEF AlertingTypeOK, Due, DeadLetteredSince, FailingSince, Pairs

\* What a query does: it fails and ends the run, or it adds what it found to
\* the pairs of the run, when the run has dealt with all it found before.
LEMMA QueryCases ==
    ASSUME NEW r \in Runs, Query(r)
    PROVE  \/ /\ End(r, "failed")
              /\ UNCHANGED <<clock, tableVars, last_fired_at, sent, recorded>>
           \/ \E c \in Conditions :
                 /\ \/ pc[r] = "start"
                    \/ pc[r] = "dlq" /\ todo[r] = {}
                 /\ todo' = [todo EXCEPT ![r] = Due(r, c)]
                 /\ found' = [found EXCEPT ![r] = @ \cup Due(r, c)]
                 /\ Goto(r, c)
                 /\ UNCHANGED <<clock, tableVars, last_fired_at, now, current,
                                errs, sent, recorded>>
<1>1. CASE End(r, "failed")
  BY <1>1, Zenon DEF Query
<1>2. CASE ~End(r, "failed")
  <2> DEFINE c == IF pc[r] = "start" THEN "dlq" ELSE "failure_rate"
  <2>1. c \in Conditions
    BY Zenon DEF Conditions
  <2>2. /\ pc[r] = "start" \/ (pc[r] = "dlq" /\ todo[r] = {})
        /\ todo' = [todo EXCEPT ![r] = Due(r, c)]
        /\ found' = [found EXCEPT ![r] = @ \cup Due(r, c)]
        /\ Goto(r, c)
        /\ UNCHANGED <<clock, tableVars, last_fired_at, now, current,
                       errs, sent, recorded>>
    BY <1>2, Zenon DEF Query, Due
  <2> QED
    BY <2>1, <2>2, Zenon
<1> QED
  BY <1>1, <1>2, Zenon

\* Time only goes forward.
LEMMA TickGoesOn ==
    ASSUME AlertingTypeOK, Tick
    PROVE  clock' \in Nat /\ clock' > clock
<1> DEFINE S == {t \in Instants : t > clock}
<1>1. S \in SUBSET Nat /\ S # {}
  BY AlertingAssumption, Zenon DEF Tick
<1>2. Min(S) \in S
  <2> HIDE DEF S
  <2> QED
    BY <1>1, NextInstant, Zenon
<1>3. clock' = Min(S)
  BY Zenon DEF Tick
<1> QED
  BY <1>1, <1>2, <1>3, Zenon

\* Every step keeps the types.
LEMMA AlertingTypeStep ==
    ASSUME AlertingTypeOK, [Next]_vars
    PROVE  AlertingTypeOK'
<1> USE DEF AlertingTypeOK, Firing, Never
<1>1. CASE Tick
  BY <1>1, TickGoesOn, Zenon DEF Tick, runVars, historyVars, tableVars
<1>2. ASSUME NEW d \in Deliveries, NEW o \in {"succeeded", "dead_lettered"},
             Settle(d, o)
      PROVE  AlertingTypeOK'
  BY <1>2, Zenon DEF Settle, runVars, historyVars
<1>2b. ASSUME NEW d \in Deliveries, ResetDeliveryForRecovery(d)
       PROVE  AlertingTypeOK'
  BY <1>2b, Zenon DEF ResetDeliveryForRecovery, runVars, historyVars
<1>3. ASSUME NEW x \in Destinations, DeleteDestination(x)
      PROVE  AlertingTypeOK'
  BY <1>3, Zenon DEF DeleteDestination, runVars, historyVars
<1>4. ASSUME NEW r \in Runs, Start(r)
      PROVE  AlertingTypeOK'
  BY <1>4, Zenon DEF Start, Goto, historyVars, tableVars, Positions
<1>5. ASSUME NEW r \in Runs, Query(r)
      PROVE  AlertingTypeOK'
  <2>1. CASE /\ End(r, "failed")
             /\ UNCHANGED <<clock, tableVars, last_fired_at, sent, recorded>>
    BY <2>1, Zenon DEF End, Goto, tableVars, Positions
  <2>2. ASSUME NEW c \in Conditions,
               todo' = [todo EXCEPT ![r] = Due(r, c)],
               found' = [found EXCEPT ![r] = @ \cup Due(r, c)],
               Goto(r, c),
               UNCHANGED <<clock, tableVars, last_fired_at, now, current,
                           errs, sent, recorded>>
        PROVE  AlertingTypeOK'
    <3>1. Due(r, c) \subseteq Pairs
      BY DueArePairs, Zenon
    <3>2. c \notin {"notify", "mark"} /\ c \in Positions
      BY Zenon DEF Conditions, Positions
    <3> QED
      BY <2>2, <3>1, <3>2, Zenon DEF Goto, tableVars
  <2> QED
    BY <1>5, <2>1, <2>2, QueryCases, Zenon
<1>6. ASSUME NEW r \in Runs, NEW p \in Pairs, ReadState(r, p)
      PROVE  AlertingTypeOK'
  <2>1. /\ UNCHANGED <<clock, destinations, last_fired_at, now, sent, recorded, found>>
        /\ todo' \in [Runs -> SUBSET Pairs]
    BY <1>6, Zenon DEF ReadState, tableVars, historyVars
  <2>2. /\ errs' \subseteq Runs
        /\ \/ UNCHANGED <<pc, current>>
           \/ Goto(r, "notify") /\ current' = [current EXCEPT ![r] = p]
    BY <1>6, Zenon DEF ReadState, Collect
  <2> QED
    BY <2>1, <2>2 DEF Goto, Positions
<1>7. ASSUME NEW r \in Runs, NEW ok \in SUBSET Channels, Notify(r, ok)
      PROVE  AlertingTypeOK'
  <2>1. current[r] \in Pairs /\ now[r] \in Nat
    BY <1>7, Zenon DEF Notify
  <2>2. sent' \subseteq (Pairs \X Nat) \X Channels
    BY <1>7, <2>1 DEF Notify
  <2>3. current[r][2] \in Conditions
    BY <2>1, Zenon DEF Pairs
  <2>4. UNCHANGED <<clock, destinations, last_fired_at, now, todo, recorded, found>>
    BY <1>7, Zenon DEF Notify, tableVars
  <2>5. /\ errs' \subseteq Runs
        /\ \/ Goto(r, "mark") /\ UNCHANGED current
           \/ Done(r)
    BY <1>7, Zenon DEF Notify, NotifyFailed, Collect
  <2> QED
    BY <2>1, <2>2, <2>3, <2>4, <2>5 DEF Goto, Done, Positions, Conditions
<1>8. ASSUME NEW r \in Runs, Mark(r)
      PROVE  AlertingTypeOK'
  <2>1. current[r] \in Pairs /\ now[r] \in Nat
    BY <1>8, Zenon DEF Mark
  <2>2. current[r][2] \in Conditions
    BY <2>1, Zenon DEF Pairs
  <2>3. UNCHANGED <<clock, destinations, now, todo, sent, found>> /\ Done(r)
    BY <1>8, Zenon DEF Mark, tableVars
  <2>4. /\ errs' \subseteq Runs
        /\ last_fired_at' \in [Pairs -> Nat \cup {Never}]
        /\ recorded' \subseteq Pairs \X Nat \X Nat
    BY <1>8, <2>1 DEF Mark, MarkAlertFired, Collect
  <2> QED
    BY <2>1, <2>2, <2>3, <2>4, Zenon DEF Goto, Done, Positions, Conditions
<1>9. ASSUME NEW r \in Runs, Finish(r)
      PROVE  AlertingTypeOK'
  <2>1. PICK to \in {"failed", "ended"} : End(r, to)
    BY <1>9, Zenon DEF Finish
  <2> QED
    BY <1>9, <2>1 DEF Finish, End, Goto, tableVars, Positions
<1>10. CASE UNCHANGED vars
  BY <1>10, Zenon DEF vars, tableVars, runVars, historyVars
<1> QED
  BY <1>1, <1>2, <1>2b, <1>3, <1>4, <1>5, <1>6, <1>7, <1>8, <1>9, <1>10, Zenon
  DEF Next
-----------------------------------------------------------------------------
(* What is recorded was sent *)

\* maybeFire records a fire only after every channel has taken it, so what is
\* recorded, or about to be, was sent to all.
LEMMA SentStep ==
    ASSUME AlertingTypeOK, SentInv, [Next]_vars
    PROVE  SentInv'
<1>0. ASSUME sent \subseteq sent', NEW p, NEW t, SentToAll(p, t)
      PROVE  SentToAll(p, t)'
  BY <1>0, Zenon DEF SentToAll
\* A step that leaves alert_state and the destinations alone, and takes no run
\* to Mark.
<1>a. ASSUME UNCHANGED <<destinations, last_fired_at>>, sent \subseteq sent',
             \A r \in Runs : pc'[r] = "mark" =>
                pc[r] = "mark" /\ current'[r] = current[r] /\ now'[r] = now[r]
      PROVE  SentInv'
  BY <1>a, <1>0, Zenon DEF SentInv
<1>1. CASE Tick
  BY <1>1, <1>a, Zenon DEF Tick, runVars, historyVars, tableVars
<1>2. ASSUME NEW d \in Deliveries, NEW o \in {"succeeded", "dead_lettered"},
             Settle(d, o)
      PROVE  SentInv'
  BY <1>2, <1>a, Zenon DEF Settle, runVars, historyVars
<1>2b. ASSUME NEW d \in Deliveries, ResetDeliveryForRecovery(d)
       PROVE  SentInv'
  BY <1>2b, <1>a, Zenon DEF ResetDeliveryForRecovery, runVars, historyVars
<1>3. ASSUME NEW x \in Destinations, DeleteDestination(x)
      PROVE  SentInv'
  BY <1>3, Zenon DEF DeleteDestination, runVars, historyVars, SentInv, SentToAll,
              AlertingTypeOK
<1>4. ASSUME NEW r \in Runs, Start(r)
      PROVE  SentInv'
  BY <1>4, <1>a, Zenon DEF Start, Goto, historyVars, tableVars, AlertingTypeOK
<1>5. ASSUME NEW r \in Runs, Query(r)
      PROVE  SentInv'
  <2>1. CASE /\ End(r, "failed")
             /\ UNCHANGED <<clock, tableVars, last_fired_at, sent, recorded>>
    BY <2>1, <1>a, Zenon DEF End, Goto, tableVars, AlertingTypeOK
  <2>2. ASSUME NEW c \in Conditions, Goto(r, c),
               UNCHANGED <<clock, tableVars, last_fired_at, now, current,
                           errs, sent, recorded>>
        PROVE  SentInv'
    BY <2>2, <1>a, Zenon DEF Goto, tableVars, Conditions, AlertingTypeOK
  <2> QED
    BY <1>5, <2>1, <2>2, QueryCases, Zenon
<1>6. ASSUME NEW r \in Runs, NEW p \in Pairs, ReadState(r, p)
      PROVE  SentInv'
  <2>1. /\ UNCHANGED <<destinations, last_fired_at, now, sent>>
        /\ pc[r] \in Conditions
        /\ \/ UNCHANGED <<pc, current>>
           \/ Goto(r, "notify") /\ current' = [current EXCEPT ![r] = p]
    BY <1>6, Zenon DEF ReadState, tableVars, historyVars
  <2> QED
    BY <2>1, <1>a, Zenon DEF Goto, Conditions, AlertingTypeOK
<1>7. ASSUME NEW r \in Runs, NEW ok \in SUBSET Channels, Notify(r, ok)
      PROVE  SentInv'
  <2>1. /\ UNCHANGED <<destinations, last_fired_at, now>>
        /\ sent \subseteq sent'
    BY <1>7, Zenon DEF Notify, tableVars
  <2>2. CASE EveryChannel(ok)
    <3>1. Goto(r, "mark") /\ UNCHANGED current
      BY <1>7, <2>2, Zenon DEF Notify
    <3>2. SentToAll(current[r], now[r])'
      BY <1>7, <2>2, <2>1, <3>1, Zenon DEF Notify, EveryChannel, SentToAll
    <3> QED
      BY <2>1, <3>1, <3>2, <1>0, Zenon DEF Goto, AlertingTypeOK, SentInv
  <2>3. CASE ~EveryChannel(ok)
    <3>1. Done(r) /\ current[r] \in Pairs
      BY <1>7, <2>3, Zenon DEF Notify, AlertingTypeOK, Firing
    <3>2. current[r][2] # "mark"
      BY <3>1, Zenon DEF Pairs, Conditions
    <3> QED
      BY <2>1, <3>1, <3>2, <1>a, Zenon DEF Done, Goto, AlertingTypeOK
  <2> QED
    BY <2>2, <2>3, Zenon
<1>8. ASSUME NEW r \in Runs, Mark(r)
      PROVE  SentInv'
  <2>1. /\ current[r] \in Pairs
        /\ SentToAll(current[r], now[r])
        /\ Done(r)
        /\ UNCHANGED <<destinations, now, sent>>
    BY <1>8, Zenon DEF Mark, AlertingTypeOK, Firing, SentInv, tableVars
  <2>2. current[r][2] # "mark"
    BY <2>1, Zenon DEF Pairs, Conditions
  <2>3. \/ UNCHANGED last_fired_at
        \/ /\ current[r][1] \in destinations
           /\ last_fired_at' = [last_fired_at EXCEPT ![current[r]] = now[r]]
    BY <1>8, Zenon DEF Mark, MarkAlertFired
  <2>4. \A q \in Runs : pc'[q] = "mark" =>
           pc[q] = "mark" /\ current'[q] = current[q] /\ now'[q] = now[q]
    BY <2>1, <2>2, Zenon DEF Done, Goto, AlertingTypeOK
  <2>5. CASE UNCHANGED last_fired_at
    BY <2>1, <2>4, <2>5, <1>a, Zenon
  <2>6. CASE /\ current[r][1] \in destinations
             /\ last_fired_at' = [last_fired_at EXCEPT ![current[r]] = now[r]]
    BY <2>1, <2>4, <2>6, Zenon DEF SentInv, SentToAll, AlertingTypeOK
  <2> QED
    BY <2>3, <2>5, <2>6, Zenon
<1>9. ASSUME NEW r \in Runs, Finish(r)
      PROVE  SentInv'
  <2>1. PICK to \in {"failed", "ended"} : End(r, to)
    BY <1>9, Zenon DEF Finish
  <2> QED
    BY <1>9, <2>1, <1>a DEF Finish, End, Goto, tableVars, AlertingTypeOK
<1>10. CASE UNCHANGED vars
  BY <1>10, <1>a, Zenon DEF vars, tableVars, runVars, historyVars
<1> QED
  BY <1>1, <1>2, <1>2b, <1>3, <1>4, <1>5, <1>6, <1>7, <1>8, <1>9, <1>10, Zenon
  DEF Next
-----------------------------------------------------------------------------
(* The cooldown *)

\* A run's now, and the times it stores, lie in the past.
LEMMA PastStep ==
    ASSUME AlertingTypeOK, PastInv, [Next]_vars
    PROVE  PastInv'
<1>1. CASE Tick
  <2>1. clock \in Nat /\ clock' \in Nat /\ clock' > clock
    BY <1>1, TickGoesOn, Zenon DEF AlertingTypeOK
  <2>2. UNCHANGED <<now, sent, recorded>>
    BY <1>1, Zenon DEF Tick, runVars, historyVars
  <2>3. /\ \A r \in Runs : now[r] \in Nat
        /\ \A s \in sent : s[1][2] \in Nat
        /\ \A f \in recorded : f[3] \in Nat
    BY Zenon DEF AlertingTypeOK
  <2> QED
    BY <2>1, <2>2, <2>3 DEF PastInv
<1>2. ASSUME NEW d \in Deliveries, NEW o \in {"succeeded", "dead_lettered"},
             Settle(d, o)
      PROVE  PastInv'
  BY <1>2, Zenon DEF Settle, runVars, historyVars, PastInv
<1>2b. ASSUME NEW d \in Deliveries, ResetDeliveryForRecovery(d)
       PROVE  PastInv'
  BY <1>2b, Zenon DEF ResetDeliveryForRecovery, runVars, historyVars, PastInv
<1>3. ASSUME NEW x \in Destinations, DeleteDestination(x)
      PROVE  PastInv'
  BY <1>3, Zenon DEF DeleteDestination, runVars, historyVars, PastInv
<1>4. ASSUME NEW r \in Runs, Start(r)
      PROVE  PastInv'
  BY <1>4 DEF Start, historyVars, AlertingTypeOK, PastInv
<1>5. ASSUME NEW r \in Runs, Query(r)
      PROVE  PastInv'
  <2>1. /\ UNCHANGED <<clock, sent, recorded>>
        /\ now' = now \/ now' = [now EXCEPT ![r] = 0]
    BY <1>5, QueryCases, Zenon DEF End
  <2> QED
    BY <2>1 DEF AlertingTypeOK, PastInv
<1>6. ASSUME NEW r \in Runs, NEW p \in Pairs, ReadState(r, p)
      PROVE  PastInv'
  BY <1>6, Zenon DEF ReadState, historyVars, PastInv
<1>7. ASSUME NEW r \in Runs, NEW ok \in SUBSET Channels, Notify(r, ok)
      PROVE  PastInv'
  <2>1. /\ UNCHANGED <<clock, now, recorded>>
        /\ sent' = sent \cup ({<<current[r], now[r]>>} \X ok)
    BY <1>7, Zenon DEF Notify
  <2>2. \A s \in sent' : s \in sent \/ s[1][2] = now[r]
    BY <2>1
  <2> QED
    BY <2>1, <2>2, Zenon DEF PastInv
<1>8. ASSUME NEW r \in Runs, Mark(r)
      PROVE  PastInv'
  <2>1. /\ UNCHANGED <<clock, now, sent>>
        /\ recorded' \subseteq recorded \cup {<<current[r], now[r], clock>>}
    BY <1>8, Zenon DEF Mark
  <2>2. clock <= clock
    BY DEF AlertingTypeOK
  <2> QED
    BY <2>1, <2>2 DEF PastInv
<1>9. ASSUME NEW r \in Runs, Finish(r)
      PROVE  PastInv'
  BY <1>9 DEF Finish, End, AlertingTypeOK, PastInv
<1>10. CASE UNCHANGED vars
  BY <1>10, Zenon DEF vars, runVars, historyVars, PastInv
<1> QED
  BY <1>1, <1>2, <1>2b, <1>3, <1>4, <1>5, <1>6, <1>7, <1>8, <1>9, <1>10, Zenon
  DEF Next

\* A pair that is not cooling when a run reads its state is off the cooldown of
\* every fire of it that was recorded before the run started.
LEMMA ReadSpaced ==
    ASSUME AlertingTypeOK, CooldownInv,
           NEW r \in Runs, NEW f \in recorded, f[1][1] \in destinations,
           ~Cooling(r, f[1])
    PROVE  Spaced(now[r], f, recorded)
<1>1. f[1] \in Pairs /\ f[2] \in Nat /\ now[r] \in Nat
  BY Zenon DEF AlertingTypeOK
<1>2. PICK g \in recorded : /\ last_fired_at[f[1]] # Never
                           /\ g[1] = f[1]
                           /\ g[2] = last_fired_at[f[1]]
                           /\ f[3] <= g[3] /\ g[3] <= g[2] + Timeout
  BY Zenon DEF CooldownInv
<1>3. g[2] \in Nat
  BY Zenon DEF AlertingTypeOK
<1>4. now[r] - g[2] >= Cooldown
  BY <1>1, <1>2, <1>3, AlertingAssumption DEF Cooling
<1>5. g[2] < f[2] \/ now[r] - f[2] >= Cooldown
  BY <1>1, <1>3, <1>4, AlertingAssumption
<1> QED
  BY <1>2, <1>4, <1>5, Zenon DEF Spaced

\* Fires that are recorded later make no difference to what was spaced before.
LEMMA SpacedStays ==
    ASSUME NEW R, NEW S, R \subseteq S, NEW t, NEW f, Spaced(t, f, R)
    PROVE  Spaced(t, f, S)
  BY Zenon DEF Spaced

\* A run that is past the read of last_fired_at found the cooldown over; what
\* others record meanwhile is from runs that overlap it.
LEMMA CooldownStep ==
    ASSUME AlertingTypeOK, PastInv, CooldownInv, [Next]_vars
    PROVE  CooldownInv'
\* A step that records nothing, sends nothing and takes no run past the read.
<1>a. ASSUME UNCHANGED <<recorded, sent>>, destinations' \subseteq destinations,
             \A p \in Pairs : p[1] \in destinations' =>
                last_fired_at'[p] = last_fired_at[p],
             \A r \in Runs : Firing(r)' =>
                Firing(r) /\ current'[r] = current[r] /\ now'[r] = now[r]
      PROVE  CooldownInv'
  <2>1. \A f \in recorded : f[1] \in Pairs
    BY Zenon DEF AlertingTypeOK
  <2> QED
    <3>1. \A f \in recorded' : f[1][1] \in destinations' =>
             /\ f \in recorded /\ f[1][1] \in destinations
             /\ last_fired_at'[f[1]] = last_fired_at[f[1]]
      BY <1>a, <2>1, Zenon
    <3>2. \A r \in Runs, f \in recorded' :
             Firing(r)' /\ f[1] = current'[r] /\ f[1][1] \in destinations' =>
                Spaced(now'[r], f, recorded')
      BY <1>a, <3>1, Zenon DEF CooldownInv
    <3>3. \A s \in sent', f \in recorded' :
             f[1] = s[1][1] /\ f[1][1] \in destinations' =>
                Spaced(s[1][2], f, recorded')
      BY <1>a, <3>1, Zenon DEF CooldownInv
    <3>4. \A f \in recorded' : f[1][1] \in destinations' =>
             /\ last_fired_at'[f[1]] # Never
             /\ \E g \in recorded' : /\ g[1] = f[1]
                                    /\ g[2] = last_fired_at'[f[1]]
                                    /\ f[3] <= g[3] /\ g[3] <= g[2] + Timeout
      <4> SUFFICES ASSUME NEW f \in recorded', f[1][1] \in destinations'
                   PROVE  /\ last_fired_at'[f[1]] # Never
                          /\ \E g \in recorded' :
                                /\ g[1] = f[1]
                                /\ g[2] = last_fired_at'[f[1]]
                                /\ f[3] <= g[3] /\ g[3] <= g[2] + Timeout
        BY Zenon
      <4>1. /\ f \in recorded /\ f[1][1] \in destinations
            /\ last_fired_at'[f[1]] = last_fired_at[f[1]]
        BY <3>1, Zenon
      <4>2. PICK g \in recorded : /\ last_fired_at[f[1]] # Never
                                 /\ g[1] = f[1]
                                 /\ g[2] = last_fired_at[f[1]]
                                 /\ f[3] <= g[3] /\ g[3] <= g[2] + Timeout
        BY <4>1, Zenon DEF CooldownInv
      <4> QED
        BY <1>a, <4>1, <4>2, Zenon
    <3> QED
      BY <3>2, <3>3, <3>4, Zenon DEF CooldownInv
<1>1. CASE Tick
  BY <1>1, <1>a, Zenon DEF Tick, runVars, historyVars, tableVars, Firing
<1>2. ASSUME NEW d \in Deliveries, NEW o \in {"succeeded", "dead_lettered"},
             Settle(d, o)
      PROVE  CooldownInv'
  BY <1>2, <1>a, Zenon DEF Settle, runVars, historyVars, Firing
<1>2b. ASSUME NEW d \in Deliveries, ResetDeliveryForRecovery(d)
       PROVE  CooldownInv'
  BY <1>2b, <1>a, Zenon DEF ResetDeliveryForRecovery, runVars, historyVars, Firing
<1>3. ASSUME NEW x \in Destinations, DeleteDestination(x)
      PROVE  CooldownInv'
  BY <1>3, <1>a, Zenon DEF DeleteDestination, runVars, historyVars, Firing
<1>4. ASSUME NEW r \in Runs, Start(r)
      PROVE  CooldownInv'
  BY <1>4, <1>a, Zenon
  DEF Start, Goto, historyVars, tableVars, AlertingTypeOK, Firing
<1>5. ASSUME NEW r \in Runs, Query(r)
      PROVE  CooldownInv'
  <2>1. CASE /\ End(r, "failed")
             /\ UNCHANGED <<clock, tableVars, last_fired_at, sent, recorded>>
    BY <2>1, <1>a, Zenon DEF End, Goto, tableVars, AlertingTypeOK, Firing
  <2>2. ASSUME NEW c \in Conditions, Goto(r, c),
               UNCHANGED <<clock, tableVars, last_fired_at, now, current,
                           errs, sent, recorded>>
        PROVE  CooldownInv'
    BY <2>2, <1>a, Zenon DEF Goto, tableVars, Conditions, AlertingTypeOK, Firing
  <2> QED
    BY <1>5, <2>1, <2>2, QueryCases, Zenon
<1>6. ASSUME NEW r \in Runs, NEW p \in Pairs, ReadState(r, p)
      PROVE  CooldownInv'
  <2>1. /\ UNCHANGED <<destinations, last_fired_at, now, sent, recorded>>
        /\ \/ UNCHANGED <<pc, current>>
           \/ /\ Goto(r, "notify") /\ current' = [current EXCEPT ![r] = p]
              /\ ~Cooling(r, p)
    BY <1>6, Zenon DEF ReadState, tableVars, historyVars
  <2>2. CASE UNCHANGED <<pc, current>>
    BY <2>1, <2>2, <1>a, Zenon DEF Firing
  <2>3. CASE /\ Goto(r, "notify") /\ current' = [current EXCEPT ![r] = p]
             /\ ~Cooling(r, p)
    <3>1. \A f \in recorded : f[1] = p /\ f[1][1] \in destinations =>
             Spaced(now[r], f, recorded)
      BY <2>3, ReadSpaced, Zenon
    <3>2. /\ current'[r] = p
          /\ \A q \in Runs \ {r} : pc'[q] = pc[q] /\ current'[q] = current[q]
      BY <2>3, Zenon DEF Goto, AlertingTypeOK
    <3> QED
      BY <2>1, <3>1, <3>2, Zenon DEF CooldownInv, Firing
  <2> QED
    BY <2>1, <2>2, <2>3, Zenon
<1>7. ASSUME NEW r \in Runs, NEW ok \in SUBSET Channels, Notify(r, ok)
      PROVE  CooldownInv'
  <2>1. /\ UNCHANGED <<destinations, last_fired_at, now, recorded>>
        /\ sent' = sent \cup ({<<current[r], now[r]>>} \X ok)
        /\ Firing(r) /\ current[r] \in Pairs
    BY <1>7, Zenon DEF Notify, tableVars, Firing, AlertingTypeOK
  <2>2. \A s \in sent' : s \in sent \/ s[1] = <<current[r], now[r]>>
    BY <2>1, Zenon
  <2>3. (Goto(r, "mark") /\ UNCHANGED current) \/ Done(r)
    BY <1>7, Zenon DEF Notify
  <2>4. current[r][2] \notin {"notify", "mark"}
    BY <2>1, Zenon DEF Pairs, Conditions
  <2>5. \A q \in Runs : Firing(q)' => Firing(q) /\ current'[q] = current[q]
    BY <2>1, <2>3, <2>4, Zenon DEF Goto, Done, Firing, AlertingTypeOK
  <2> QED
    <3>1. \A s \in sent', f \in recorded' :
             f[1] = s[1][1] /\ f[1][1] \in destinations' =>
                Spaced(s[1][2], f, recorded')
      <4> TAKE s \in sent', f \in recorded'
      <4>1. CASE s \in sent
        BY <2>1, <4>1, Zenon DEF CooldownInv
      <4>2. CASE s[1] = <<current[r], now[r]>>
        <5>1. s[1][1] = current[r] /\ s[1][2] = now[r]
          BY <4>2
        <5> QED
          BY <2>1, <5>1, Zenon DEF CooldownInv
      <4> QED
        BY <2>2, <4>1, <4>2, Zenon
    <3>2. \A q \in Runs, f \in recorded' :
             Firing(q)' /\ f[1] = current'[q] /\ f[1][1] \in destinations' =>
                Spaced(now'[q], f, recorded')
      BY <2>1, <2>5, Zenon DEF CooldownInv
    <3> QED
      BY <2>1, <3>1, <3>2, Zenon DEF CooldownInv
<1>8. ASSUME NEW r \in Runs, Mark(r)
      PROVE  CooldownInv'
  <2>0. PICK p \in Pairs, t \in Nat : p = current[r] /\ t = now[r]
    BY <1>8, Zenon DEF Mark, AlertingTypeOK, Firing
  <2>1. /\ Done(r)
        /\ UNCHANGED <<destinations, now, sent>>
    BY <1>8, Zenon DEF Mark, tableVars
  <2>2. p[2] \notin {"notify", "mark"}
    BY Zenon DEF Pairs, Conditions
  <2>3. \A q \in Runs : Firing(q)' => Firing(q) /\ current'[q] = current[q]
    BY <2>0, <2>1, <2>2, Zenon DEF Goto, Done, Firing, AlertingTypeOK
  <2>4. \/ UNCHANGED <<last_fired_at, recorded>>
        \/ /\ ~Expired(r)
           /\ last_fired_at' = [last_fired_at EXCEPT ![p] = t]
           /\ recorded' = recorded \cup {<<p, t, clock>>}
    BY <1>8, <2>0, Zenon DEF Mark, MarkAlertFired, Succeeds
  <2>5. CASE UNCHANGED <<last_fired_at, recorded>>
    BY <2>1, <2>3, <2>5, <1>a, Zenon
  <2>6. CASE /\ ~Expired(r)
             /\ last_fired_at' = [last_fired_at EXCEPT ![p] = t]
             /\ recorded' = recorded \cup {<<p, t, clock>>}
    <3>1. PICK c \in Nat : c = clock
      BY Zenon DEF AlertingTypeOK
    <3>2. c <= t + Timeout
      BY <2>0, <2>6, <3>1, AlertingAssumption DEF Expired
    <3>3. PICK new : new = <<p, t, c>>
      OBVIOUS
    <3>4. new[1] = p /\ new[2] = t /\ new[3] = c
      BY <3>3
    <3>5. recorded' = recorded \cup {new}
      BY <2>6, <3>1, <3>3, Zenon
    <3>6. last_fired_at'[p] = t /\ t # Never
      BY <2>6 DEF AlertingTypeOK, Never
    <3>7. \A x \in Pairs : x # p => last_fired_at'[x] = last_fired_at[x]
      BY <2>6, Zenon DEF AlertingTypeOK
    \* Nothing was recorded later than this fire.
    <3>8. \A f \in recorded' : f[1] \in Pairs /\ f[3] <= c
      <4>1. \A f \in recorded : f[1] \in Pairs /\ f[3] <= c
        BY <3>1, Zenon DEF AlertingTypeOK, PastInv
      <4>2. c <= c
        OBVIOUS
      <4> QED
        BY <3>4, <3>5, <4>1, <4>2, Zenon
    <3>9. \A f \in recorded' : f[1][1] \in destinations' =>
             /\ last_fired_at'[f[1]] # Never
             /\ \E g \in recorded' : /\ g[1] = f[1]
                                    /\ g[2] = last_fired_at'[f[1]]
                                    /\ f[3] <= g[3] /\ g[3] <= g[2] + Timeout
      <4> TAKE f \in recorded'
      <4>1. CASE f[1] = p
        BY <3>2, <3>4, <3>5, <3>6, <3>8, <4>1, Zenon
      <4>2. CASE f[1] # p
        <5>1. f \in recorded /\ f[1] \in Pairs
          BY <3>4, <3>5, <3>8, <4>2, Zenon
        <5> QED
          BY <2>1, <3>5, <3>7, <4>2, <5>1, Zenon DEF CooldownInv
      <4> QED
        BY <4>1, <4>2, Zenon
    \* No run has started since, and no alert is of such a run.
    <3>10. ASSUME NEW u \in Nat, u <= c
           PROVE  Spaced(u, new, recorded')
      BY <3>4, <3>10 DEF Spaced
    <3>11. \A q \in Runs : Spaced(now[q], new, recorded')
      BY <3>1, <3>10, Zenon DEF AlertingTypeOK, PastInv
    <3>12. \A s \in sent : Spaced(s[1][2], new, recorded')
      BY <3>1, <3>10, Zenon DEF AlertingTypeOK, PastInv
    <3>13. \A q \in Runs, f \in recorded' :
             Firing(q)' /\ f[1] = current'[q] /\ f[1][1] \in destinations' =>
                Spaced(now'[q], f, recorded')
      <4> TAKE q \in Runs, f \in recorded'
      <4>1. CASE f = new
        BY <2>1, <3>11, <4>1, Zenon
      <4>2. CASE f \in recorded
        <5>1. Firing(q)' /\ f[1] = current'[q] /\ f[1][1] \in destinations' =>
                 Spaced(now[q], f, recorded)
          BY <2>1, <2>3, <4>2, Zenon DEF CooldownInv
        <5> QED
          BY <2>1, <3>5, <5>1, SpacedStays, Zenon
      <4> QED
        BY <3>5, <4>1, <4>2, Zenon
    <3>14. \A s \in sent', f \in recorded' :
             f[1] = s[1][1] /\ f[1][1] \in destinations' =>
                Spaced(s[1][2], f, recorded')
      <4> TAKE s \in sent', f \in recorded'
      <4>1. CASE f = new
        BY <2>1, <3>12, <4>1, Zenon
      <4>2. CASE f \in recorded
        <5>1. f[1] = s[1][1] /\ f[1][1] \in destinations =>
                 Spaced(s[1][2], f, recorded)
          BY <2>1, <4>2, Zenon DEF CooldownInv
        <5> QED
          BY <2>1, <3>5, <5>1, SpacedStays, Zenon
      <4> QED
        BY <3>5, <4>1, <4>2, Zenon
    <3> QED
      BY <3>9, <3>13, <3>14, Zenon DEF CooldownInv
  <2> QED
    BY <2>4, <2>5, <2>6, Zenon
<1>9. ASSUME NEW r \in Runs, Finish(r)
      PROVE  CooldownInv'
  <2>1. PICK to \in {"failed", "ended"} : End(r, to)
    BY <1>9, Zenon DEF Finish
  <2> QED
    BY <1>9, <2>1, <1>a DEF Finish, End, Goto, tableVars, AlertingTypeOK, Firing
<1>10. CASE UNCHANGED vars
  BY <1>10, <1>a, Zenon DEF vars, tableVars, runVars, historyVars, Firing
<1> QED
  BY <1>1, <1>2, <1>2b, <1>3, <1>4, <1>5, <1>6, <1>7, <1>8, <1>9, <1>10, Zenon
  DEF Next
-----------------------------------------------------------------------------
(* Nothing unsaid *)

\* The part of FoundInv about one run.
RunFound(r) ==
    /\ (~UnderWay(r) \/ pc[r] = "start") => found[r] = {}
    /\ r \notin errs =>
          \A p \in found[r] :
              p \in todo[r] \/ (Firing(r) /\ p = current[r]) \/ Said(r, p)

\* What was said stays said.
LEMMA SaidStays ==
    ASSUME NEW r \in Runs, NEW p, sent \subseteq sent', now'[r] = now[r], Said(r, p)
    PROVE  Said(r, p)'
  BY Zenon DEF Said

\* A run that does not move keeps its part.
LEMMA RunFoundStays ==
    ASSUME NEW r \in Runs, RunFound(r), sent \subseteq sent',
           pc'[r] = pc[r], now'[r] = now[r], todo'[r] = todo[r],
           current'[r] = current[r], found'[r] = found[r],
           r \in errs' <=> r \in errs
    PROVE  RunFound(r)'
<1>1. \A p \in found[r] : Said(r, p) => Said(r, p)'
  BY SaidStays, Zenon
<1> QED
  BY <1>1, Zenon DEF RunFound, UnderWay, Firing

\* An alert that all channels took, and is less than a cooldown old, is said.
LEMMA SentIsSaid ==
    ASSUME AlertingTypeOK, NEW r \in Runs, NEW p \in Pairs, NEW t \in Nat,
           SentToAll(p, t), now[r] - t < Cooldown
    PROVE  Said(r, p)
  BY Zenon DEF SentToAll, Said

\* What a run has found and is done with was said on every channel within the
\* cooldown, unless the run has collected an error.
LEMMA FoundStep ==
    ASSUME AlertingTypeOK, SentInv, FoundInv, [Next]_vars
    PROVE  FoundInv'
<1> SUFFICES ASSUME NEW q \in Runs
             PROVE  RunFound(q)'
  BY Zenon DEF FoundInv, RunFound
<1>0. RunFound(q)
  BY Zenon DEF FoundInv, RunFound
<1>1. CASE Tick
  BY <1>0, <1>1, RunFoundStays, Zenon DEF Tick, runVars, historyVars
<1>2. ASSUME NEW d \in Deliveries, NEW o \in {"succeeded", "dead_lettered"},
             Settle(d, o)
      PROVE  RunFound(q)'
  BY <1>0, <1>2, RunFoundStays, Zenon DEF Settle, runVars, historyVars
<1>2b. ASSUME NEW d \in Deliveries, ResetDeliveryForRecovery(d)
       PROVE  RunFound(q)'
  BY <1>0, <1>2b, RunFoundStays, Zenon
  DEF ResetDeliveryForRecovery, runVars, historyVars
<1>3. ASSUME NEW x \in Destinations, DeleteDestination(x)
      PROVE  RunFound(q)'
  BY <1>0, <1>3, RunFoundStays, Zenon DEF DeleteDestination, runVars, historyVars
<1>4. ASSUME NEW r \in Runs, Start(r)
      PROVE  RunFound(q)'
  <2>1. CASE q # r
    BY <1>0, <1>4, <2>1, RunFoundStays, Zenon
    DEF Start, Goto, historyVars, AlertingTypeOK
  <2>2. CASE q = r
    BY <1>0, <1>4, <2>2, Zenon
    DEF Start, Goto, historyVars, AlertingTypeOK, RunFound, UnderWay
  <2> QED
    BY <2>1, <2>2, Zenon
\* Run returns: nothing is found any more.
<1>e. ASSUME NEW r \in Runs, NEW to \in {"failed", "ended"}, End(r, to),
             UNCHANGED sent
      PROVE  RunFound(q)'
  <2>1. CASE q # r
    BY <1>0, <1>e, <2>1, RunFoundStays, Zenon DEF End, Goto, AlertingTypeOK
  <2>2. CASE q = r
    BY <1>e, <2>2, Zenon DEF End, AlertingTypeOK, RunFound
  <2> QED
    BY <2>1, <2>2, Zenon
<1>5. ASSUME NEW r \in Runs, Query(r)
      PROVE  RunFound(q)'
  <2>1. CASE /\ End(r, "failed")
             /\ UNCHANGED <<clock, tableVars, last_fired_at, sent, recorded>>
    BY <2>1, <1>e, Zenon
  <2>2. ASSUME NEW c \in Conditions,
               pc[r] = "start" \/ (pc[r] = "dlq" /\ todo[r] = {}),
               todo' = [todo EXCEPT ![r] = Due(r, c)],
               found' = [found EXCEPT ![r] = @ \cup Due(r, c)],
               Goto(r, c),
               UNCHANGED <<clock, tableVars, last_fired_at, now, current,
                           errs, sent, recorded>>
        PROVE  RunFound(q)'
    <3>1. CASE q # r
      BY <1>0, <2>2, <3>1, RunFoundStays, Zenon DEF Goto, AlertingTypeOK
    <3>2. CASE q = r
      <4>1. /\ todo'[r] = Due(r, c)
            /\ found'[r] = found[r] \cup Due(r, c)
            /\ pc'[r] = c
        BY <2>2, Zenon DEF Goto, AlertingTypeOK
      <4>2. UnderWay(r)' /\ pc'[r] # "start"
        BY <4>1, Zenon DEF UnderWay, Conditions
      \* All that was found before has been dealt with.
      <4>3. r \notin errs => \A p \in found[r] : Said(r, p)
        BY <1>0, <2>2, <3>2, Zenon DEF RunFound, Firing
      <4>4. \A p \in found[r] : Said(r, p) => Said(r, p)'
        BY <2>2, SaidStays, Zenon
      <4> QED
        BY <2>2, <3>2, <4>1, <4>2, <4>3, <4>4 DEF RunFound
    <3> QED
      BY <3>1, <3>2, Zenon
  <2> QED
    BY <1>5, <2>1, <2>2, QueryCases, Zenon
<1>6. ASSUME NEW r \in Runs, NEW p \in Pairs, ReadState(r, p)
      PROVE  RunFound(q)'
  <2>1. /\ UNCHANGED <<now, sent, found>>
        /\ todo' = [todo EXCEPT ![r] = @ \ {p}]
        /\ pc[r] \in Conditions
    BY <1>6, Zenon DEF ReadState, historyVars
  <2>2. \/ UNCHANGED <<pc, current, errs>> /\ Cooling(r, p)
        \/ /\ Goto(r, "notify")
           /\ current' = [current EXCEPT ![r] = p]
           /\ UNCHANGED errs
        \/ UNCHANGED <<pc, current>> /\ errs' = errs \cup {r}
    BY <1>6, Zenon DEF ReadState, Collect
  <2>3. CASE q # r
    BY <1>0, <2>1, <2>2, <2>3, RunFoundStays, Zenon DEF Goto, AlertingTypeOK
  <2>4. CASE q = r
    <3>1. todo'[r] = todo[r] \ {p}
      BY <2>1, Zenon DEF AlertingTypeOK
    <3>2. pc'[r] \in Conditions \cup {"notify"}
      BY <2>1, <2>2, Zenon DEF Goto, AlertingTypeOK
    <3>3. UnderWay(r)' /\ pc'[r] # "start" /\ ~Firing(r)
      BY <2>1, <3>2, Zenon DEF UnderWay, Conditions, Firing
    <3>4. \A x \in found[r] : Said(r, x) => Said(r, x)'
      BY <2>1, SaidStays, Zenon
    <3>5. r \notin errs => \A x \in found[r] : x = p \/ x \in todo'[r] \/ Said(r, x)'
      BY <1>0, <2>4, <3>1, <3>3, <3>4, Zenon DEF RunFound
    <3>6. CASE UNCHANGED <<pc, current, errs>> /\ Cooling(r, p)
      <4>1. last_fired_at[p] \in Nat /\ now[r] - last_fired_at[p] < Cooldown
        BY <3>6, Zenon DEF Cooling, AlertingTypeOK
      <4>2. SentToAll(p, last_fired_at[p])
        BY <3>6, Zenon DEF Cooling, SentInv
      <4>3. Said(r, p)'
        BY <2>1, <4>1, <4>2, SentIsSaid, SaidStays, Zenon
      <4> QED
        BY <2>1, <2>4, <3>3, <3>5, <3>6, <4>3, Zenon DEF RunFound
    <3>7. CASE /\ Goto(r, "notify")
               /\ current' = [current EXCEPT ![r] = p]
               /\ UNCHANGED errs
      <4>1. Firing(r)' /\ current'[r] = p
        BY <3>7, Zenon DEF Goto, Firing, AlertingTypeOK
      <4> QED
        BY <2>1, <2>4, <3>3, <3>5, <3>7, <4>1, Zenon DEF RunFound
    <3>8. CASE errs' = errs \cup {r}
      BY <2>4, <3>3, <3>8, Zenon DEF RunFound
    <3> QED
      BY <2>2, <3>6, <3>7, <3>8, Zenon
  <2> QED
    BY <2>3, <2>4, Zenon
<1>7. ASSUME NEW r \in Runs, NEW ok \in SUBSET Channels, Notify(r, ok)
      PROVE  RunFound(q)'
  <2>1. /\ UNCHANGED <<now, todo, found>>
        /\ sent \subseteq sent'
        /\ Firing(r) /\ current[r] \in Pairs
        /\ \/ Goto(r, "mark") /\ UNCHANGED <<current, errs>>
           \/ Done(r) /\ errs' = errs \cup {r}
    BY <1>7, Zenon DEF Notify, NotifyFailed, Collect, Firing, AlertingTypeOK
  <2>2. CASE q # r
    BY <1>0, <2>1, <2>2, RunFoundStays, Zenon DEF Goto, Done, AlertingTypeOK
  <2>3. CASE q = r
    <3>1. \A x \in found[r] : Said(r, x) => Said(r, x)'
      BY <2>1, SaidStays, Zenon
    <3>2. CASE Goto(r, "mark") /\ UNCHANGED <<current, errs>>
      <4>1. UnderWay(r)' /\ pc'[r] # "start" /\ Firing(r)'
        BY <3>2, Zenon DEF Goto, UnderWay, Firing, AlertingTypeOK
      <4> QED
        BY <1>0, <2>1, <2>3, <3>1, <3>2, <4>1, Zenon DEF RunFound
    <3>3. CASE Done(r) /\ errs' = errs \cup {r}
      <4>1. pc'[r] \in Conditions
        BY <2>1, <3>3, Zenon DEF Done, Goto, AlertingTypeOK, Pairs
      <4>2. UnderWay(r)' /\ pc'[r] # "start"
        BY <4>1, Zenon DEF UnderWay, Conditions
      <4> QED
        BY <2>3, <3>3, <4>2, Zenon DEF RunFound
    <3> QED
      BY <2>1, <3>2, <3>3, Zenon
  <2> QED
    BY <2>2, <2>3, Zenon
<1>8. ASSUME NEW r \in Runs, Mark(r)
      PROVE  RunFound(q)'
  <2>1. /\ UNCHANGED <<now, todo, sent, found>>
        /\ current[r] \in Pairs /\ SentToAll(current[r], now[r])
        /\ Done(r)
        /\ errs' \in {errs, errs \cup {r}}
    BY <1>8, Zenon DEF Mark, Collect, Firing, AlertingTypeOK, SentInv
  <2>2. CASE q # r
    BY <1>0, <2>1, <2>2, RunFoundStays, Zenon DEF Goto, Done, AlertingTypeOK
  <2>3. CASE q = r
    <3>1. \A x \in found[r] : Said(r, x) => Said(r, x)'
      BY <2>1, SaidStays, Zenon
    <3>2. now[r] \in Nat /\ now[r] - now[r] < Cooldown
      BY AlertingAssumption DEF AlertingTypeOK
    <3>3. PICK p \in Pairs : p = current[r]
      BY <2>1, Zenon
    <3>s. Said(r, p)'
      <4>1. Said(r, p)
        BY <2>1, <3>2, <3>3, SentIsSaid, Zenon
      <4> QED
        BY <2>1, <4>1, SaidStays, Zenon
    <3>4. pc'[r] \in Conditions
      BY <2>1, Zenon DEF Done, Goto, AlertingTypeOK, Pairs
    <3>5. UnderWay(r)' /\ pc'[r] # "start"
      BY <3>4, Zenon DEF UnderWay, Conditions
    <3> QED
      BY <1>0, <2>1, <2>3, <3>1, <3>3, <3>s, <3>5, Zenon DEF RunFound
  <2> QED
    BY <2>2, <2>3, Zenon
<1>9. ASSUME NEW r \in Runs, Finish(r)
      PROVE  RunFound(q)'
  BY <1>9, <1>e, Zenon DEF Finish
<1>10. CASE UNCHANGED vars
  BY <1>0, <1>10, RunFoundStays, Zenon DEF vars, runVars, historyVars
<1> QED
  BY <1>1, <1>2, <1>2b, <1>3, <1>4, <1>5, <1>6, <1>7, <1>8, <1>9, <1>10, Zenon
  DEF Next
-----------------------------------------------------------------------------
(* Results *)

\* The tables are empty and no run is under way.
LEMMA AlertingInit == Init => AlertingInv
<1> SUFFICES ASSUME Init
             PROVE  AlertingInv
  BY Zenon
<1>1. AlertingTypeOK
  BY Zenon DEF Init, AlertingTypeOK, Firing, Positions
<1>2. SentInv /\ PastInv /\ CooldownInv /\ FoundInv
  BY DEF Init, SentInv, PastInv, CooldownInv, FoundInv, UnderWay
<1> QED
  BY <1>1, <1>2, Zenon DEF AlertingInv

\* The parts of the invariant are preserved together.
LEMMA AlertingStep == AlertingInv /\ [Next]_vars => AlertingInv'
  BY AlertingTypeStep, SentStep, PastStep, CooldownStep, FoundStep, Zenon
  DEF AlertingInv

\* AlertingInv holds in every reachable state.
LEMMA AlertingInvariant == Spec => []AlertingInv
  BY AlertingInit, AlertingStep, PTL DEF Spec

\* maybeFire records a fire only after every channel took the alert: whatever
\* alert_state holds was sent, and is of a destination that exists.
THEOREM FiresWereSent == Spec => []FiredMeansSent
<1>1. AlertingInv => FiredMeansSent
  BY DEF AlertingInv, SentInv, SentToAll, FiredMeansSent
<1> QED
  BY <1>1, AlertingInvariant, PTL

\* A recorded fire binds every run of the alert check that starts later: it
\* alerts on the pair a cooldown after the fire, or after one by a run that had
\* started before the fire and was recorded over it within its timeout.
THEOREM CooldownIsKept == Spec => []CooldownKept
<1>1. AlertingInv => CooldownKept
  <2> SUFFICES ASSUME AlertingInv, NEW f \in recorded, NEW s \in sent,
                      s[1][1] = f[1], f[1][1] \in destinations, s[1][2] > f[3]
               PROVE  \/ s[1][2] - f[2] >= Cooldown
                      \/ \E g \in recorded : /\ g[1] = f[1]
                                            /\ g[2] < f[2]
                                            /\ f[3] <= g[3] /\ g[3] <= g[2] + Timeout
                                            /\ s[1][2] - g[2] >= Cooldown
    BY Zenon DEF CooldownKept
  <2>1. Spaced(s[1][2], f, recorded)
    BY Zenon DEF AlertingInv, CooldownInv
  <2> QED
    BY <2>1, Zenon DEF Spaced
<1> QED
  BY <1>1, AlertingInvariant, PTL

\* A run of the alert check that returns no error has told every channel of
\* every pair it found due, itself or by an alert less than a cooldown old.
THEOREM NothingLeftUnsaid == Spec => NothingUnsaid
<1>1. ASSUME AlertingInv, [Next]_vars,
             NEW r \in Runs, pc[r] # "ended", pc'[r] = "ended",
             NEW p \in found[r]
      PROVE  Said(r, p)
  <2>1. /\ AlertingTypeOK
        /\ r \notin errs =>
              \A x \in found[r] :
                  x \in todo[r] \/ (Firing(r) /\ x = current[r]) \/ Said(r, x)
    BY <1>1, Zenon DEF AlertingInv, FoundInv
  <2>2. Finish(r)
    <3>1. ASSUME NEW q \in Runs,
                 \/ Start(q) \/ Query(q)
                 \/ \E x \in Pairs : ReadState(q, x)
                 \/ \E ok \in SUBSET Channels : Notify(q, ok)
                 \/ Mark(q)
          PROVE  pc'[r] \in {pc[r], "start", "failed", "notify", "mark"} \cup Conditions
      <4>1. pc[q] \in {"notify", "mark"} => current[q][2] \in Conditions
        BY <2>1, Zenon DEF AlertingTypeOK, Firing, Pairs
      <4>2. Query(q) => \/ Goto(q, "failed")
                        \/ \E c \in Conditions : Goto(q, c)
        BY QueryCases, Zenon DEF End
      <4> QED
        BY <2>1, <3>1, <4>1, <4>2
        DEF Start, ReadState, Notify, Mark, Done, Goto, AlertingTypeOK
    <3>2. \A q \in Runs \ {r} : Finish(q) => pc'[r] = pc[r]
      BY <2>1 DEF Finish, End, Goto, AlertingTypeOK
    <3>3. Tick \/ UNCHANGED vars => pc' = pc
      BY Zenon DEF Tick, vars, runVars
    <3>4. \A d \in Deliveries, o \in {"succeeded", "dead_lettered"} :
             Settle(d, o) => pc' = pc
      BY Zenon DEF Settle, runVars
    <3>5. /\ \A x \in Destinations : DeleteDestination(x) => pc' = pc
          /\ \A d \in Deliveries : ResetDeliveryForRecovery(d) => pc' = pc
      BY Zenon DEF DeleteDestination, ResetDeliveryForRecovery, runVars
    <3>6. pc'[r] \notin {pc[r], "start", "failed", "notify", "mark"} \cup Conditions
      BY <1>1, Zenon DEF Conditions
    <3> QED
      BY <1>1, <3>1, <3>2, <3>3, <3>4, <3>5, <3>6, Zenon DEF Next
  <2>3. r \notin errs /\ todo[r] = {} /\ ~Firing(r)
    BY <1>1, <2>1, <2>2, Zenon DEF Finish, End, Goto, AlertingTypeOK, Firing
  <2> QED
    BY <1>1, <2>1, <2>3, Zenon
<1>2. AlertingInv /\ [Next]_vars =>
        [\A r \in Runs : pc[r] # "ended" /\ pc'[r] = "ended" =>
            \A p \in found[r], c \in Channels :
                \E s \in sent : /\ s[1][1] = p
                                /\ s[2] = c
                                /\ now[r] - s[1][2] < Cooldown]_vars
  BY <1>1 DEF Said
<1> QED
  BY <1>2, AlertingInvariant, PTL DEF Spec, NothingUnsaid
=============================================================================
