------------------------------ MODULE Alerting ------------------------------
(***************************************************************************)
(* The periodic alert check (internal/alerting): each run reads the        *)
(* deliveries that were settled within the window, decides per destination *)
(* and condition whether an alert is due, notifies every configured        *)
(* channel and records the time in alert_state.                            *)
(*                                                                         *)
(* Runs may overlap: River starts one every minute, and one that returned  *)
(* an error is tried again later, here as another run.  A step is one      *)
(* query or one notification.  The context of a run expires Timeout after  *)
(* its start (River's job timeout); queries fail from then on, and of the  *)
(* channels only SMTP, which ignores the context, can still deliver.  A    *)
(* run that crashes is one that takes no further step; one that cannot     *)
(* load its configuration, or finds alerting off, never starts.            *)
(***************************************************************************)
EXTENDS Integers, FiniteSets, FiniteSetsExt

CONSTANTS
    MaxRuns,         \* bound: executions of the alert_check job
    MaxOverlap,      \* bound: those under way at once
    Destinations,
    Deliveries,
    DestinationOf,   \* deliveries.destination_id
    Channels,        \* what buildNotifier assembles
    Smtp,            \* the channels that ignore the context
    Window, Cooldown, MinDeliveries,
    Num, Den,        \* FailureThreshold is Num / Den; 0 disables it
    Timeout,
    Instants,        \* bound: the times at which something happens
    MaxSettled,      \* bound: outcomes recorded by the delivery workers
    MaxFaults        \* bound: failed queries and notifications, deletions

ASSUME AlertingAssumption ==
    /\ DestinationOf \in [Deliveries -> Destinations]
    /\ Smtp \subseteq Channels /\ Channels # {}
    /\ {Window, Cooldown, MinDeliveries, Den} \subseteq Nat \ {0}
    /\ {MaxRuns, MaxOverlap, Num, Timeout, MaxSettled, MaxFaults} \subseteq Nat
    /\ Instants \subseteq Nat /\ IsFiniteSet(Instants) /\ 0 \in Instants

Runs == 1..MaxRuns

Conditions == {"dlq", "failure_rate"}
Pairs == Destinations \X Conditions
Never == -1
NoPair == <<>>

VARIABLES
    clock,
    \* tables: destinations, deliveries.status with the time it was set,
    \* alert_state
    destinations, status, updated_at, last_fired_at,
    \* each run: position (in a loop: its condition), start, pairs still to
    \* look at, pair being fired, whether an error was collected
    pc, now, todo, current, errs,
    \* history: alerts accepted by a channel, fires recorded (pair, start of
    \* the run, time of the record), pairs a run found due, and the bounded
    \* numbers of outcomes and faults
    sent, recorded, found, settled, faults

tableVars == <<destinations, status, updated_at>>
runVars == <<pc, now, todo, current, errs>>
historyVars == <<sent, recorded, found>>

vars == <<clock, tableVars, last_fired_at, runVars, historyVars, settled,
          faults>>
-----------------------------------------------------------------------------
Init ==
    /\ clock = 0
    /\ destinations = Destinations
    /\ status = [d \in Deliveries |-> "pending"]
    /\ updated_at = [d \in Deliveries |-> 0]
    /\ last_fired_at = [p \in Pairs |-> Never]
    /\ pc = [r \in Runs |-> "idle"]
    /\ now = [r \in Runs |-> 0]
    /\ todo = [r \in Runs |-> {}]
    /\ current = [r \in Runs |-> NoPair]
    /\ errs = {}
    /\ sent = {}
    /\ recorded = {}
    /\ found = [r \in Runs |-> {}]
    /\ settled = 0
    /\ faults = 0

Expired(r) == clock > now[r] + Timeout

UnderWay(r) == pc[r] \notin {"idle", "ended", "failed"}

\* A query of r goes through, or fails.
Succeeds(r) == ~Expired(r) /\ faults' = faults
Fault == faults < MaxFaults /\ faults' = faults + 1
Fails(r) == IF Expired(r) THEN faults' = faults ELSE Fault

Tick ==
    /\ \E t \in Instants : t > clock
    /\ clock' = Min({t \in Instants : t > clock})
    /\ UNCHANGED <<tableVars, last_fired_at, runVars, historyVars, settled,
                   faults>>
-----------------------------------------------------------------------------
(* The deliveries *)

\* A worker settles a delivery.
Settle(d, outcome) ==
    /\ settled < MaxSettled
    /\ settled' = settled + 1
    /\ DestinationOf[d] \in destinations
    /\ status[d] = "pending"
    /\ status' = [status EXCEPT ![d] = outcome]
    /\ updated_at' = [updated_at EXCEPT ![d] = clock]
    /\ UNCHANGED <<clock, destinations, last_fired_at, runVars, historyVars,
                   faults>>

\* The recover endpoint puts it back.
ResetDeliveryForRecovery(d) ==
    /\ DestinationOf[d] \in destinations
    /\ status[d] = "dead_lettered"
    /\ status' = [status EXCEPT ![d] = "pending"]
    /\ updated_at' = [updated_at EXCEPT ![d] = clock]
    /\ UNCHANGED <<clock, destinations, last_fired_at, runVars, historyVars,
                   settled, faults>>

\* The deliveries and the alert_state of a destination go with it.  Counted
\* as a fault, to bound it.
DeleteDestination(x) ==
    /\ x \in destinations
    /\ Fault
    /\ destinations' = destinations \ {x}
    /\ last_fired_at' = [p \in Pairs |->
                            IF p[1] = x THEN Never ELSE last_fired_at[p]]
    /\ UNCHANGED <<clock, status, updated_at, runVars, historyVars, settled>>

\* Rows of existing destinations that were settled since t.
Since(x, statuses, t) ==
    {d \in Deliveries : /\ DestinationOf[d] = x
                        /\ status[d] \in statuses
                        /\ updated_at[d] >= t}

\* The query compares dead_lettered_at, which RecordDeliveryOutcome sets
\* together with updated_at: they are equal while the status is dead_lettered.
DeadLetteredSince(t) ==
    {x \in destinations : Since(x, {"dead_lettered"}, t) # {}}

DeliveryFailureRatesSince(x, t) ==
    [total |-> Cardinality(Since(x, {"succeeded", "dead_lettered"}, t)),
     failures |-> Cardinality(Since(x, {"dead_lettered"}, t))]

\* The rates over the two thresholds.
FailingSince(t) ==
    {x \in destinations :
        LET rate == DeliveryFailureRatesSince(x, t) IN
        /\ rate.total > 0 /\ rate.total >= MinDeliveries
        /\ rate.failures * Den >= Num * rate.total}
-----------------------------------------------------------------------------
(* CheckWorker.Work and Evaluator.Run *)

Goto(r, to) == pc' = [pc EXCEPT ![r] = to]
Collect(r) == errs' = errs \cup {r}

\* The end of maybeFire for the current pair: back to the loop of its condition.
Done(r) ==
    /\ Goto(r, current[r][2])
    /\ current' = [current EXCEPT ![r] = NoPair]

\* LoadConfig and the time of the run.  Runs are numbered in the order they
\* start.
Start(r) ==
    /\ pc[r] = "idle"
    /\ Cardinality({q \in Runs : UnderWay(q)}) < MaxOverlap
    /\ \A q \in Runs : q < r => pc[q] # "idle"
    /\ Goto(r, "start")
    /\ now' = [now EXCEPT ![r] = clock]
    /\ UNCHANGED <<clock, tableVars, last_fired_at, todo, current,
                   errs, historyVars, settled, faults>>

\* Run returns; what it held is gone.
End(r, to) ==
    /\ Goto(r, to)
    /\ todo' = [todo EXCEPT ![r] = {}]
    /\ current' = [current EXCEPT ![r] = NoPair]
    /\ errs' = errs \ {r}
    /\ now' = [now EXCEPT ![r] = 0]
    /\ found' = [found EXCEPT ![r] = {}]

\* The next query of Run, for a condition whose predecessor is done; its error
\* ends the run.
Query(r) ==
    LET since == now[r] - Window
        c == IF pc[r] = "start" THEN "dlq" ELSE "failure_rate"
        due == (IF c = "dlq" THEN DeadLetteredSince(since)
                             ELSE FailingSince(since)) \X {c} IN
    /\ \/ pc[r] = "start"
       \/ pc[r] = "dlq" /\ todo[r] = {} /\ Num > 0
    /\ \/ /\ Succeeds(r)
          /\ todo' = [todo EXCEPT ![r] = due]
          /\ found' = [found EXCEPT ![r] = @ \cup due]
          /\ Goto(r, c)
          /\ UNCHANGED <<now, current, errs>>
       \/ Fails(r) /\ End(r, "failed")
    /\ UNCHANGED <<clock, tableVars, last_fired_at, sent, recorded, settled>>

\* Mutant: the cooldown is over a tick too early.
CoolingShort(r, p) ==
    last_fired_at[p] # Never /\ now[r] - last_fired_at[p] < Cooldown - 1

Cooling(r, p) ==
    last_fired_at[p] # Never /\ now[r] - last_fired_at[p] < Cooldown

\* maybeFire: GetAlertLastFired.
ReadState(r, p) ==
    /\ pc[r] \in Conditions
    /\ p \in todo[r]
    /\ todo' = [todo EXCEPT ![r] = @ \ {p}]
    /\ \/ Succeeds(r) /\ Cooling(r, p) /\ UNCHANGED <<pc, current, errs>>
       \/ /\ Succeeds(r) /\ ~Cooling(r, p)
          /\ Goto(r, "notify")
          /\ current' = [current EXCEPT ![r] = p]
          /\ UNCHANGED errs
       \/ Fails(r) /\ Collect(r) /\ UNCHANGED <<pc, current>>
    /\ UNCHANGED <<clock, tableVars, last_fired_at, now,
                   historyVars, settled>>

\* Mutant: an alert counts as sent when some channel has taken it.
SomeChannel(ok) == ok # {}

\* multiNotifier joins the errors of its channels.
EveryChannel(ok) == ok = Channels

\* Mutant: an alert that was not sent is only logged.
CollectNothing(r) == UNCHANGED errs

\* The error of maybeFire is appended to those of the run.
NotifyFailed(r) == Collect(r)

\* maybeFire: Notify tries every channel; those in ok take the alert.
Notify(r, ok) ==
    /\ pc[r] = "notify"
    /\ Expired(r) => ok \subseteq Smtp
    /\ sent' = sent \cup ({<<current[r], now[r]>>} \X ok)
    /\ IF ok = Channels \/ Expired(r) THEN faults' = faults ELSE Fault
    /\ IF EveryChannel(ok)
       THEN Goto(r, "mark") /\ UNCHANGED <<current, errs>>
       ELSE Done(r) /\ NotifyFailed(r)
    /\ UNCHANGED <<clock, tableVars, last_fired_at, now, todo,
                   recorded, found, settled>>

\* The upsert, whose foreign key wants the destination.
MarkAlertFired(p, t) ==
    /\ p[1] \in destinations
    /\ last_fired_at' = [last_fired_at EXCEPT ![p] = t]

\* maybeFire: MarkAlertFired, which fails when the destination is gone, and
\* may be applied although its reply is lost.
Mark(r) ==
    LET p == current[r]
        write == /\ MarkAlertFired(p, now[r])
                 /\ recorded' = recorded \cup {<<p, now[r], clock>>} IN
    /\ pc[r] = "mark"
    /\ \/ Succeeds(r) /\ write /\ UNCHANGED errs
       \/ ~Expired(r) /\ Fault /\ write /\ Collect(r)
       \/ /\ IF p[1] \in destinations THEN Fails(r) ELSE faults' = faults
          /\ Collect(r)
          /\ UNCHANGED <<last_fired_at, recorded>>
    /\ Done(r)
    /\ UNCHANGED <<clock, tableVars, now, todo, sent, found, settled>>

\* Run returns the errors it has joined.
Finish(r) ==
    /\ pc[r] = IF Num > 0 THEN "failure_rate" ELSE "dlq"
    /\ todo[r] = {}
    /\ End(r, IF r \in errs THEN "failed" ELSE "ended")
    /\ UNCHANGED <<clock, tableVars, last_fired_at, sent, recorded, settled,
                   faults>>
-----------------------------------------------------------------------------
Next ==
    \/ Tick
    \/ \E d \in Deliveries, o \in {"succeeded", "dead_lettered"} :
          Settle(d, o)
    \/ \E d \in Deliveries : ResetDeliveryForRecovery(d)
    \/ \E x \in Destinations : DeleteDestination(x)
    \/ \E r \in Runs :
          \/ Start(r)
          \/ Query(r)
          \/ \E p \in Pairs : ReadState(r, p)
          \/ \E ok \in SUBSET Channels : Notify(r, ok)
          \/ Mark(r)
          \/ Finish(r)

Spec == Init /\ [][Next]_vars
-----------------------------------------------------------------------------
(* Properties *)

\* "It only records the fire after a successful notify, so a failed send is
\* retried on the next run rather than silently cooled down": what
\* alert_state holds was taken by every channel, and is of destinations that
\* exist.
FiredMeansSent ==
    \A p \in Pairs : last_fired_at[p] # Never =>
        /\ {<<p, last_fired_at[p]>>} \X Channels \subseteq sent
        /\ p[1] \in destinations

\* A fire that was recorded binds every run that starts later, while the
\* destination exists: such a run alerts on the pair no earlier than a cooldown
\* after the fire, unless a run that had started before the fire recorded its
\* own on top of it, at most Timeout after its start; then that one is a
\* cooldown old.
CooldownKept ==
    \A f \in recorded, s \in sent :
        s[1][1] = f[1] /\ f[1][1] \in destinations /\ s[1][2] > f[3] =>
            \/ s[1][2] - f[2] >= Cooldown
            \/ \E g \in recorded : /\ g[1] = f[1]
                                  /\ g[2] < f[2]
                                  /\ f[3] <= g[3] /\ g[3] <= g[2] + Timeout
                                  /\ s[1][2] - g[2] >= Cooldown

\* "CooldownMinutes is the minimum gap between two alerts for the same
\* destination+condition": fires of a pair by runs that started at different
\* times lie a cooldown apart.
CooldownIsMinimumGap ==
    \A f, g \in recorded :
        f[1] = g[1] /\ f[2] < g[2] => g[2] - f[2] >= Cooldown

\* A run that ends without an error leaves nothing unsaid: every channel has
\* an alert, less than a cooldown old, of each pair the run found due.
NothingUnsaid ==
    [][\A r \in Runs : pc[r] # "ended" /\ pc'[r] = "ended" =>
          \A p \in found[r], c \in Channels :
              \E s \in sent : /\ s[1][1] = p
                              /\ s[2] = c
                              /\ now[r] - s[1][2] < Cooldown]_vars
=============================================================================
