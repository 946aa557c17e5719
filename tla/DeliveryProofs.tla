--------------------------- MODULE DeliveryProofs ---------------------------
(***************************************************************************)
(* Machine-checked proofs about Delivery, for every set of deliveries,     *)
(* destinations and requests, every policy and every number of jobs and    *)
(* faults: type correctness; the attempts of a delivery are its numbered   *)
(* history and the newest explains its status; no job dispatches more      *)
(* often than its max_attempts; and an open delivery has a job that drives *)
(* it, unless one was discarded.                                           *)
(* Where nothing fails and recoveries do not overlap, a delivery whose job *)
(* gave up is dead-lettered, its status follows the lifecycle (only a      *)
(* dead-lettered delivery is recovered), and nothing is dispatched after a *)
(* success; the last also holds with faults, where nobody recovers.        *)
(***************************************************************************)
EXTENDS Delivery, TLAPS

USE DEF destinationVars, deliveryVars, jobVars, runVars, requestVars
-----------------------------------------------------------------------------
(* Type correctness *)

\* A Work call that has not ended works a running job of some delivery.
LEMMA WorkedJob ==
    ASSUME JobsOK, RunsOK, NEW j \in Jobs, pc[j] # "idle"
    PROVE  state[j] = "running" /\ delivery_id[j] \in Deliveries
BY Zenon DEF JobsOK, RunsOK

\* A Work call that reads goes on to its next step or decides what to return.
LEMMA WorkGoesOn ==
    ASSUME RunsOK, NEW j \in Jobs, pc[j] # "idle", state' = state,
           \/ \E v \in Verdicts : Return(j, v)
           \/ \E to \in {"destination", "dispatch"} : Goto(j, to)
    PROVE  RunsOK'
<1>1. CASE \E v \in Verdicts : Return(j, v)
  BY <1>1 DEF RunsOK, Return, PCs, Results
<1>2. CASE \E to \in {"destination", "dispatch"} : Goto(j, to)
  BY <1>2 DEF RunsOK, Goto, PCs
<1> QED
  BY <1>1, <1>2, Zenon

\* The policy that InsertDeliveryJob clamps is an integer.
LEMMA PolicyIsInt ==
    ASSUME DestinationsOK, NEW d \in Deliveries
    PROVE  policy[DestinationOf[d]] \in Int
BY ConstantsAssumption, Zenon DEF DestinationsOK

\* deliveryStatus returns one of the statuses a worker writes.
LEMMA StatusType ==
    ASSUME NEW result \in Results, NEW n, NEW max
    PROVE  DeliveryStatus(result, n, max) \in
              {"succeeded", "failed", "dead_lettered"}
BY Zenon DEF Results, DeliveryStatus

\* River never leaves a job it has settled running, nor takes its row away.
LEMMA SettledType ==
    ASSUME RunsOK, NEW j \in Jobs, pc[j] = "return"
    PROVE  Settled(j) \in {"queued", "completed", "cancelled", "discarded"}
BY Zenon DEF RunsOK, Verdicts, Settled, AfterError

\* Every action preserves TypeOK.
LEMMA TypeStep == TypeOK /\ [Next]_vars => TypeOK'
<1> USE ConstantsAssumption
    DEF Jobs, Results, Verdicts, Statuses, JobStates, PCs
<1> SUFFICES ASSUME TypeOK, [Next]_vars PROVE TypeOK'
  BY Zenon
<1>0. /\ DestinationsOK /\ DeliveriesOK /\ JobsOK
      /\ RunsOK /\ RequestsOK /\ HistoryOK
  BY Zenon DEF TypeOK
<1> USE <1>0
<1>1. ASSUME NEW j \in Jobs, NEW d \in Deliveries, Enqueue(d, j)
     PROVE  TypeOK'
  <2>1. DeliveriesOK'
    BY <1>1 DEF DeliveriesOK, AttemptRow, Enqueue, InsertDeliveryJob
  <2>2. JobsOK'
    BY <1>1, PolicyIsInt DEF JobsOK, Enqueue, InsertDeliveryJob
  <2>3. RunsOK'
    BY <1>1, Zenon DEF RunsOK, JobsOK, Enqueue, InsertDeliveryJob
  <2> QED
    BY <1>1, <2>1, <2>2, <2>3, Zenon
    DEF Enqueue, InsertDeliveryJob, TypeOK, DestinationsOK, RequestsOK,
        HistoryOK
<1>2. ASSUME NEW j \in Jobs, NEW r \in Requests, RecoverCommit(r, j)
     PROVE  TypeOK'
  <2>1. DeliveriesOK'
    BY <1>2
    DEF DeliveriesOK, AttemptRow, RequestsOK, Exists, RecoverCommit,
        InsertDeliveryJob, RequestAt, Answer
  <2>2. JobsOK'
    BY <1>2
    DEF JobsOK, RequestsOK, RecoverCommit, InsertDeliveryJob, RequestAt,
        Answer
  <2>3. RunsOK'
    BY <1>2, Zenon
    DEF RunsOK, JobsOK, RecoverCommit, InsertDeliveryJob, RequestAt,
        Answer
  <2>4. RequestsOK'
    BY <1>2
    DEF RequestsOK, RecoverCommit, InsertDeliveryJob, RequestAt, Answer
  <2> QED
    BY <1>2, <2>1, <2>2, <2>3, <2>4, Zenon
    DEF RecoverCommit, InsertDeliveryJob, TypeOK, DestinationsOK,
        HistoryOK
<1>3. ASSUME NEW j \in Jobs, Fetch(j)
     PROVE  TypeOK'
  <2>1. JobsOK'
    BY <1>3 DEF JobsOK, Fetch, Goto
  <2>2. RunsOK'
    BY <1>3 DEF RunsOK, JobsOK, Fetch, Goto
  <2> QED
    BY <1>3, <2>1, <2>2, Zenon
    DEF Fetch, TypeOK, DestinationsOK, DeliveriesOK, RequestsOK, HistoryOK
<1>4. ASSUME NEW j \in Jobs, LoadDelivery(j)
     PROVE  TypeOK'
  <2>1. RunsOK'
    <3>1. /\ pc[j] # "idle" /\ state' = state
          /\ Return(j, "nil") \/ Goto(j, "destination")
      BY <1>4, Zenon DEF LoadDelivery
    <3> QED
      BY <3>1, WorkGoesOn, Zenon DEF Verdicts
  <2> QED
    BY <1>4, <2>1, Zenon
    DEF LoadDelivery, TypeOK, DestinationsOK, DeliveriesOK, JobsOK,
        RequestsOK, HistoryOK
<1>5. ASSUME NEW j \in Jobs, LoadDestination(j)
     PROVE  TypeOK'
  <2>1. RunsOK'
    <3>1. /\ pc[j] # "idle" /\ state' = state
          /\ \/ \E v \in {"nil", "snooze"} : Return(j, v)
             \/ Goto(j, "dispatch")
      BY <1>5, Zenon DEF LoadDestination
    <3> QED
      BY <3>1, WorkGoesOn, Zenon DEF Verdicts
  <2> QED
    BY <1>5, <2>1, Zenon
    DEF LoadDestination, TypeOK, DestinationsOK, DeliveriesOK, JobsOK,
        RequestsOK, HistoryOK
<1>6. ASSUME NEW j \in Jobs, Dispatch(j)
     PROVE  TypeOK'
  <2>1. RunsOK'
    BY <1>6 DEF RunsOK, Dispatch
  <2>2. HistoryOK'
    <3>1. dispatched' \in [Jobs -> Nat]
      BY <1>6 DEF HistoryOK, Dispatch
    <3> QED
      BY <1>6, <3>1, Zenon DEF HistoryOK, Dispatch
  <2> QED
    BY <1>6, <2>1, <2>2, Zenon
    DEF Dispatch, TypeOK, DestinationsOK, DeliveriesOK, JobsOK, RequestsOK
<1>7. ASSUME NEW j \in Jobs, RecordAttempt(j)
     PROVE  TypeOK'
  <2>1. DeliveriesOK'
    <3>0. pc[j] = "record"
      BY <1>7, Zenon DEF RecordAttempt
    <3>1. delivery_id[j] \in Deliveries /\ out[j] \in Results
      BY <3>0, WorkedJob, Zenon DEF RunsOK
    <3>2. DeliveryStatus(out[j], attempt[j], max_attempts[j]) \in Statuses
      BY <3>1, StatusType DEF JobsOK
    <3>3. CASE UNCHANGED <<deliveryVars, attempts>>
      BY <3>3, Zenon DEF DeliveriesOK
    <3>4. CASE RecordOutcome(delivery_id[j],
                  DeliveryStatus(out[j], attempt[j], max_attempts[j]), out[j])
               /\ river_job_id' = river_job_id
      <4>1. status' \in [Deliveries -> Statuses]
        BY <3>2, <3>4, Zenon DEF DeliveriesOK, RecordOutcome
      <4>2. attempt_count' \in [Deliveries -> Nat]
        <5>1. attempt_count' = [attempt_count EXCEPT
                                   ![delivery_id[j]] = @ + 1]
          BY <3>4, Zenon DEF RecordOutcome
        <5>2. attempt_count \in [Deliveries -> Nat]
          BY Zenon DEF DeliveriesOK
        <5>3. attempt_count[delivery_id[j]] + 1 \in Nat
          BY <3>1, <5>2
        <5> QED
          BY <5>1, <5>2, <5>3, Zenon
      <4>3. dead_lettered_at' \subseteq Deliveries
        BY <3>1, <3>4, Zenon DEF DeliveriesOK, RecordOutcome
      <4>4. attempts' \subseteq AttemptRow
        BY <3>1, <3>4 DEF DeliveriesOK, RecordOutcome, AttemptRow
      <4> QED
        BY <3>4, <4>1, <4>2, <4>3, <4>4, Zenon DEF DeliveriesOK
    <3> QED
      BY <1>7, <3>3, <3>4, Zenon DEF RecordAttempt
  <2>2. RunsOK'
    <3>1. out[j] \in Results /\ pc[j] = "record"
      BY <1>7, Zenon DEF RunsOK, RecordAttempt
    <3>2. Outcome(out[j]) \in Verdicts /\ "error" \in Verdicts
      BY <3>1, Zenon DEF Outcome
    <3>3. \E v \in Verdicts : Return(j, v)
      BY <1>7, <3>2, Zenon DEF RecordAttempt
    <3>4. state' = state
      BY <1>7, Zenon DEF RecordAttempt
    <3> QED
      BY <3>1, <3>3, <3>4 DEF RunsOK, Return
  <2>3. HistoryOK'
    BY <1>7
    DEF HistoryOK, RecordAttempt, Fault
  <2> QED
    BY <1>7, <2>1, <2>2, <2>3, Zenon
    DEF RecordAttempt, TypeOK, DestinationsOK, JobsOK, RequestsOK
<1>8. ASSUME NEW j \in Jobs, Complete(j)
     PROVE  TypeOK'
  <2>1. JobsOK'
    <3>1. pc[j] = "return" /\ delivery_id[j] \in Deliveries
      BY <1>8, WorkedJob, Zenon DEF Complete
    <3>2. Settled(j) \in JobStates
      BY <3>1, SettledType, Zenon
    <3>3. /\ state' \in [Jobs -> JobStates]
          /\ \A i \in Jobs : i # j => state'[i] = state[i]
      BY <1>8, <3>2, Zenon DEF JobsOK, Complete
    <3>4. attempt' \in [Jobs -> Int]
      BY <1>8 DEF JobsOK, Complete
    <3>5. UNCHANGED <<delivery_id, max_attempts>>
      BY <1>8, Zenon DEF Complete
    <3> QED
      BY <3>1, <3>3, <3>4, <3>5, Zenon DEF JobsOK
  <2>2. RunsOK'
    BY <1>8, Zenon DEF RunsOK, JobsOK, Complete, Settled, AfterError, Goto
  <2> QED
    BY <1>8, <2>1, <2>2, Zenon
    DEF Complete, TypeOK, DestinationsOK, DeliveriesOK, RequestsOK,
        HistoryOK
<1>9. ASSUME NEW j \in Jobs, DatabaseFails(j)
     PROVE  TypeOK'
  <2>1. RunsOK'
    BY <1>9, Zenon DEF RunsOK, DatabaseFails, Return, Fault
  <2>2. HistoryOK'
    BY <1>9 DEF HistoryOK, DatabaseFails, Return, Fault
  <2> QED
    BY <1>9, <2>1, <2>2, Zenon
    DEF DatabaseFails, TypeOK, DestinationsOK, DeliveriesOK, JobsOK,
        RequestsOK
<1>10. ASSUME NEW j \in Jobs, Crash(j)
     PROVE  TypeOK'
  <2>1. RunsOK'
    BY <1>10, Zenon DEF RunsOK, Crash, Goto, Fault
  <2>2. HistoryOK'
    BY <1>10 DEF HistoryOK, Crash, Goto, Fault
  <2> QED
    BY <1>10, <2>1, <2>2, Zenon
    DEF Crash, TypeOK, DestinationsOK, DeliveriesOK, JobsOK, RequestsOK
<1>11. ASSUME NEW j \in Jobs, Rescue(j)
     PROVE  TypeOK'
  <2>1. JobsOK'
    BY <1>11, Zenon DEF JobsOK, Rescue, AfterError
  <2>2. RunsOK'
    BY <1>11, Zenon DEF RunsOK, JobsOK, Rescue, AfterError
  <2> QED
    BY <1>11, <2>1, <2>2, Zenon
    DEF Rescue, TypeOK, DestinationsOK, DeliveriesOK, RequestsOK,
        HistoryOK
<1>12. ASSUME NEW r \in Requests, NEW d \in Deliveries, RecoverLoad(r, d)
     PROVE  TypeOK'
  <2>1. RequestsOK'
    BY <1>12 DEF RequestsOK, RecoverLoad, RequestAt
  <2> QED
    BY <1>12, <2>1, Zenon
    DEF RecoverLoad, TypeOK, DestinationsOK, DeliveriesOK, JobsOK, RunsOK,
        HistoryOK
<1>13. ASSUME NEW r \in Requests, RecoverDestination(r)
     PROVE  TypeOK'
  <2>1. RequestsOK'
    BY <1>13, PolicyIsInt
    DEF RequestsOK, RecoverDestination, RequestAt, Answer
  <2> QED
    BY <1>13, <2>1, Zenon
    DEF RecoverDestination, TypeOK, DestinationsOK, DeliveriesOK, JobsOK,
        RunsOK, HistoryOK
<1>14. ASSUME NEW r \in Requests, RecoverFails(r)
     PROVE  TypeOK'
  <2>1. RequestsOK'
    BY <1>14 DEF RequestsOK, RecoverFails, RequestAt, Answer, Fault
  <2>2. HistoryOK'
    BY <1>14 DEF HistoryOK, RecoverFails, RequestAt, Answer, Fault
  <2> QED
    BY <1>14, <2>1, <2>2, Zenon
    DEF RecoverFails, TypeOK, DestinationsOK, DeliveriesOK, JobsOK, RunsOK
<1>15. ASSUME NEW x \in Destinations, NEW m \in Policies, UpdateDestination(x,
   m)
     PROVE  TypeOK'
  <2>1. DestinationsOK'
    BY <1>15, Zenon DEF DestinationsOK, UpdateDestination
  <2> QED
    BY <1>15, <2>1, Zenon
    DEF UpdateDestination, TypeOK, DeliveriesOK, JobsOK, RunsOK,
        RequestsOK, HistoryOK
<1>16. ASSUME NEW x \in Destinations, PauseDestination(x)
     PROVE  TypeOK'
  <2>1. DestinationsOK'
    BY <1>16, Zenon DEF DestinationsOK, PauseDestination
  <2> QED
    BY <1>16, <2>1, Zenon
    DEF PauseDestination, TypeOK, DeliveriesOK, JobsOK, RunsOK,
        RequestsOK, HistoryOK
<1>17. ASSUME NEW x \in Destinations, ResumeDestination(x)
     PROVE  TypeOK'
  <2>1. DestinationsOK'
    BY <1>17, Zenon DEF DestinationsOK, ResumeDestination
  <2> QED
    BY <1>17, <2>1, Zenon
    DEF ResumeDestination, TypeOK, DeliveriesOK, JobsOK, RunsOK,
        RequestsOK, HistoryOK
<1>18. ASSUME NEW x \in Destinations, DeleteDestination(x)
     PROVE  TypeOK'
  <2>1. DestinationsOK'
    BY <1>18, Zenon DEF DestinationsOK, DeleteDestination
  <2>2. DeliveriesOK'
    BY <1>18, Zenon DEF DeliveriesOK, AttemptRow, Exists, DeleteDestination
  <2> QED
    BY <1>18, <2>1, <2>2, Zenon
    DEF DeleteDestination, TypeOK, JobsOK, RunsOK, RequestsOK, HistoryOK
<1>19. CASE UNCHANGED vars
  BY <1>19, Zenon
  DEF vars, TypeOK, DestinationsOK, DeliveriesOK, JobsOK, RunsOK,
      RequestsOK, HistoryOK
<1> QED
  BY <1>1, <1>2, <1>3, <1>4, <1>5, <1>6, <1>7, <1>8, <1>9, <1>10, <1>11, <1>12,
     <1>13, <1>14, <1>15, <1>16, <1>17, <1>18, <1>19, Zenon
  DEF Next, WorkerStep

\* Type correctness of the deliveries, their jobs, the worker (Work) and the
\* recover endpoint, in every interleaving, crash and retry.
THEOREM TypeCorrect == Spec => []TypeOK
<1>1. Init => TypeOK
  BY ConstantsAssumption
  DEF Init, TypeOK, DestinationsOK, DeliveriesOK, JobsOK, RunsOK, RequestsOK,
      HistoryOK, Jobs, Results, Verdicts, Statuses, JobStates, PCs
<1> QED
  BY <1>1, TypeStep, PTL DEF Spec
-----------------------------------------------------------------------------
(* The ledger of attempts *)

\* Strengthening: a delivery without a row has no attempts, and one that was
\* never inserted has counted none.
LedgerInv ==
    /\ \A d \in Deliveries : ~Exists(d) => AttemptsOf(d) = {}
    /\ \A d \in Deliveries : status[d] = "none" => attempt_count[d] = 0
    /\ AttemptsNumbered
    /\ StatusExplained

\* Only four actions write the tables the ledger is about.
LEMMA LedgerWriters ==
    ASSUME [Next]_vars
    PROVE  \/ UNCHANGED <<status, attempt_count, attempts>>
           \/ \E j \in Jobs :
                 \/ \E d \in Deliveries : Enqueue(d, j)
                 \/ \E r \in Requests : RecoverCommit(r, j)
                 \/ RecordAttempt(j)
           \/ \E x \in Destinations : DeleteDestination(x)
<1>1. ASSUME NEW j \in Jobs,
             \/ Fetch(j) \/ LoadDelivery(j) \/ LoadDestination(j)
             \/ Dispatch(j) \/ Complete(j)
      PROVE  UNCHANGED <<status, attempt_count, attempts>>
  BY <1>1, Zenon
  DEF Fetch, LoadDelivery, LoadDestination, Dispatch, Complete
<1>2. ASSUME NEW j \in Jobs, DatabaseFails(j) \/ Crash(j) \/ Rescue(j)
      PROVE  UNCHANGED <<status, attempt_count, attempts>>
  BY <1>2, Zenon DEF DatabaseFails, Crash, Rescue
<1>3. ASSUME NEW r \in Requests,
             \/ \E d \in Deliveries : RecoverLoad(r, d)
             \/ RecoverDestination(r)
             \/ RecoverFails(r)
      PROVE  UNCHANGED <<status, attempt_count, attempts>>
  BY <1>3, Zenon DEF RecoverLoad, RecoverDestination, RecoverFails
<1>4. ASSUME NEW x \in Destinations,
             \/ \E m \in Policies : UpdateDestination(x, m)
             \/ PauseDestination(x)
             \/ ResumeDestination(x)
      PROVE  UNCHANGED <<status, attempt_count, attempts>>
  BY <1>4, Zenon DEF UpdateDestination, PauseDestination, ResumeDestination
<1>5. CASE UNCHANGED vars
  BY <1>5, Zenon DEF vars
<1> QED
  BY <1>1, <1>2, <1>3, <1>4, <1>5, Zenon DEF Next, WorkerStep

\* Every action preserves the ledger.
LEMMA LedgerStep == TypeOK /\ LedgerInv /\ [Next]_vars => LedgerInv'
<1> SUFFICES ASSUME TypeOK, LedgerInv, [Next]_vars PROVE LedgerInv'
  BY Zenon
<1>1. CASE UNCHANGED <<status, attempt_count, attempts>>
  <2>1. \A e \in Deliveries : /\ AttemptsOf(e)' = AttemptsOf(e)
                              /\ Exists(e)' <=> Exists(e)
    BY <1>1, Zenon DEF AttemptsOf, Exists
  <2>2. AttemptsNumbered'
    BY <1>1, <2>1 DEF LedgerInv, AttemptsNumbered
  <2>3. StatusExplained'
    BY <1>1, <2>1, Zenon DEF LedgerInv, StatusExplained
  <2> QED
    BY <1>1, <2>1, <2>2, <2>3, Zenon DEF LedgerInv
<1>2. ASSUME NEW j \in Jobs, NEW d \in Deliveries, Enqueue(d, j)
      PROVE  LedgerInv'
  <2>1. AttemptsOf(d) = {} /\ attempt_count[d] = 0
    BY <1>2, Zenon DEF Enqueue, LedgerInv, Exists
  <2>2. \A e \in Deliveries : AttemptsOf(e)' = AttemptsOf(e)
    BY <1>2, Zenon DEF Enqueue, AttemptsOf
  <2>3. /\ attempt_count' = attempt_count
        /\ status' = [status EXCEPT ![d] = "pending"]
        /\ status \in [Deliveries -> Statuses]
    BY <1>2, Zenon DEF Enqueue, TypeOK, DeliveriesOK
  <2> QED
    BY <2>1, <2>2, <2>3
    DEF LedgerInv, AttemptsNumbered, StatusExplained, Exists
<1>3. ASSUME NEW j \in Jobs, NEW r \in Requests, RecoverCommit(r, j)
      PROVE  LedgerInv'
  <2>1. \A e \in Deliveries : AttemptsOf(e)' = AttemptsOf(e)
    BY <1>3, Zenon DEF RecoverCommit, AttemptsOf
  <2>2. \A e \in Deliveries :
           \/ status'[e] = status[e]
           \/ Exists(e) /\ status'[e] = "pending"
    BY <1>3, Zenon DEF RecoverCommit, TypeOK, DeliveriesOK
  <2>3. attempt_count' = attempt_count
    BY <1>3, Zenon DEF RecoverCommit
  <2>4. \A e \in Deliveries : Exists(e)' <=> Exists(e)
    BY <2>2, Zenon DEF Exists
  <2>5. AttemptsNumbered'
    BY <2>1, <2>3, <2>4 DEF LedgerInv, AttemptsNumbered
  <2>6. StatusExplained'
    BY <2>1, <2>2, <2>3, <2>4, Zenon DEF LedgerInv, StatusExplained
  <2> QED
    BY <2>1, <2>2, <2>3, <2>4, <2>5, <2>6, Zenon DEF LedgerInv, Exists
<1>4. ASSUME NEW j \in Jobs, RecordAttempt(j)
      PROVE  LedgerInv'
  <2>0. PICK d \in Deliveries : d = delivery_id[j]
    BY <1>4, WorkedJob, Zenon DEF TypeOK, RecordAttempt
  <2> DEFINE n == attempt_count[d] + 1
             new == DeliveryStatus(out[j], attempt[j], max_attempts[j])
             row == [delivery |-> d, attempt_number |-> n, result |-> out[j]]
  <2>1. out[j] \in Results
    BY <1>4, Zenon DEF TypeOK, RunsOK, RecordAttempt
  <2>2. CASE ~Exists(d)
    <3>1. UNCHANGED <<status, attempt_count, attempts>>
      BY <1>4, <2>0, <2>2, Zenon DEF RecordAttempt
    <3> QED
      BY <3>1, <1>1, Zenon
  <2>3. CASE Exists(d)
    <3>1. /\ status' = [status EXCEPT ![d] = new]
          /\ attempt_count' = [attempt_count EXCEPT ![d] = n]
          /\ attempts' = attempts \cup {row}
      BY <1>4, <2>0, <2>3, Zenon DEF RecordAttempt, RecordOutcome
    <3>2. /\ status \in [Deliveries -> Statuses]
          /\ attempt_count \in [Deliveries -> Nat]
          /\ attempts \subseteq AttemptRow
      BY Zenon DEF TypeOK, DeliveriesOK
    <3>3. /\ row.delivery = d
          /\ row.attempt_number = n
          /\ row.result = out[j]
      BY Zenon
    <3>4. /\ new \in {"succeeded", "failed", "dead_lettered"}
          /\ new = "succeeded" <=> out[j] = "succeeded"
      BY <2>1, Zenon DEF Results, DeliveryStatus
    <3> HIDE DEF n, new, row
    <3>5. \A e \in Deliveries \ {d} :
             /\ AttemptsOf(e)' = AttemptsOf(e)
             /\ status'[e] = status[e]
             /\ attempt_count'[e] = attempt_count[e]
      BY <3>1, <3>2, <3>3, Zenon DEF AttemptsOf
    <3>6. /\ AttemptsOf(d)' = AttemptsOf(d) \cup {row}
          /\ status'[d] = new
          /\ attempt_count'[d] = n
      BY <3>1, <3>2, <3>3, Zenon DEF AttemptsOf
    <3>7. n \in Nat /\ n = attempt_count[d] + 1
      BY <3>2 DEF n
    <3>8. Exists(d)' /\ status'[d] # "none"
      BY <3>4, <3>6, Zenon DEF Exists
    <3>9. AttemptsNumbered'
      <4> SUFFICES ASSUME NEW e \in Deliveries, Exists(e)'
                   PROVE  /\ \A a \in AttemptsOf(e)' :
                                a.attempt_number \in 1..attempt_count'[e]
                          /\ \A m \in 1..attempt_count'[e] :
                                \E a \in AttemptsOf(e)' : a.attempt_number = m
                          /\ \A a, b \in AttemptsOf(e)' :
                                a.attempt_number = b.attempt_number => a = b
        BY Zenon DEF AttemptsNumbered
      <4>1. CASE e # d
        <5>1. /\ AttemptsOf(e)' = AttemptsOf(e)
              /\ attempt_count'[e] = attempt_count[e]
              /\ Exists(e)
          BY <3>5, <4>1, Zenon DEF Exists
        <5> QED
          BY <5>1 DEF LedgerInv, AttemptsNumbered
      <4>2. CASE e = d
        <5>1. \A a \in AttemptsOf(d) : a.attempt_number \in 1..attempt_count[d]
          BY <2>3, Zenon DEF LedgerInv, AttemptsNumbered
        <5>2. \A m \in 1..attempt_count[d] :
                 \E a \in AttemptsOf(d) : a.attempt_number = m
          BY <2>3, Zenon DEF LedgerInv, AttemptsNumbered
        <5>3. \A a, b \in AttemptsOf(d) :
                 a.attempt_number = b.attempt_number => a = b
          BY <2>3, Zenon DEF LedgerInv, AttemptsNumbered
        <5>4. attempt_count[d] \in Nat
          BY <3>2, Zenon
        <5> QED
          BY <3>3, <3>6, <3>7, <4>2, <5>1, <5>2, <5>3, <5>4
      <4> QED
        BY <4>1, <4>2, Zenon
    <3>10. StatusExplained'
      <4> SUFFICES ASSUME NEW e \in Deliveries
                   PROVE  /\ status'[e] = "succeeded" =>
                                \E a \in AttemptsOf(e)' :
                                   /\ a.attempt_number = attempt_count'[e]
                                   /\ a.result = "succeeded"
                          /\ status'[e] \in {"failed", "dead_lettered"} =>
                                \E a \in AttemptsOf(e)' :
                                   /\ a.attempt_number = attempt_count'[e]
                                   /\ a.result # "succeeded"
        BY Zenon DEF StatusExplained
      <4>1. CASE e # d
        BY <3>5, <4>1 DEF LedgerInv, StatusExplained
      <4>2. CASE e = d
        BY <3>3, <3>4, <3>6, <4>2, Zenon
      <4> QED
        BY <4>1, <4>2, Zenon
    <3> QED
      BY <3>5, <3>8, <3>9, <3>10, Zenon DEF LedgerInv, Exists
  <2> QED
    BY <2>2, <2>3, Zenon
<1>5. ASSUME NEW x \in Destinations, DeleteDestination(x)
      PROVE  LedgerInv'
  <2>1. \A e \in Deliveries : DestinationOf[e] # x =>
           /\ AttemptsOf(e)' = AttemptsOf(e)
           /\ status'[e] = status[e]
    BY <1>5, Zenon DEF DeleteDestination, AttemptsOf, TypeOK, DeliveriesOK
  <2>2. \A e \in Deliveries : DestinationOf[e] = x =>
           /\ AttemptsOf(e)' = {}
           /\ status'[e] \in {"none", "deleted"}
           /\ status'[e] = "none" => status[e] = "none"
    BY <1>5, Zenon DEF DeleteDestination, AttemptsOf, Exists, TypeOK, DeliveriesOK
  <2>3. attempt_count' = attempt_count
    BY <1>5, Zenon DEF DeleteDestination
  <2>4. \A e \in Deliveries : Exists(e)' =>
           /\ Exists(e) /\ AttemptsOf(e)' = AttemptsOf(e)
           /\ status'[e] = status[e]
    BY <2>1, <2>2, Zenon DEF Exists
  <2>5. AttemptsNumbered'
    BY <2>3, <2>4 DEF LedgerInv, AttemptsNumbered
  <2>6. StatusExplained'
    <3> SUFFICES ASSUME NEW e \in Deliveries,
                        status'[e] \in {"succeeded", "failed", "dead_lettered"}
                 PROVE  /\ status[e] = status'[e]
                        /\ AttemptsOf(e)' = AttemptsOf(e)
      BY <2>3, Zenon DEF LedgerInv, StatusExplained
    <3> QED
      BY <2>4, Zenon DEF Exists
  <2>7. \A e \in Deliveries : ~Exists(e)' => AttemptsOf(e)' = {}
    <3> SUFFICES ASSUME NEW e \in Deliveries, ~Exists(e)'
                 PROVE  AttemptsOf(e)' = {}
      BY Zenon
    <3>1. CASE DestinationOf[e] = x
      BY <2>2, <3>1, Zenon
    <3>2. CASE DestinationOf[e] # x
      <4>1. ~Exists(e) /\ AttemptsOf(e)' = AttemptsOf(e)
        BY <2>1, <3>2, Zenon DEF Exists
      <4> QED
        BY <4>1, Zenon DEF LedgerInv
    <3> QED
      BY <3>1, <3>2, Zenon
  <2>8. \A e \in Deliveries : status'[e] = "none" => attempt_count'[e] = 0
    <3> SUFFICES ASSUME NEW e \in Deliveries, status'[e] = "none"
                 PROVE  attempt_count'[e] = 0
      BY Zenon
    <3>1. status[e] = "none"
      BY <2>1, <2>2, Zenon
    <3> QED
      BY <2>3, <3>1, Zenon DEF LedgerInv
  <2> QED
    BY <2>5, <2>6, <2>7, <2>8, Zenon DEF LedgerInv
<1> QED
  BY <1>1, <1>2, <1>3, <1>4, <1>5, LedgerWriters, Zenon

\* The ledger invariant holds throughout: recordAttempt is the one writer of
\* attempts, counts and outcomes, and writes them together.
LEMMA LedgerInductive == Spec => []LedgerInv
<1>1. Init => LedgerInv
  BY ConstantsAssumption
  DEF Init, LedgerInv, AttemptsNumbered, StatusExplained, AttemptsOf, Exists
<1> QED
  BY <1>1, TypeCorrect, LedgerStep, PTL DEF Spec

\* The trace never disagrees with the delivery (recordAttempt): attempt rows
\* are numbered 1 to attempt_count, without a gap or a repetition ...
THEOREM LedgerCorrect == Spec => []AttemptsNumbered
<1>1. LedgerInv => AttemptsNumbered
  BY Zenon DEF LedgerInv
<1> QED
  BY <1>1, LedgerInductive, PTL

\* ... and the newest of them explains the status of the delivery.
THEOREM StatusIsExplained == Spec => []StatusExplained
<1>1. LedgerInv => StatusExplained
  BY Zenon DEF LedgerInv
<1> QED
  BY <1>1, LedgerInductive, PTL
-----------------------------------------------------------------------------
(* The attempt budget *)

\* A Work call that has not dispatched, or will not any more.
Undispatched(j) ==
    \/ pc[j] \in {"load", "destination", "dispatch"}
    \/ pc[j] = "return" /\ out[j] = "snooze"

\* A Work call, or what a crash left of one, whose attempt is accounted for
\* by a dispatch or by a fault.
AccountedFor(j) ==
    \/ pc[j] \in {"idle", "record"}
    \/ pc[j] = "return" /\ out[j] = "error"

\* Strengthening: what is left of the budget while a job waits, and where in
\* a Work call the attempt is paid for.
Budget(j) ==
    /\ state[j] = "none" => attempt[j] = 0 /\ dispatched[j] = 0
    /\ dispatched[j] <= attempt[j]
    /\ attempt[j] <= max_attempts[j]
    /\ state[j] = "queued" =>
          /\ attempt[j] < max_attempts[j]
          /\ attempt[j] <= dispatched[j] + faults
    /\ state[j] = "running" =>
          /\ attempt[j] <= dispatched[j] + faults + 1
          /\ Undispatched(j) => dispatched[j] < attempt[j]
          /\ AccountedFor(j) => attempt[j] <= dispatched[j] + faults

BudgetInv == \A j \in Jobs : Budget(j)

\* Every action preserves it, job by job.
LEMMA BudgetStep == TypeOK /\ BudgetInv /\ [Next]_vars => BudgetInv'
<1> SUFFICES ASSUME TypeOK, BudgetInv, [Next]_vars, NEW k \in Jobs
             PROVE  Budget(k)'
  BY Zenon DEF BudgetInv
<1>0. JobsOK /\ RunsOK /\ HistoryOK /\ Budget(k)
  BY Zenon DEF TypeOK, BudgetInv
<1>1. ASSUME state'[k] = state[k], attempt'[k] = attempt[k],
             max_attempts'[k] = max_attempts[k],
             dispatched'[k] = dispatched[k], pc'[k] = pc[k], out'[k] = out[k],
             faults' \in Nat, faults <= faults'
      PROVE  Budget(k)'
  <2>1. attempt[k] \in Int /\ dispatched[k] \in Int /\ faults \in Int
    BY <1>0 DEF JobsOK, HistoryOK
  <2>2. /\ attempt[k] <= dispatched[k] + faults
             => attempt[k] <= dispatched[k] + faults'
        /\ attempt[k] <= dispatched[k] + faults + 1
             => attempt[k] <= dispatched[k] + faults' + 1
    BY <1>1, <2>1
  <2>3. (Undispatched(k)' <=> Undispatched(k))
        /\ (AccountedFor(k)' <=> AccountedFor(k))
    BY <1>1, Zenon DEF Undispatched, AccountedFor
  <2>4. (/\ state[k] = "none" => attempt[k] = 0 /\ dispatched[k] = 0
         /\ dispatched[k] <= attempt[k]
         /\ attempt[k] <= max_attempts[k])'
    BY <1>0, <1>1, Zenon DEF Budget
  <2>5. (state[k] = "queued" =>
           /\ attempt[k] < max_attempts[k]
           /\ attempt[k] <= dispatched[k] + faults)'
    BY <1>0, <1>1, <2>2, Zenon DEF Budget
  <2>6. (state[k] = "running" =>
           /\ attempt[k] <= dispatched[k] + faults + 1
           /\ Undispatched(k) => dispatched[k] < attempt[k]
           /\ AccountedFor(k) => attempt[k] <= dispatched[k] + faults)'
    BY <1>0, <1>1, <2>2, <2>3, Zenon DEF Budget
  <2> QED
    BY <2>4, <2>5, <2>6, Zenon DEF Budget
<1>2. ASSUME NEW j \in Jobs, NEW d, NEW m \in Int, InsertDeliveryJob(j, d, m),
             UNCHANGED <<runVars, dispatched, faults>>
      PROVE  Budget(k)'
  <2>0. UNCHANGED <<pc, out, dispatched, faults>>
    BY <1>2, Zenon
  <2>1. CASE j # k
    BY <1>0, <1>1, <1>2, <2>0, <2>1 DEF JobsOK, HistoryOK, InsertDeliveryJob
  <2>2. CASE j = k
    <3>1. attempt[k] = 0 /\ dispatched[k] = 0 /\ faults \in Nat
      BY <1>0, <1>2, <2>2 DEF Budget, InsertDeliveryJob, HistoryOK
    <3>2. /\ state'[k] = "queued" /\ attempt'[k] = 0 /\ dispatched'[k] = 0
          /\ max_attempts'[k] \in Int /\ 1 <= max_attempts'[k]
          /\ faults' \in Nat
      BY <1>0, <1>2, <2>0, <2>2, <3>1 DEF JobsOK, InsertDeliveryJob
    <3> QED
      BY <3>2 DEF Budget
  <2> QED
    BY <2>1, <2>2, Zenon
<1>3. ASSUME NEW j \in Jobs, NEW d \in Deliveries, Enqueue(d, j)
      PROVE  Budget(k)'
  BY <1>2, <1>3, PolicyIsInt, Zenon DEF TypeOK, Enqueue
<1>4. ASSUME NEW j \in Jobs, NEW r \in Requests, RecoverCommit(r, j)
      PROVE  Budget(k)'
  BY <1>2, <1>4, Zenon DEF TypeOK, RequestsOK, RecoverCommit
<1>5. ASSUME NEW j \in Jobs, Fetch(j)
      PROVE  Budget(k)'
  <2>1. CASE j # k
    BY <1>0, <1>1, <1>5, <2>1
    DEF JobsOK, RunsOK, HistoryOK, Fetch, Goto
  <2>2. CASE j = k
    <3>1. /\ state'[k] = "running" /\ pc'[k] = "load"
          /\ attempt'[k] = attempt[k] + 1
          /\ UNCHANGED <<max_attempts, dispatched, faults>>
      BY <1>0, <1>5, <2>2, Zenon DEF JobsOK, RunsOK, Fetch, Goto
    <3>2. /\ dispatched[k] <= attempt[k]
          /\ attempt[k] < max_attempts[k]
          /\ attempt[k] <= dispatched[k] + faults
      BY <1>0, <1>5, <2>2, Zenon DEF Budget, Fetch
    <3>3. /\ attempt[k] \in Int /\ max_attempts[k] \in Int
          /\ dispatched[k] \in Int /\ faults \in Int
      BY <1>0 DEF JobsOK, HistoryOK
    <3>4. ~AccountedFor(k)'
      BY <3>1, Zenon DEF AccountedFor
    <3> QED
      BY <3>1, <3>2, <3>3, <3>4 DEF Budget
  <2> QED
    BY <2>1, <2>2, Zenon
<1>6. ASSUME state'[k] = "running", attempt'[k] = attempt[k],
             max_attempts'[k] = max_attempts[k],
             dispatched'[k] <= attempt[k],
             attempt[k] <= dispatched'[k] + faults' + 1,
             Undispatched(k)' => dispatched'[k] < attempt[k],
             AccountedFor(k)' => attempt[k] <= dispatched'[k] + faults'
      PROVE  Budget(k)'
  <2>1. attempt[k] <= max_attempts[k]
    BY <1>0, Zenon DEF Budget
  <2> QED
    BY <1>6, <2>1, Zenon DEF Budget
<1>7. ASSUME pc[k] # "idle"
      PROVE  /\ state[k] = "running"
             /\ dispatched[k] <= attempt[k]
             /\ attempt[k] <= dispatched[k] + faults + 1
             /\ Undispatched(k) => dispatched[k] < attempt[k]
             /\ AccountedFor(k) => attempt[k] <= dispatched[k] + faults
  BY <1>0, <1>7, WorkedJob, Zenon DEF Budget
<1>8. /\ attempt[k] \in Int /\ max_attempts[k] \in Int
      /\ dispatched[k] \in Int /\ faults \in Int
  BY <1>0 DEF JobsOK, HistoryOK
<1>9. ASSUME NEW j \in Jobs, LoadDelivery(j) \/ LoadDestination(j)
      PROVE  Budget(k)'
  <2>0. UNCHANGED <<state, attempt, max_attempts, dispatched, faults>>
    BY <1>9, Zenon DEF LoadDelivery, LoadDestination
  <2>1. /\ pc[j] \in {"load", "destination"}
        /\ \/ \E to \in {"destination", "dispatch"} : Goto(j, to)
           \/ \E v \in {"nil", "snooze"} : Return(j, v)
    BY <1>9, Zenon DEF LoadDelivery, LoadDestination
  <2>2. CASE j # k
    <3>1. pc'[k] = pc[k] /\ out'[k] = out[k]
      BY <1>0, <2>1, <2>2, Zenon DEF RunsOK, Goto, Return
    <3>2. faults \in Nat /\ faults <= faults
      BY <1>0 DEF HistoryOK
    <3> QED
      BY <1>1, <2>0, <3>1, <3>2, Zenon
  <2>3. CASE j = k
    <3>1. /\ \/ pc'[k] \in {"destination", "dispatch"}
             \/ pc'[k] = "return" /\ out'[k] \in {"nil", "snooze"}
          /\ pc[k] \in {"load", "destination"}
      <4>1. ASSUME NEW to \in {"destination", "dispatch"}, Goto(j, to)
            PROVE  pc'[k] \in {"destination", "dispatch"}
        BY <1>0, <2>3, <4>1, Zenon DEF RunsOK, Goto
      <4>2. ASSUME NEW v \in {"nil", "snooze"}, Return(j, v)
            PROVE  pc'[k] = "return" /\ out'[k] \in {"nil", "snooze"}
        <5>1. pc' = [pc EXCEPT ![k] = "return"] /\ out' = [out EXCEPT ![k] = v]
          BY <2>3, <4>2, Zenon DEF Return
        <5> QED
          BY <1>0, <5>1, Zenon DEF RunsOK
      <4> QED
        BY <2>1, <2>3, <4>1, <4>2, Zenon
    <3>2. ~AccountedFor(k)' /\ Undispatched(k)
      BY <3>1, Zenon DEF AccountedFor, Undispatched
    <3>3. /\ state[k] = "running"
          /\ dispatched[k] <= attempt[k]
          /\ attempt[k] <= dispatched[k] + faults + 1
          /\ dispatched[k] < attempt[k]
      BY <1>7, <3>1, <3>2, Zenon
    <3> QED
      BY <1>6, <2>0, <3>2, <3>3, Zenon
  <2> QED
    BY <2>2, <2>3, Zenon
<1>10. ASSUME NEW j \in Jobs, Dispatch(j)
       PROVE  Budget(k)'
  <2>0. UNCHANGED <<state, attempt, max_attempts, faults>>
    BY <1>10, Zenon DEF Dispatch
  <2>1. CASE j # k
    BY <1>0, <1>1, <1>10, <2>1 DEF JobsOK, RunsOK, HistoryOK, Dispatch
  <2>2. CASE j = k
    <3>1. /\ pc'[k] = "record" /\ pc[k] = "dispatch"
          /\ dispatched'[k] = dispatched[k] + 1
      BY <1>0, <1>10, <2>2, Zenon DEF RunsOK, HistoryOK, Dispatch
    <3>2. ~Undispatched(k)' /\ Undispatched(k)
      BY <3>1, Zenon DEF Undispatched
    <3>3. /\ state[k] = "running"
          /\ attempt[k] <= dispatched[k] + faults + 1
          /\ dispatched[k] < attempt[k]
      BY <1>7, <3>1, <3>2, Zenon
    <3>4. /\ dispatched'[k] <= attempt[k]
          /\ attempt[k] <= dispatched'[k] + faults
          /\ attempt[k] <= dispatched'[k] + faults + 1
      BY <1>8, <3>1, <3>3
    <3> QED
      BY <1>6, <2>0, <3>2, <3>3, <3>4, Zenon
  <2> QED
    BY <2>1, <2>2, Zenon
<1>11. ASSUME NEW j \in Jobs, NEW v \in Verdicts \ {"snooze"}, Return(j, v),
              UNCHANGED <<jobVars, dispatched>>, pc[j] # "idle",
              \/ faults' = faults /\ pc[j] = "record"
              \/ faults' = faults + 1
       PROVE  Budget(k)'
  <2>0. UNCHANGED <<state, attempt, max_attempts, dispatched>>
        /\ faults \in Nat /\ faults' \in Nat /\ faults <= faults'
    BY <1>0, <1>11 DEF HistoryOK
  <2>1. CASE j # k
    <3>1. pc'[k] = pc[k] /\ out'[k] = out[k]
      BY <1>0, <1>11, <2>1, Zenon DEF RunsOK, Return
    <3> QED
      BY <1>1, <2>0, <3>1, Zenon
  <2>2. CASE j = k
    <3>1. pc'[k] = "return" /\ out'[k] # "snooze"
      BY <1>0, <1>11, <2>2, Zenon DEF RunsOK, Return, Verdicts
    <3>2. ~Undispatched(k)'
      BY <3>1, Zenon DEF Undispatched
    <3>3. /\ state[k] = "running"
          /\ dispatched[k] <= attempt[k]
          /\ attempt[k] <= dispatched[k] + faults + 1
          /\ pc[k] = "record" => attempt[k] <= dispatched[k] + faults
      BY <1>7, <1>11, <2>2, Zenon DEF AccountedFor
    <3>4. /\ attempt[k] <= dispatched[k] + faults'
          /\ attempt[k] <= dispatched[k] + faults' + 1
      BY <1>8, <1>11, <2>2, <3>3
    <3> QED
      BY <1>6, <2>0, <3>2, <3>3, <3>4, Zenon
  <2> QED
    BY <2>1, <2>2, Zenon
<1>12. ASSUME NEW j \in Jobs, RecordAttempt(j)
       PROVE  Budget(k)'
  <2>1. Outcome(out[j]) \in Verdicts \ {"snooze"}
        /\ "error" \in Verdicts \ {"snooze"}
    <3>1. out[j] \in Results
      BY <1>0, <1>12, Zenon DEF RecordAttempt, RunsOK
    <3> QED
      BY <3>1, Zenon DEF Results, Outcome, Verdicts
  <2>2. UNCHANGED <<jobVars, dispatched>> /\ pc[j] = "record"
    BY <1>12, Zenon DEF RecordAttempt
  <2>3. /\ \E v \in Verdicts \ {"snooze"} : Return(j, v)
        /\ faults' = faults \/ faults' = faults + 1
    BY <1>12, <2>1, Zenon DEF RecordAttempt, Fault
  <2> QED
    BY <1>11, <2>2, <2>3, Zenon
<1>13. ASSUME NEW j \in Jobs, DatabaseFails(j)
       PROVE  Budget(k)'
  BY <1>11, <1>13, Zenon DEF DatabaseFails, Fault, Verdicts
<1>14. ASSUME NEW j \in Jobs, Crash(j)
       PROVE  Budget(k)'
  <2>0. /\ UNCHANGED <<state, attempt, max_attempts, dispatched>>
        /\ faults \in Nat /\ faults' = faults + 1
    BY <1>0, <1>14 DEF HistoryOK, Crash, Fault
  <2>1. CASE j # k
    <3>1. pc'[k] = pc[k] /\ out'[k] = out[k]
      BY <1>0, <1>14, <2>1, Zenon DEF RunsOK, Crash, Goto
    <3>2. faults' \in Nat /\ faults <= faults'
      BY <2>0
    <3> QED
      BY <1>1, <2>0, <3>1, <3>2, Zenon
  <2>2. CASE j = k
    <3>1. pc'[k] = "idle" /\ pc[k] # "idle"
      BY <1>0, <1>14, <2>2, Zenon DEF RunsOK, Crash, Goto
    <3>2. ~Undispatched(k)'
      BY <3>1, Zenon DEF Undispatched
    <3>3. /\ state[k] = "running"
          /\ dispatched[k] <= attempt[k]
          /\ attempt[k] <= dispatched[k] + faults + 1
      BY <1>7, <3>1, Zenon
    <3>4. /\ attempt[k] <= dispatched[k] + faults'
          /\ attempt[k] <= dispatched[k] + faults' + 1
      BY <1>8, <2>0, <3>3
    <3> QED
      BY <1>6, <2>0, <3>2, <3>3, <3>4, Zenon
  <2> QED
    BY <2>1, <2>2, Zenon
<1>15. ASSUME NEW s \in {"queued", "completed", "cancelled", "discarded"},
              state'[k] = s, UNCHANGED <<max_attempts, dispatched, faults>>,
              attempt'[k] \in Int,
              dispatched[k] <= attempt'[k], attempt'[k] <= max_attempts[k],
              s = "queued" => /\ attempt'[k] < max_attempts[k]
                              /\ attempt'[k] <= dispatched[k] + faults
       PROVE  Budget(k)'
  BY <1>15, Zenon DEF Budget
<1>16. ASSUME NEW j \in Jobs, Complete(j)
       PROVE  Budget(k)'
  <2>0. /\ UNCHANGED <<max_attempts, dispatched, faults>>
        /\ faults \in Nat /\ faults <= faults'
    BY <1>0, <1>16 DEF HistoryOK, Complete
  <2>1. CASE j # k
    BY <1>0, <1>1, <1>16, <2>0, <2>1, Zenon DEF JobsOK, RunsOK, Complete, Goto
  <2>2. CASE j = k
    <3>1. /\ pc[k] = "return" /\ out[k] \in Verdicts
          /\ state'[k] = Settled(k)
          /\ attempt'[k] = IF out[k] = "snooze" THEN attempt[k] - 1
                                                ELSE attempt[k]
      BY <1>0, <1>16, <2>2, Zenon DEF JobsOK, RunsOK, Complete
    <3>2. Settled(k) \in {"queued", "completed", "cancelled", "discarded"}
      BY <1>0, <3>1, SettledType, Zenon
    <3>3. /\ dispatched[k] <= attempt[k] /\ attempt[k] <= max_attempts[k]
          /\ attempt[k] <= dispatched[k] + faults + 1
      BY <1>0, <1>7, <3>1, Zenon DEF Budget
    <3>4. CASE out[k] = "snooze"
      <4>1. dispatched[k] < attempt[k]
        BY <1>7, <3>1, <3>4, Zenon DEF Undispatched
      <4>2. attempt'[k] = attempt[k] - 1
        BY <3>1, <3>4, Zenon
      <4>3. attempt[k] - 1 \in Int /\ dispatched[k] <= attempt[k] - 1
        BY <1>8, <4>1
      <4>4. /\ attempt[k] - 1 <= max_attempts[k]
            /\ attempt[k] - 1 < max_attempts[k]
            /\ attempt[k] - 1 <= dispatched[k] + faults
        BY <1>8, <3>3
      <4> QED
        BY <1>15, <2>0, <3>1, <3>2, <4>2, <4>3, <4>4, Zenon
    <3>5. CASE out[k] = "error"
      <4>1. attempt[k] <= dispatched[k] + faults
        BY <1>7, <3>1, <3>5, Zenon DEF AccountedFor
      <4>2. Settled(k) = "queued" => attempt[k] < max_attempts[k]
        BY <3>5, Zenon DEF Settled, AfterError
      <4>3. attempt'[k] = attempt[k]
        BY <3>1, <3>5, Zenon
      <4> QED
        BY <1>8, <1>15, <2>0, <3>1, <3>2, <3>3, <4>1, <4>2, <4>3, Zenon
    <3>6. CASE out[k] \in {"nil", "cancel"}
      <4>1. Settled(k) # "queued" /\ attempt'[k] = attempt[k]
        BY <3>1, <3>6, Zenon DEF Settled
      <4> QED
        BY <1>8, <1>15, <2>0, <3>1, <3>2, <3>3, <4>1, Zenon
    <3> QED
      BY <3>1, <3>4, <3>5, <3>6, Zenon DEF Verdicts
  <2> QED
    BY <2>1, <2>2, Zenon
<1>17. ASSUME NEW j \in Jobs, Rescue(j)
       PROVE  Budget(k)'
  <2>0. /\ UNCHANGED <<attempt, max_attempts, dispatched, faults, pc, out>>
        /\ faults \in Nat /\ faults <= faults'
    BY <1>0, <1>17 DEF HistoryOK, Rescue
  <2>1. CASE j # k
    <3>1. state'[k] = state[k]
      BY <1>0, <1>17, <2>1, Zenon DEF JobsOK, Rescue
    <3> QED
      BY <1>1, <2>0, <3>1, Zenon
  <2>2. CASE j = k
    <3>1. /\ state[k] = "running" /\ pc[k] = "idle"
          /\ state'[k] = AfterError(k)
      BY <1>0, <1>17, <2>2, Zenon DEF JobsOK, Rescue
    <3>2. /\ dispatched[k] <= attempt[k] /\ attempt[k] <= max_attempts[k]
          /\ attempt[k] <= dispatched[k] + faults
      BY <1>0, <3>1, Zenon DEF Budget, AccountedFor
    <3>3. /\ AfterError(k) \in {"queued", "completed", "cancelled",
                                "discarded"}
          /\ AfterError(k) = "queued" => attempt[k] < max_attempts[k]
      BY Zenon DEF AfterError
    <3> QED
      BY <1>8, <1>15, <2>0, <3>1, <3>2, <3>3, Zenon
  <2> QED
    BY <2>1, <2>2, Zenon
<1>18. ASSUME UNCHANGED <<jobVars, runVars, dispatched>>,
              faults' = faults \/ Fault
       PROVE  Budget(k)'
  <2>1. faults' \in Nat /\ faults <= faults'
    BY <1>0, <1>18 DEF HistoryOK, Fault
  <2> QED
    BY <1>1, <1>18, <2>1, Zenon
<1>19. ASSUME NEW r \in Requests,
              \/ \E d \in Deliveries : RecoverLoad(r, d)
              \/ RecoverDestination(r)
              \/ RecoverFails(r)
       PROVE  Budget(k)'
  BY <1>18, <1>19, Zenon DEF RecoverLoad, RecoverDestination, RecoverFails
<1>20. ASSUME NEW x \in Destinations,
              \/ \E m \in Policies : UpdateDestination(x, m)
              \/ PauseDestination(x)
              \/ ResumeDestination(x)
              \/ DeleteDestination(x)
       PROVE  Budget(k)'
  BY <1>18, <1>20, Zenon
  DEF UpdateDestination, PauseDestination, ResumeDestination,
      DeleteDestination
<1>21. CASE UNCHANGED vars
  BY <1>18, <1>21, Zenon DEF vars
<1> QED
  BY <1>3, <1>4, <1>5, <1>9, <1>10, <1>12, <1>13, <1>14, <1>16, <1>17, <1>19,
     <1>20, <1>21, Zenon
  DEF Next, WorkerStep

\* Within its budget (Work, InsertDeliveryJob): at most max_attempts
\* dispatches per job, and snoozing costs no attempt.
THEOREM BudgetRespected == Spec => []AttemptBudget
<1>1. Init => BudgetInv
  <2> SUFFICES ASSUME Init, NEW j \in Jobs PROVE Budget(j)
    BY Zenon DEF BudgetInv
  <2>1. /\ state[j] = "none" /\ attempt[j] = 0 /\ dispatched[j] = 0
        /\ max_attempts[j] = 0
    BY Zenon DEF Init
  <2> QED
    BY <2>1 DEF Budget
<1>2. BudgetInv => AttemptBudget
  BY Zenon DEF BudgetInv, Budget, AttemptBudget
<1> QED
  BY <1>1, <1>2, TypeCorrect, BudgetStep, PTL DEF Spec
-----------------------------------------------------------------------------
(* Every open delivery is driven *)

\* A Work call that has decided to end its job for good.
Ending(j) == pc[j] = "return" /\ out[j] \in {"nil", "cancel"}

\* Job j drives delivery d, or was discarded trying.
Drives(j, d) ==
    /\ delivery_id[j] = d
    /\ \/ state[j] = "discarded"
       \/ state[j] \in {"queued", "running"} /\ ~Ending(j)

\* Strengthening: the job that drives an open delivery is not about to end,
\* and no delivery outlives its destination.
DrivenInv ==
    /\ \A d \in Deliveries :
          Exists(d) /\ ~Terminal(d) => \E j \in Jobs : Drives(j, d)
    /\ \A d \in Deliveries : Exists(d) => DestinationOf[d] \in destinations

\* A step that leaves the deliveries alone and keeps every driver driving.
LEMMA DriversKept ==
    ASSUME DrivenInv, UNCHANGED <<status, destinations>>,
           \A j \in Jobs, d \in Deliveries :
              Exists(d) /\ ~Terminal(d) /\ Drives(j, d) => Drives(j, d)'
    PROVE  DrivenInv'
BY Zenon DEF DrivenInv, Exists, Terminal

\* A step of one Work call that ends the job only of a settled delivery.
LEMMA CallMoves ==
    ASSUME DrivenInv, NEW j \in Jobs,
           UNCHANGED <<status, destinations, state, delivery_id>>,
           \A k \in Jobs \ {j} : pc'[k] = pc[k] /\ out'[k] = out[k],
           Ending(j)' => \/ ~Exists(delivery_id[j])
                         \/ Terminal(delivery_id[j])
    PROVE  DrivenInv'
<1> SUFFICES ASSUME NEW k \in Jobs, NEW d \in Deliveries,
                    Exists(d), ~Terminal(d), Drives(k, d)
             PROVE  Drives(k, d)'
  BY DriversKept, Zenon
<1>1. CASE k = j
  BY <1>1, Zenon DEF Drives
<1>2. CASE k # j
  BY <1>2, Zenon DEF Drives, Ending
<1> QED
  BY <1>1, <1>2, Zenon

\* Every action preserves it.
LEMMA DrivenStep == TypeOK /\ DrivenInv /\ [Next]_vars => DrivenInv'
<1> SUFFICES ASSUME TypeOK, DrivenInv, [Next]_vars PROVE DrivenInv'
  BY Zenon
<1>0. JobsOK /\ RunsOK /\ DeliveriesOK
  BY Zenon DEF TypeOK
<1>1. CASE UNCHANGED <<status, destinations, state, delivery_id, runVars>>
  BY <1>1, DriversKept, Zenon DEF Drives, Ending
<1>2. ASSUME NEW j \in Jobs, NEW d \in Deliveries, NEW m,
             InsertDeliveryJob(j, d, m), UNCHANGED runVars
      PROVE  /\ Drives(j, d)'
             /\ \A k \in Jobs, e \in Deliveries : Drives(k, e) => Drives(k, e)'
  BY <1>0, <1>2, Zenon DEF InsertDeliveryJob, Drives, Ending, JobsOK, RunsOK
<1>3. ASSUME NEW j \in Jobs, NEW d \in Deliveries, Enqueue(d, j)
      PROVE  DrivenInv'
  BY <1>0, <1>2, <1>3, Zenon
  DEF Enqueue, DrivenInv, DeliveriesOK, Exists, Terminal
<1>4. ASSUME NEW j \in Jobs, NEW r \in Requests, RecoverCommit(r, j)
      PROVE  DrivenInv'
  <2>1. PICK d \in Deliveries : d = req_delivery[r]
    BY <1>4, Zenon DEF TypeOK, RequestsOK, RecoverCommit
  <2>2. /\ Drives(j, d)'
        /\ \A k \in Jobs, e \in Deliveries : Drives(k, e) => Drives(k, e)'
    BY <1>2, <1>4, <2>1, Zenon DEF RecoverCommit
  <2>3. \A e \in Deliveries \ {d} : status'[e] = status[e]
    BY <1>0, <1>4, <2>1, Zenon DEF RecoverCommit, DeliveriesOK
  <2>4. destinations' = destinations /\ (Exists(d)' => Exists(d))
    BY <1>0, <1>4, <2>1, Zenon DEF RecoverCommit, DeliveriesOK, Exists
  <2> QED
    BY <2>1, <2>2, <2>3, <2>4 DEF DrivenInv, Exists, Terminal
<1>5. ASSUME NEW j \in Jobs, Fetch(j) PROVE DrivenInv'
  BY <1>0, <1>5, DriversKept, Zenon
  DEF Fetch, Goto, Drives, Ending, JobsOK, RunsOK
<1>6. ASSUME NEW j \in Jobs, LoadDelivery(j) PROVE DrivenInv'
  <2>1. \A k \in Jobs \ {j} : pc'[k] = pc[k] /\ out'[k] = out[k]
    BY <1>0, <1>6 DEF LoadDelivery, Goto, Return, RunsOK
  <2>2. Ending(j)' => ~Exists(delivery_id[j]) \/ Terminal(delivery_id[j])
    BY <1>0, <1>6, Zenon
    DEF LoadDelivery, Goto, Ending, Exists, Terminal, RunsOK
  <2> QED
    BY <1>6, <2>1, <2>2, CallMoves, Zenon DEF LoadDelivery
<1>7. ASSUME NEW j \in Jobs, LoadDestination(j) PROVE DrivenInv'
  <2>1. \A k \in Jobs \ {j} : pc'[k] = pc[k] /\ out'[k] = out[k]
    BY <1>0, <1>7, Zenon DEF LoadDestination, Goto, Return, RunsOK
  <2>2. Ending(j)' => DestinationOf[delivery_id[j]] \notin destinations
    BY <1>0, <1>7, Zenon DEF LoadDestination, Goto, Return, Ending, RunsOK
  <2>3. delivery_id[j] \in Deliveries
    BY <1>0, <1>7, WorkedJob, Zenon DEF LoadDestination
  <2>4. Ending(j)' => ~Exists(delivery_id[j])
    BY <2>2, <2>3, Zenon DEF DrivenInv
  <2> QED
    BY <1>7, <2>1, <2>4, CallMoves, Zenon DEF LoadDestination
<1>8. ASSUME NEW j \in Jobs, Dispatch(j) PROVE DrivenInv'
  BY <1>0, <1>8, DriversKept, Zenon DEF Dispatch, Drives, Ending, RunsOK
<1>9. ASSUME NEW j \in Jobs, RecordAttempt(j) PROVE DrivenInv'
  <2>1. PICK d \in Deliveries : d = delivery_id[j]
    BY <1>0, <1>9, WorkedJob, Zenon DEF RecordAttempt
  <2>2. state[j] = "running" /\ out[j] \in Results
    BY <1>0, <1>9, WorkedJob, Zenon DEF RecordAttempt, RunsOK
  <2>3. \A k \in Jobs \ {j}, e \in Deliveries : Drives(k, e) => Drives(k, e)'
    BY <1>0, <1>9, Zenon DEF RecordAttempt, Return, Drives, Ending, RunsOK
  <2>4. UNCHANGED <<destinations, state, delivery_id>>
    BY <1>9, Zenon DEF RecordAttempt
  <2>5. CASE ~Exists(d)
    BY <1>0, <1>9, <2>1, <2>5, DriversKept
    DEF RecordAttempt, Return, Drives, Ending, RunsOK
  <2>6. CASE Exists(d)
    <3>1. \A e \in Deliveries \ {d} : status'[e] = status[e]
      BY <1>0, <1>9, <2>1, <2>6, Zenon
      DEF RecordAttempt, RecordOutcome, DeliveriesOK
    <3>2. status'[d] = DeliveryStatus(out[j], attempt[j], max_attempts[j])
      BY <1>0, <1>9, <2>1, <2>6, Zenon
      DEF RecordAttempt, RecordOutcome, DeliveriesOK
    <3>3. Terminal(d)' \/ out[j] = "retryable"
      BY <2>2, <3>2, Zenon DEF DeliveryStatus, Results, Terminal
    <3>4. out[j] = "retryable" => Return(j, "error")
      BY <1>9, <2>1, <2>6, Zenon DEF RecordAttempt, Outcome
    <3>5. out[j] = "retryable" => Drives(j, d)'
      BY <1>0, <2>1, <2>2, <2>4, <3>4, Zenon DEF Return, Drives, Ending, RunsOK
    <3>6. \A e \in Deliveries \ {d} : ~Drives(j, e)
      BY <2>1, Zenon DEF Drives
    <3> QED
      BY <2>3, <2>4, <2>6, <3>1, <3>3, <3>5, <3>6, Zenon
      DEF DrivenInv, Exists, Terminal
  <2> QED
    BY <2>5, <2>6, Zenon
<1>10. ASSUME NEW j \in Jobs, Complete(j) PROVE DrivenInv'
  <2>1. out[j] \in Verdicts /\ state[j] = "running"
    BY <1>0, <1>10, Zenon DEF Complete, RunsOK
  <2>2. ~Ending(j) => Settled(j) \in {"queued", "discarded"}
    BY <1>10, <2>1, Zenon DEF Complete, Ending, Verdicts, Settled, AfterError
  <2> QED
    BY <1>0, <1>10, <2>1, <2>2, DriversKept, Zenon
    DEF Complete, Goto, Drives, Ending, JobsOK, RunsOK
<1>11. ASSUME NEW j \in Jobs, DatabaseFails(j) PROVE DrivenInv'
  BY <1>0, <1>11, DriversKept, Zenon
  DEF DatabaseFails, Return, Drives, Ending, RunsOK
<1>12. ASSUME NEW j \in Jobs, Crash(j) PROVE DrivenInv'
  BY <1>0, <1>12, DriversKept, Zenon DEF Crash, Goto, Drives, Ending, RunsOK
<1>13. ASSUME NEW j \in Jobs, Rescue(j) PROVE DrivenInv'
  BY <1>0, <1>13, DriversKept, Zenon
  DEF Rescue, AfterError, Drives, Ending, JobsOK
<1>14. ASSUME NEW x \in Destinations, DeleteDestination(x) PROVE DrivenInv'
  <2>1. \A d \in Deliveries : Exists(d)' =>
           /\ Exists(d) /\ status'[d] = status[d] /\ DestinationOf[d] # x
    BY <1>0, <1>14, Zenon DEF DeleteDestination, Exists, DeliveriesOK
  <2>2. \A j \in Jobs, d \in Deliveries : Drives(j, d)' <=> Drives(j, d)
    BY <1>14, Zenon DEF DeleteDestination, Drives, Ending
  <2>3. destinations' = destinations \ {x}
    BY <1>14, Zenon DEF DeleteDestination
  <2>4. \A d \in Deliveries : Exists(d)' => (Terminal(d)' <=> Terminal(d))
    BY <2>1, Zenon DEF Terminal
  <2> QED
    BY <2>1, <2>2, <2>3, <2>4, Zenon DEF DrivenInv
<1> QED
  BY <1>1, <1>3, <1>4, <1>5, <1>6, <1>7, <1>8, <1>9, <1>10, <1>11, <1>12,
     <1>13, <1>14
  DEF Next, vars, WorkerStep, RecoverLoad, RecoverDestination, RecoverFails,
      UpdateDestination, PauseDestination, ResumeDestination

\* Completing or cancelling a job (Work's returns) never strands a delivery:
\* an open one has a live job unless River discarded one of its jobs.
THEOREM NeverStranded == Spec => []StrandedOnlyByDiscard
<1>1. Init => DrivenInv
  BY DEF Init, DrivenInv, Exists
<1>2. DrivenInv => StrandedOnlyByDiscard
  BY Zenon DEF DrivenInv, StrandedOnlyByDiscard, Drives, HasLiveJob, Discarded
<1> QED
  BY <1>1, <1>2, TypeCorrect, DrivenStep, PTL DEF Spec
-----------------------------------------------------------------------------
(* Without faults, one recover call at a time *)

\* No query fails, no process dies, and nobody recovers two deliveries at once.
Calm == MaxFaults = 0 /\ \A r, s \in Requests : r = s

\* A job that will still be worked: it is queued, or its Work call has not
\* decided to end it.
Working(j) ==
    /\ state[j] \in {"queued", "running"}
    /\ pc[j] = "return" => Settled(j) = "queued"

\* The jobs that work are those of the open deliveries, one each; a deleted
\* delivery may have one too.
OneWorker ==
    /\ \A j \in Jobs : Working(j) =>
          status[delivery_id[j]] \in {"pending", "failed", "deleted"}
    /\ \A j, k \in Jobs :
          Working(j) /\ Working(k) /\ delivery_id[j] = delivery_id[k] => j = k
    /\ \A d \in Deliveries : status[d] \in {"pending", "failed"} =>
          \E j \in Jobs : Working(j) /\ delivery_id[j] = d

\* No job works on a delivery that is being recovered.
NoneInRecovery ==
    \A r \in Requests : req_pc[r] # "idle" =>
        /\ status[req_delivery[r]] \in {"dead_lettered", "deleted"}
        /\ \A j \in Jobs : Working(j) => delivery_id[j] # req_delivery[r]

\* Strengthening: every running job has its Work call.
CalmInv ==
    /\ \A j \in Jobs : state[j] = "running" => pc[j] # "idle"
    /\ OneWorker
    /\ NoneInRecovery

\* Without faults no step is one.
LEMMA NoFault ==
    ASSUME Calm, HistoryOK
    PROVE  ~Fault
BY DEF Calm, HistoryOK, Fault

\* A step that leaves deliveries and recoveries alone, and every job as busy
\* as it was.
LEMMA WorkersKept ==
    ASSUME OneWorker, NoneInRecovery,
           UNCHANGED <<status, delivery_id, req_pc, req_delivery>>,
           \A k \in Jobs : Working(k)' <=> Working(k)
    PROVE  OneWorker' /\ NoneInRecovery'
<1>1. OneWorker'
  BY Zenon DEF OneWorker
<1>2. NoneInRecovery'
  BY Zenon DEF NoneInRecovery
<1> QED
  BY <1>1, <1>2, Zenon

\* A step of job j on its delivery d, which no other job works on and nobody
\* recovers afterwards.
LEMMA WorkerMoves ==
    ASSUME OneWorker, NoneInRecovery, NEW j \in Jobs, NEW d \in Deliveries,
           \A k \in Jobs \ {j} : /\ Working(k)' <=> Working(k)
                                 /\ delivery_id'[k] = delivery_id[k],
           \A e \in Deliveries \ {d} : status'[e] = status[e],
           \A k \in Jobs : Working(k) => delivery_id[k] \in Deliveries,
           delivery_id'[j] = d,
           Working(j) => delivery_id[j] = d,
           \A k \in Jobs \ {j} : Working(k) => delivery_id[k] # d,
           Working(j)' => status'[d] \in {"pending", "failed", "deleted"},
           status'[d] \in {"pending", "failed"} => Working(j)',
           \A r \in Requests : req_pc'[r] # "idle" =>
              /\ req_pc[r] # "idle" /\ req_delivery'[r] = req_delivery[r]
              /\ req_delivery[r] \in Deliveries \ {d}
    PROVE  OneWorker' /\ NoneInRecovery'
<1>1. ASSUME NEW k \in Jobs, Working(k)'
      PROVE  status'[delivery_id'[k]] \in {"pending", "failed", "deleted"}
  <2>1. CASE k = j
    BY <1>1, <2>1, Zenon
  <2>2. CASE k # j
    <3>1. /\ Working(k) /\ delivery_id'[k] = delivery_id[k]
          /\ delivery_id[k] \in Deliveries \ {d}
      BY <1>1, <2>2, Zenon
    <3>2. /\ status[delivery_id[k]] \in {"pending", "failed", "deleted"}
          /\ status'[delivery_id[k]] = status[delivery_id[k]]
      BY <3>1, Zenon DEF OneWorker
    <3> QED
      BY <3>1, <3>2, Zenon
  <2> QED
    BY <2>1, <2>2, Zenon
<1>2. ASSUME NEW k \in Jobs, NEW l \in Jobs, Working(k)', Working(l)',
             delivery_id'[k] = delivery_id'[l]
      PROVE  k = l
  <2>1. CASE k = j \/ l = j
    BY <1>2, <2>1
  <2>2. CASE k # j /\ l # j
    <3>1. Working(k) /\ Working(l) /\ delivery_id[k] = delivery_id[l]
      BY <1>2, <2>2
    <3> QED
      BY <3>1, Zenon DEF OneWorker
  <2> QED
    BY <2>1, <2>2, Zenon
<1>3. ASSUME NEW e \in Deliveries, status'[e] \in {"pending", "failed"}
      PROVE  \E k \in Jobs : Working(k)' /\ delivery_id'[k] = e
  <2>1. CASE e = d
    BY <1>3, <2>1, Zenon
  <2>2. CASE e # d
    <3>1. PICK k \in Jobs : Working(k) /\ delivery_id[k] = e
      BY <1>3, <2>2, Zenon DEF OneWorker
    <3>2. k # j
      BY <2>2, <3>1, Zenon
    <3> QED
      BY <3>1, <3>2, Zenon
  <2> QED
    BY <2>1, <2>2, Zenon
<1>4. ASSUME NEW r \in Requests, req_pc'[r] # "idle"
      PROVE  /\ status'[req_delivery'[r]] \in {"dead_lettered", "deleted"}
             /\ \A k \in Jobs : Working(k)' => delivery_id'[k] # req_delivery'[r]
  <2>1. /\ req_pc[r] # "idle" /\ req_delivery'[r] = req_delivery[r]
        /\ req_delivery[r] \in Deliveries \ {d}
    BY <1>4, Zenon
  <2>2. /\ status[req_delivery[r]] \in {"dead_lettered", "deleted"}
        /\ status'[req_delivery[r]] = status[req_delivery[r]]
    BY <2>1, Zenon DEF NoneInRecovery
  <2>3. ASSUME NEW k \in Jobs, Working(k)'
        PROVE  delivery_id'[k] # req_delivery[r]
    <3>1. CASE k = j
      BY <2>1, <3>1
    <3>2. CASE k # j
      <4>1. Working(k) /\ delivery_id'[k] = delivery_id[k]
        BY <2>3, <3>2, Zenon
      <4> QED
        BY <2>1, <4>1, Zenon DEF NoneInRecovery
    <3> QED
      BY <3>1, <3>2, Zenon
  <2> QED
    BY <2>1, <2>2, <2>3, Zenon
<1>5. OneWorker'
  BY <1>1, <1>2, <1>3, Zenon DEF OneWorker
<1>6. NoneInRecovery'
  BY <1>4, Zenon DEF NoneInRecovery
<1> QED
  BY <1>5, <1>6, Zenon

\* A step of the Work call of j other than its last, on the tables of the
\* deliveries: j works before, so nothing else does on its delivery.
LEMMA CallWorks ==
    ASSUME OneWorker, NoneInRecovery, JobsOK, RunsOK, RequestsOK,
           NEW j \in Jobs, pc[j] \notin {"idle", "return"},
           UNCHANGED <<state, delivery_id, attempt, max_attempts, req_pc,
                       req_delivery>>,
           \A k \in Jobs \ {j} : pc'[k] = pc[k] /\ out'[k] = out[k],
           \A e \in Deliveries \ {delivery_id[j]} : status'[e] = status[e],
           Working(j)' =>
               status'[delivery_id[j]] \in {"pending", "failed", "deleted"},
           status'[delivery_id[j]] \in {"pending", "failed"} => Working(j)'
    PROVE  OneWorker' /\ NoneInRecovery'
<1>1. state[j] = "running" /\ delivery_id[j] \in Deliveries
  BY WorkedJob, Zenon
<1>2. Working(j)
  BY <1>1, Zenon DEF Working
<1>3. \A k \in Jobs \ {j} : Working(k)' <=> Working(k)
  BY Zenon DEF Working, Settled, AfterError
<1>4. \A k \in Jobs : Working(k) => delivery_id[k] \in Deliveries
  BY Zenon DEF Working, JobsOK
<1>5. \A k \in Jobs \ {j} : Working(k) => delivery_id[k] # delivery_id[j]
  BY <1>2, Zenon DEF OneWorker
<1>6. \A r \in Requests : req_pc[r] # "idle" =>
         req_delivery[r] \in Deliveries \ {delivery_id[j]}
  BY <1>2, Zenon DEF NoneInRecovery, RequestsOK
<1>7. PICK d \in Deliveries : d = delivery_id[j]
  BY <1>1, Zenon
<1> QED
  BY <1>2, <1>3, <1>4, <1>5, <1>6, <1>7, WorkerMoves, Zenon

\* Every step preserves CalmInv.  The last attempt that fails settles its
\* delivery in the transaction that records it, before the job ends, and only
\* a dead-lettered delivery, which has no job at work, gets a new one.
LEMMA CalmStep ==
    Calm /\ TypeOK /\ DrivenInv /\ CalmInv /\ [Next]_vars => CalmInv'
<1> SUFFICES ASSUME Calm, TypeOK, DrivenInv, CalmInv, [Next]_vars
             PROVE  CalmInv'
  BY Zenon
<1>0. JobsOK /\ RunsOK /\ DeliveriesOK /\ RequestsOK /\ HistoryOK
  BY Zenon DEF TypeOK
<1>a. OneWorker /\ NoneInRecovery
      /\ \A j \in Jobs : state[j] = "running" => pc[j] # "idle"
  BY Zenon DEF CalmInv
<1>b. ~Fault
  BY <1>0, NoFault, Zenon
<1>c. \A k \in Jobs : Working(k) => delivery_id[k] \in Deliveries
  BY <1>0, Zenon DEF Working, JobsOK
<1>1. CASE UNCHANGED <<status, jobVars, runVars, req_pc, req_delivery>>
  <2>1. \A k \in Jobs : Working(k)' <=> Working(k)
    BY <1>1, Zenon DEF Working, Settled, AfterError
  <2> QED
    BY <1>a, <1>1, <2>1, WorkersKept, Zenon DEF CalmInv
<1>2. ASSUME NEW j \in Jobs, NEW d \in Deliveries, NEW m,
             InsertDeliveryJob(j, d, m), UNCHANGED runVars
      PROVE  /\ Working(j)' /\ ~Working(j) /\ delivery_id'[j] = d
             /\ \A k \in Jobs \ {j} : /\ Working(k)' <=> Working(k)
                                      /\ delivery_id'[k] = delivery_id[k]
             /\ \A k \in Jobs : state'[k] = "running" => pc'[k] # "idle"
  <2>1. /\ state' = [state EXCEPT ![j] = "queued"] /\ state[j] = "none"
        /\ delivery_id' = [delivery_id EXCEPT ![j] = d]
        /\ attempt' = attempt /\ pc' = pc /\ out' = out
        /\ \A k \in Jobs \ {j} : max_attempts'[k] = max_attempts[k]
    BY <1>0, <1>2, Zenon DEF InsertDeliveryJob, JobsOK
  <2>2. pc[j] = "idle"
    BY <1>0, <2>1, Zenon DEF RunsOK
  <2>3. state'[j] = "queued" /\ delivery_id'[j] = d
    BY <1>0, <2>1, Zenon DEF JobsOK
  <2>4. \A k \in Jobs \ {j} : /\ state'[k] = state[k]
                              /\ delivery_id'[k] = delivery_id[k]
    BY <1>0, <2>1, Zenon DEF JobsOK
  <2>5. Working(j)' /\ ~Working(j)
    BY <2>1, <2>2, <2>3, Zenon DEF Working
  <2>6. \A k \in Jobs \ {j} : Working(k)' <=> Working(k)
    BY <2>1, <2>4, Zenon DEF Working, Settled, AfterError
  <2>7. \A k \in Jobs : state'[k] = "running" => pc'[k] # "idle"
    BY <1>a, <2>1, <2>3, <2>4, Zenon
  <2> QED
    BY <2>3, <2>4, <2>5, <2>6, <2>7, Zenon
<1>3. ASSUME NEW j \in Jobs, NEW d \in Deliveries, Enqueue(d, j)
      PROVE  CalmInv'
  <2>1. /\ status[d] = "none" /\ UNCHANGED <<runVars, req_pc, req_delivery>>
        /\ InsertDeliveryJob(j, d, policy[DestinationOf[d]])
        /\ status' = [status EXCEPT ![d] = "pending"]
    BY <1>3, Zenon DEF Enqueue
  <2>2. status'[d] = "pending"
        /\ \A e \in Deliveries \ {d} : status'[e] = status[e]
    BY <1>0, <2>1, Zenon DEF DeliveriesOK
  <2>3. \A k \in Jobs : Working(k) => delivery_id[k] # d
    BY <1>a, <2>1, Zenon DEF OneWorker
  <2>4. \A r \in Requests : req_pc[r] # "idle" =>
           req_delivery[r] \in Deliveries \ {d}
    BY <1>0, <1>a, <2>1, Zenon DEF NoneInRecovery, RequestsOK
  <2>5. /\ Working(j)' /\ ~Working(j) /\ delivery_id'[j] = d
        /\ \A k \in Jobs \ {j} : /\ Working(k)' <=> Working(k)
                                 /\ delivery_id'[k] = delivery_id[k]
        /\ \A k \in Jobs : state'[k] = "running" => pc'[k] # "idle"
    BY <1>2, <2>1, Zenon
  <2>6. OneWorker' /\ NoneInRecovery'
    <3>1. \A r \in Requests : req_pc'[r] # "idle" =>
             /\ req_pc[r] # "idle" /\ req_delivery'[r] = req_delivery[r]
             /\ req_delivery[r] \in Deliveries \ {d}
      BY <2>1, <2>4, Zenon
    <3>2. /\ status'[d] \in {"pending", "failed", "deleted"}
          /\ \A k \in Jobs \ {j} : Working(k) => delivery_id[k] # d
      BY <2>2, <2>3, Zenon
    <3> QED
      BY <1>a, <1>c, <2>2, <2>5, <3>1, <3>2, WorkerMoves
  <2> QED
    BY <2>5, <2>6, Zenon DEF CalmInv
<1>4. ASSUME NEW j \in Jobs, NEW r \in Requests, RecoverCommit(r, j)
      PROVE  CalmInv'
  <2>1. PICK d \in Deliveries : d = req_delivery[r]
    BY <1>0, <1>4, Zenon DEF RequestsOK, RecoverCommit
  <2>2. /\ req_pc[r] = "commit" /\ UNCHANGED runVars
        /\ InsertDeliveryJob(j, d, req_policy[r])
        /\ Answer(r)
    BY <1>4, <2>1, Zenon DEF RecoverCommit
  <2>3. /\ status'[d] \in {"pending", "deleted"}
        /\ \A e \in Deliveries \ {d} : status'[e] = status[e]
    <3>1. status[d] \in {"dead_lettered", "deleted"}
      BY <1>a, <2>1, <2>2, Zenon DEF NoneInRecovery
    <3> QED
      BY <1>0, <1>4, <2>1, <3>1, Zenon DEF RecoverCommit, DeliveriesOK, Exists
  <2>4. \A k \in Jobs : Working(k) => delivery_id[k] # d
    BY <1>a, <2>1, <2>2, Zenon DEF NoneInRecovery
  <2>5. \A s \in Requests : req_pc'[s] = "idle"
    BY <1>0, <2>2, Zenon DEF Calm, RequestsOK, Answer, RequestAt
  <2>6. /\ Working(j)' /\ ~Working(j) /\ delivery_id'[j] = d
        /\ \A k \in Jobs \ {j} : /\ Working(k)' <=> Working(k)
                                 /\ delivery_id'[k] = delivery_id[k]
        /\ \A k \in Jobs : state'[k] = "running" => pc'[k] # "idle"
    BY <1>2, <2>2, Zenon
  <2>7. OneWorker' /\ NoneInRecovery'
    <3>1. \A s \in Requests : req_pc'[s] # "idle" =>
             /\ req_pc[s] # "idle" /\ req_delivery'[s] = req_delivery[s]
             /\ req_delivery[s] \in Deliveries \ {d}
      BY <2>5, Zenon
    <3>2. /\ status'[d] \in {"pending", "failed", "deleted"}
          /\ \A e \in Deliveries \ {d} : status'[e] = status[e]
          /\ \A k \in Jobs \ {j} : Working(k) => delivery_id[k] # d
      BY <2>3, <2>4, Zenon
    <3> QED
      BY <1>a, <1>c, <2>6, <3>1, <3>2, WorkerMoves
  <2> QED
    BY <2>6, <2>7, Zenon DEF CalmInv
<1>5. ASSUME NEW j \in Jobs, Fetch(j) PROVE CalmInv'
  <2>1. /\ state[j] = "queued" /\ state'[j] = "running" /\ pc'[j] = "load"
        /\ \A k \in Jobs \ {j} :
              /\ state'[k] = state[k] /\ pc'[k] = pc[k] /\ out'[k] = out[k]
              /\ attempt'[k] = attempt[k]
        /\ UNCHANGED <<status, delivery_id, max_attempts, req_pc, req_delivery>>
    BY <1>0, <1>5, Zenon DEF Fetch, Goto, JobsOK, RunsOK
  <2>2. pc[j] = "idle"
    BY <1>0, <2>1, Zenon DEF RunsOK
  <2>3. \A k \in Jobs : Working(k)' <=> Working(k)
    BY <2>1, <2>2, Zenon DEF Working, Settled, AfterError
  <2> QED
    BY <1>a, <2>1, <2>3, WorkersKept, Zenon DEF CalmInv
<1>6. ASSUME NEW j \in Jobs, LoadDelivery(j) PROVE CalmInv'
  <2>1. PICK d \in Deliveries : d = delivery_id[j]
    BY <1>0, <1>6, WorkedJob, Zenon DEF LoadDelivery
  <2>2. /\ pc[j] = "load" /\ UNCHANGED <<status, jobVars, req_pc, req_delivery>>
        /\ \A k \in Jobs \ {j} : pc'[k] = pc[k] /\ out'[k] = out[k]
    BY <1>0, <1>6, Zenon DEF LoadDelivery, Goto, Return, RunsOK
  <2>3. state[j] = "running" /\ Working(j)
    BY <1>0, <2>2, WorkedJob, Zenon DEF Working
  <2>4. status[d] \in {"pending", "failed", "deleted"}
    BY <1>a, <2>1, <2>3, Zenon DEF OneWorker
  <2>5. pc'[j] # "idle" /\ (status[d] # "deleted" => pc'[j] = "destination")
    BY <1>0, <1>6, <2>1, <2>4, Zenon DEF LoadDelivery, Goto, Return, RunsOK
  <2>6. status[d] # "deleted" => Working(j)'
    BY <2>2, <2>3, <2>5, Zenon DEF Working
  <2>7. OneWorker' /\ NoneInRecovery'
    BY <1>0, <1>a, <2>1, <2>2, <2>4, <2>6, CallWorks, Zenon
  <2> QED
    BY <1>a, <2>2, <2>5, <2>7, Zenon DEF CalmInv
<1>7. ASSUME NEW j \in Jobs, LoadDestination(j) PROVE CalmInv'
  <2>1. PICK d \in Deliveries : d = delivery_id[j]
    BY <1>0, <1>7, WorkedJob, Zenon DEF LoadDestination
  <2>2. /\ pc[j] = "destination"
        /\ UNCHANGED <<status, jobVars, req_pc, req_delivery>>
        /\ \A k \in Jobs \ {j} : pc'[k] = pc[k] /\ out'[k] = out[k]
    BY <1>0, <1>7, Zenon DEF LoadDestination, Goto, Return, RunsOK
  <2>3. state[j] = "running" /\ Working(j)
    BY <1>0, <2>2, WorkedJob, Zenon DEF Working
  <2>4. status[d] \in {"pending", "failed", "deleted"}
    BY <1>a, <2>1, <2>3, Zenon DEF OneWorker
  <2>5. status[d] # "deleted" => DestinationOf[d] \in destinations
    BY <2>4, Zenon DEF DrivenInv, Exists
  <2>6. /\ pc'[j] # "idle"
        /\ status[d] # "deleted" =>
              pc'[j] = "dispatch" \/ out'[j] = "snooze"
    BY <1>0, <1>7, <2>1, <2>5, Zenon DEF LoadDestination, Goto, Return, RunsOK
  <2>7. status[d] # "deleted" => Working(j)'
    BY <2>2, <2>3, <2>6, Zenon DEF Working, Settled
  <2>8. OneWorker' /\ NoneInRecovery'
    BY <1>0, <1>a, <2>1, <2>2, <2>4, <2>7, CallWorks, Zenon
  <2> QED
    BY <1>a, <2>2, <2>6, <2>8, Zenon DEF CalmInv
<1>8. ASSUME NEW j \in Jobs, Dispatch(j) PROVE CalmInv'
  <2>1. /\ pc[j] = "dispatch" /\ pc'[j] = "record"
        /\ UNCHANGED <<status, jobVars, req_pc, req_delivery>>
        /\ \A k \in Jobs \ {j} : pc'[k] = pc[k] /\ out'[k] = out[k]
    BY <1>0, <1>8, Zenon DEF Dispatch, RunsOK
  <2>2. \A k \in Jobs : Working(k)' <=> Working(k)
    BY <2>1, Zenon DEF Working, Settled, AfterError
  <2> QED
    BY <1>a, <2>1, <2>2, WorkersKept, Zenon DEF CalmInv
<1>9. ASSUME NEW j \in Jobs, RecordAttempt(j) PROVE CalmInv'
  <2>1. PICK d \in Deliveries : d = delivery_id[j]
    BY <1>0, <1>9, WorkedJob, Zenon DEF RecordAttempt
  <2>2. /\ pc[j] = "record" /\ out[j] \in Results
        /\ UNCHANGED <<state, delivery_id, attempt, max_attempts, req_pc,
                       req_delivery>>
    BY <1>0, <1>9, Zenon DEF RecordAttempt, RunsOK
  <2>3. state[j] = "running" /\ Working(j)
    BY <1>0, <2>2, WorkedJob, Zenon DEF Working
  <2>4. status[d] \in {"pending", "failed", "deleted"}
    BY <1>a, <2>1, <2>3, Zenon DEF OneWorker
  <2>5. /\ pc'[j] = "return"
        /\ \A k \in Jobs \ {j} : pc'[k] = pc[k] /\ out'[k] = out[k]
    BY <1>0, <1>9, Zenon DEF RecordAttempt, Return, RunsOK
  <2>6. \A e \in Deliveries \ {d} : status'[e] = status[e]
    BY <1>0, <1>9, <2>1, Zenon DEF RecordAttempt, RecordOutcome, DeliveriesOK
  <2>7. /\ Working(j)' => status'[d] \in {"pending", "failed", "deleted"}
        /\ status'[d] \in {"pending", "failed"} => Working(j)'
    <3>1. CASE ~Exists(d)
      BY <1>9, <2>1, <2>4, <3>1, Zenon DEF RecordAttempt, Exists
    <3>2. CASE Exists(d)
      <4>1. /\ status'[d] = DeliveryStatus(out[j], attempt[j], max_attempts[j])
            /\ out'[j] = Outcome(out[j])
        BY <1>0, <1>9, <1>b, <2>1, <3>2, Zenon
        DEF RecordAttempt, RecordOutcome, Return, DeliveriesOK, RunsOK
      <4>2. attempt[j] \in Int /\ max_attempts[j] \in Int
        BY <1>0 DEF JobsOK
      <4>3. CASE out[j] = "retryable"
        <5>1. out'[j] = "error"
          BY <4>1, <4>3, Zenon DEF Outcome
        <5>2. Working(j)' <=> attempt[j] < max_attempts[j]
          BY <2>2, <2>3, <2>5, <5>1, Zenon DEF Working, Settled, AfterError
        <5>3. attempt[j] < max_attempts[j] <=> ~(attempt[j] >= max_attempts[j])
          BY <4>2
        <5>4. status'[d] = IF attempt[j] >= max_attempts[j]
                           THEN "dead_lettered" ELSE "failed"
          BY <4>1, <4>3, Zenon DEF DeliveryStatus
        <5> QED
          BY <5>2, <5>3, <5>4, Zenon
      <4>4. CASE out[j] # "retryable"
        <5>1. /\ status'[d] \in {"succeeded", "dead_lettered"}
              /\ out'[j] \in {"nil", "cancel"}
          BY <2>2, <4>1, <4>4, Zenon DEF DeliveryStatus, Outcome, Results
        <5>2. ~Working(j)'
          BY <2>5, <5>1, Zenon DEF Working, Settled
        <5> QED
          BY <5>1, <5>2, Zenon
      <4> QED
        BY <4>3, <4>4, Zenon
    <3> QED
      BY <3>1, <3>2, Zenon
  <2>8. OneWorker' /\ NoneInRecovery'
    BY <1>0, <1>a, <2>1, <2>2, <2>5, <2>6, <2>7, CallWorks, Zenon
  <2> QED
    BY <1>a, <2>2, <2>5, <2>8, Zenon DEF CalmInv
<1>10. ASSUME NEW j \in Jobs, Complete(j) PROVE CalmInv'
  <2>1. /\ pc[j] = "return" /\ out[j] \in Verdicts /\ state[j] = "running"
        /\ state'[j] = Settled(j) /\ pc'[j] = "idle"
        /\ \A k \in Jobs \ {j} :
              /\ state'[k] = state[k] /\ pc'[k] = pc[k] /\ out'[k] = out[k]
              /\ attempt'[k] = attempt[k]
        /\ UNCHANGED <<status, delivery_id, max_attempts, req_pc, req_delivery>>
    BY <1>0, <1>10, Zenon DEF Complete, Goto, JobsOK, RunsOK
  <2>2. Settled(j) \in {"queued", "completed", "cancelled", "discarded"}
    BY <1>0, <2>1, SettledType, Zenon
  <2>3. \A k \in Jobs \ {j} : Working(k)' <=> Working(k)
    BY <2>1, Zenon DEF Working, Settled, AfterError
  <2>4. Working(j)' <=> Working(j)
    BY <2>1, <2>2, Zenon DEF Working
  <2> QED
    BY <1>a, <2>1, <2>2, <2>3, <2>4, WorkersKept, Zenon DEF CalmInv
<1>11. ASSUME NEW j \in Jobs PROVE ~DatabaseFails(j) /\ ~Crash(j) /\ ~Rescue(j)
  BY <1>a, <1>b, Zenon DEF DatabaseFails, Crash, Rescue
<1>12. ASSUME NEW r \in Requests, NEW d \in Deliveries, RecoverLoad(r, d)
       PROVE  CalmInv'
  <2>1. /\ status[d] = "dead_lettered" /\ UNCHANGED <<status, jobVars, runVars>>
        /\ req_delivery'[r] = d
    BY <1>0, <1>12, Zenon DEF RecoverLoad, RequestAt, RequestsOK
  <2>2. \A k \in Jobs : Working(k)' <=> Working(k)
    BY <2>1, Zenon DEF Working, Settled, AfterError
  <2>3. \A k \in Jobs : Working(k) => delivery_id[k] # d
    BY <1>a, <2>1, Zenon DEF OneWorker
  <2>4. \A s \in Requests : req_delivery'[s] = d
    BY <2>1, Zenon DEF Calm
  <2>5. OneWorker'
    BY <1>a, <2>1, <2>2, Zenon DEF OneWorker
  <2>6. NoneInRecovery'
    BY <2>1, <2>2, <2>3, <2>4, Zenon DEF NoneInRecovery
  <2> QED
    BY <1>a, <2>1, <2>5, <2>6, Zenon DEF CalmInv
<1>13. ASSUME NEW r \in Requests, RecoverDestination(r) PROVE CalmInv'
  <2>1. /\ UNCHANGED <<status, jobVars, runVars>> /\ req_pc[r] # "idle"
        /\ \/ req_pc'[r] = "idle"
           \/ req_delivery'[r] = req_delivery[r]
    BY <1>0, <1>13, Zenon DEF RecoverDestination, Answer, RequestAt, RequestsOK
  <2>2. \A k \in Jobs : Working(k)' <=> Working(k)
    BY <2>1, Zenon DEF Working, Settled, AfterError
  <2>3. \A s \in Requests : s = r
    BY Zenon DEF Calm
  <2>4. OneWorker'
    BY <1>a, <2>1, <2>2, Zenon DEF OneWorker
  <2>5. NoneInRecovery'
    BY <1>a, <2>1, <2>2, <2>3, Zenon DEF NoneInRecovery
  <2> QED
    BY <1>a, <2>1, <2>4, <2>5, Zenon DEF CalmInv
<1>14. ASSUME NEW x \in Destinations, DeleteDestination(x) PROVE CalmInv'
  <2>1. /\ UNCHANGED <<jobVars, runVars, req_pc, req_delivery>>
        /\ \A d \in Deliveries : status'[d] \in {status[d], "deleted"}
    BY <1>14, Zenon DEF DeleteDestination
  <2>2. \A k \in Jobs : Working(k)' <=> Working(k)
    BY <2>1, Zenon DEF Working, Settled, AfterError
  <2>3. ASSUME NEW j \in Jobs, Working(j)
        PROVE  status'[delivery_id[j]] \in {"pending", "failed", "deleted"}
    BY <1>a, <1>c, <2>1, <2>3, Zenon DEF OneWorker
  <2>4. ASSUME NEW d \in Deliveries, status'[d] \in {"pending", "failed"}
        PROVE  status[d] \in {"pending", "failed"}
    BY <2>1, <2>4, Zenon
  <2>5. OneWorker'
    BY <1>a, <2>1, <2>2, <2>3, <2>4, Zenon DEF OneWorker
  <2>6. ASSUME NEW r \in Requests, req_pc[r] # "idle"
        PROVE  status'[req_delivery[r]] \in {"dead_lettered", "deleted"}
    BY <1>0, <1>a, <2>1, <2>6, Zenon DEF NoneInRecovery, RequestsOK
  <2>7. NoneInRecovery'
    BY <1>a, <2>1, <2>2, <2>6, Zenon DEF NoneInRecovery
  <2> QED
    BY <1>a, <2>1, <2>5, <2>7, Zenon DEF CalmInv
<1>15. ASSUME NEW x \in Destinations,
              \/ \E m \in Policies : UpdateDestination(x, m)
              \/ PauseDestination(x)
              \/ ResumeDestination(x)
       PROVE  CalmInv'
  BY <1>1, <1>15, Zenon
  DEF UpdateDestination, PauseDestination, ResumeDestination
<1>16. ASSUME NEW r \in Requests PROVE ~RecoverFails(r)
  BY <1>b, Zenon DEF RecoverFails
<1>17. CASE UNCHANGED vars
  BY <1>1, <1>17, Zenon DEF vars
<1> QED
  BY <1>3, <1>4, <1>5, <1>6, <1>7, <1>8, <1>9, <1>10, <1>11, <1>12, <1>13,
     <1>14, <1>15, <1>16, <1>17, Zenon
  DEF Next, WorkerStep

\* With no fault and one recover call at a time, ...
LEMMA CalmInductive == Calm => (Spec => [](TypeOK /\ DrivenInv /\ CalmInv))
<1> SUFFICES ASSUME Calm
             PROVE  Spec => [](TypeOK /\ DrivenInv /\ CalmInv)
  BY Zenon
<1>1. Init => DrivenInv /\ CalmInv
  BY DEF Init, DrivenInv, Exists, CalmInv, OneWorker, NoneInRecovery, Working
<1>2. TypeOK /\ DrivenInv /\ CalmInv /\ [Next]_vars => CalmInv'
  BY CalmStep, Zenon
<1> QED
  BY <1>1, <1>2, TypeCorrect, DrivenStep, PTL DEF Spec

\* ... no open delivery is without a job: one whose attempts are exhausted is
\* dead-lettered (deliveryStatus and River count the same attempts).
THEOREM CalmExhausted == Calm => (Spec => []ExhaustedIsDeadLettered)
<1> SUFFICES ASSUME Calm
             PROVE  Spec => []ExhaustedIsDeadLettered
  BY Zenon
<1>1. TypeOK /\ CalmInv => ExhaustedIsDeadLettered
  <2> SUFFICES ASSUME TypeOK, CalmInv, NEW d \in Deliveries,
                      Exists(d), ~Terminal(d)
               PROVE  HasLiveJob(d)
    BY Zenon DEF ExhaustedIsDeadLettered
  <2>1. status[d] \in {"pending", "failed"}
    BY DEF TypeOK, DeliveriesOK, Statuses, Exists, Terminal
  <2> QED
    BY <2>1, Zenon DEF CalmInv, OneWorker, Working, HasLiveJob
<1> QED
  BY <1>1, CalmInductive, PTL

\* ... every step of the worker, the queue and the two APIs is one of the life
\* cycle, or leaves every status alone, ...
LEMMA LifecycleStep ==
    Calm /\ TypeOK /\ CalmInv /\ [Next]_vars => [Lifecycle!Next]_status
<1> SUFFICES ASSUME Calm, TypeOK, CalmInv, Next, status' # status
             PROVE  Lifecycle!Next
  BY Zenon DEF vars
<1>0. JobsOK /\ RunsOK /\ DeliveriesOK /\ RequestsOK
      /\ OneWorker /\ NoneInRecovery
  BY Zenon DEF TypeOK, CalmInv
<1>1. ASSUME NEW j \in Jobs, NEW d \in Deliveries, Enqueue(d, j)
      PROVE  Lifecycle!Create(d)
  BY <1>1, Zenon DEF Enqueue, Lifecycle!Create
<1>2. ASSUME NEW j \in Jobs, NEW r \in Requests, RecoverCommit(r, j)
      PROVE  \E d \in Deliveries : Lifecycle!Recover(d)
  <2>1. req_pc[r] = "commit" /\ req_delivery[r] \in Deliveries
    BY <1>0, <1>2, Zenon DEF RecoverCommit, RequestsOK
  <2>2. /\ Exists(req_delivery[r])
        /\ status' = [status EXCEPT ![req_delivery[r]] = "pending"]
    BY <1>2, Zenon DEF RecoverCommit
  <2>3. status[req_delivery[r]] = "dead_lettered"
    BY <1>0, <2>1, <2>2, Zenon DEF NoneInRecovery, Exists
  <2> QED
    BY <2>1, <2>2, <2>3, Zenon DEF Lifecycle!Recover
<1>3. ASSUME NEW j \in Jobs, RecordAttempt(j)
      PROVE  \E d \in Deliveries, o \in {"failed", "succeeded", "dead_lettered"} :
                Lifecycle!Attempt(d, o)
  <2>1. PICK d \in Deliveries : d = delivery_id[j]
    BY <1>0, <1>3, WorkedJob, Zenon DEF RecordAttempt
  <2>2. Working(j) /\ out[j] \in Results
    BY <1>0, <1>3, WorkedJob, Zenon DEF RecordAttempt, Working, RunsOK
  <2>3. PICK o : o = DeliveryStatus(out[j], attempt[j], max_attempts[j])
    BY Zenon
  <2>4. Exists(d) /\ status' = [status EXCEPT ![d] = o]
    BY <1>3, <2>1, <2>3, Zenon DEF RecordAttempt, RecordOutcome
  <2>5. status[d] \in {"pending", "failed"}
    BY <1>0, <2>1, <2>2, <2>4, Zenon DEF OneWorker, Exists
  <2>6. o \in {"failed", "succeeded", "dead_lettered"}
    BY <2>2, <2>3, Zenon DEF DeliveryStatus, Results
  <2> QED
    BY <2>4, <2>5, <2>6, Zenon DEF Lifecycle!Attempt, Lifecycle!Open
<1>4. ASSUME NEW x \in Destinations, DeleteDestination(x)
      PROVE  \E S \in SUBSET Deliveries : Lifecycle!Delete(S)
  <2> DEFINE S == {d \in Deliveries : DestinationOf[d] = x}
  <2>1. \A d \in Deliveries :
           IF DestinationOf[d] = x /\ Exists(d) THEN status'[d] = "deleted"
                                                ELSE status'[d] = status[d]
    BY <1>4, Zenon DEF DeleteDestination
  <2>2. status' = [d \in Deliveries |-> status'[d]]
    BY <1>4, Zenon DEF DeleteDestination
  <2>3. \A d \in Deliveries :
           status'[d] = IF d \in S /\ status[d] # "none" THEN "deleted"
                                                         ELSE status[d]
    BY <2>1, Zenon DEF Exists
  <2>4. Lifecycle!Delete(S)
    BY <2>2, <2>3 DEF Lifecycle!Delete
  <2> QED
    BY <2>4, Zenon
<1>5. \/ \E j \in Jobs, d \in Deliveries : Enqueue(d, j)
      \/ \E j \in Jobs, r \in Requests : RecoverCommit(r, j)
      \/ \E j \in Jobs : RecordAttempt(j)
      \/ \E x \in Destinations : DeleteDestination(x)
  BY Zenon
  DEF Next, WorkerStep, Fetch, LoadDelivery, LoadDestination, Dispatch,
      Complete, DatabaseFails, Crash, Rescue, RecoverLoad, RecoverDestination,
      RecoverFails, UpdateDestination, PauseDestination, ResumeDestination
<1> QED
  BY <1>1, <1>2, <1>3, <1>4, <1>5, Zenon DEF Lifecycle!Next

\* ... and so the promised life cycle of a delivery is implemented.
THEOREM LifecycleImplemented == Calm => (Spec => ImplementsLifecycle)
<1> SUFFICES ASSUME Calm
             PROVE  Spec => ImplementsLifecycle
  BY Zenon
<1>1. Init => Lifecycle!Init
  BY Zenon DEF Init, Lifecycle!Init
<1>2. TypeOK /\ CalmInv /\ [Next]_vars => [Lifecycle!Next]_status
  BY LifecycleStep, Zenon
<1> QED
  BY <1>1, <1>2, CalmInductive, PTL
  DEF Spec, ImplementsLifecycle, Lifecycle!Spec

\* In particular a calm gateway keeps what recover's comment says: a delivery
\* goes back to pending only from dead_lettered.
THEOREM CalmRecovers == Calm => (Spec => RecoveryOnlyFromDeadLettered)
<1> SUFFICES ASSUME Calm
             PROVE  Spec => RecoveryOnlyFromDeadLettered
  BY Zenon
<1>1. ASSUME TypeOK, CalmInv, [Next]_vars,
             NEW d \in Deliveries, status'[d] = "pending"
      PROVE  status[d] \in {"none", "pending", "dead_lettered"}
  <2>1. [Lifecycle!Next]_status
    BY <1>1, LifecycleStep, Zenon
  <2>2. status \in [Deliveries -> Statuses]
    BY <1>1, Zenon DEF TypeOK, DeliveriesOK
  <2>3. CASE UNCHANGED status
    BY <1>1, <2>3
  <2>4. ASSUME NEW e \in Deliveries,
               Lifecycle!Create(e) \/ Lifecycle!Recover(e)
        PROVE  status[d] \in {"none", "pending", "dead_lettered"}
    BY <1>1, <2>2, <2>4 DEF Lifecycle!Create, Lifecycle!Recover
  <2>5. ASSUME NEW e \in Deliveries,
               NEW o \in {"failed", "succeeded", "dead_lettered"},
               Lifecycle!Attempt(e, o)
        PROVE  status[d] \in {"none", "pending", "dead_lettered"}
    BY <1>1, <2>2, <2>5 DEF Lifecycle!Attempt
  <2>6. ASSUME NEW S \in SUBSET Deliveries, Lifecycle!Delete(S)
        PROVE  status[d] \in {"none", "pending", "dead_lettered"}
    BY <1>1, <2>2, <2>6 DEF Lifecycle!Delete
  <2> QED
    BY <2>1, <2>3, <2>4, <2>5, <2>6, Zenon DEF Lifecycle!Next
<1>2. TypeOK /\ CalmInv /\ [Next]_vars =>
         [\A d \in Deliveries : status'[d] = "pending" =>
             status[d] \in {"none", "pending", "dead_lettered"}]_vars
  BY <1>1, Zenon
<1> QED
  BY <1>2, CalmInductive, PTL DEF Spec, RecoveryOnlyFromDeadLettered
-----------------------------------------------------------------------------
(* No dispatch after a success *)

\* Without recover calls a delivery has one job ever, which goes on to its
\* dispatch only while the delivery has not succeeded.
SoleJob ==
    /\ \A j, k \in Jobs :
          state[j] # "none" /\ state[k] # "none"
              /\ delivery_id[j] = delivery_id[k] => j = k
    /\ \A j \in Jobs : state[j] # "none" =>
          /\ status[delivery_id[j]] # "none"
          /\ pc[j] \in {"destination", "dispatch"} =>
                status[delivery_id[j]] # "succeeded"

\* A step that inserts no job, and after which a job about to dispatch was
\* so before.
LEMMA SoleJobKept ==
    ASSUME SoleJob, NEW S \in SUBSET Jobs, UNCHANGED <<status, delivery_id>>,
           \A k \in Jobs : state'[k] # "none" => state[k] # "none",
           \A k \in Jobs \ S : pc'[k] \in {"destination", "dispatch"} =>
              pc[k] \in {"destination", "dispatch"},
           \A k \in S : pc'[k] \in {"destination", "dispatch"} =>
              status[delivery_id[k]] # "succeeded"
    PROVE  SoleJob'
<1>1. ASSUME NEW k \in Jobs, state'[k] # "none"
      PROVE  /\ status[delivery_id[k]] # "none"
             /\ pc'[k] \in {"destination", "dispatch"} =>
                   status[delivery_id[k]] # "succeeded"
  BY <1>1, Zenon DEF SoleJob
<1>2. \A j, k \in Jobs :
         state'[j] # "none" /\ state'[k] # "none"
             /\ delivery_id[j] = delivery_id[k] => j = k
  BY Zenon DEF SoleJob
<1> QED
  BY <1>1, <1>2, Zenon DEF SoleJob

\* Without recover calls every step preserves SoleJob: only ingest inserts a
\* job, for a delivery that is new, and LoadDelivery stops at a success.
LEMMA SoleJobStep ==
    Requests = {} /\ TypeOK /\ SoleJob /\ [Next]_vars => SoleJob'
<1> SUFFICES ASSUME Requests = {}, TypeOK, SoleJob, [Next]_vars
             PROVE  SoleJob'
  BY Zenon
<1>0. JobsOK /\ RunsOK /\ DeliveriesOK
  BY Zenon DEF TypeOK
<1>1. CASE UNCHANGED <<status, delivery_id, state, pc>>
  BY <1>1, Zenon DEF SoleJob
<1>2. ASSUME NEW j \in Jobs, NEW d \in Deliveries, Enqueue(d, j)
      PROVE  SoleJob'
  <2>1. /\ status[d] = "none" /\ state[j] = "none"
        /\ status'[d] = "pending" /\ delivery_id'[j] = d /\ pc' = pc
        /\ \A e \in Deliveries \ {d} : status'[e] = status[e]
        /\ \A k \in Jobs \ {j} : /\ state'[k] = state[k]
                                 /\ delivery_id'[k] = delivery_id[k]
    BY <1>0, <1>2, Zenon
    DEF Enqueue, InsertDeliveryJob, DeliveriesOK, JobsOK
  <2>2. ASSUME NEW k \in Jobs \ {j}, state[k] # "none"
        PROVE  /\ delivery_id[k] \in Deliveries \ {d}
               /\ status'[delivery_id[k]] = status[delivery_id[k]]
    BY <1>0, <2>1, <2>2, Zenon DEF SoleJob, JobsOK
  <2>3. ASSUME NEW k \in Jobs, state'[k] # "none"
        PROVE  /\ status'[delivery_id'[k]] # "none"
               /\ pc'[k] \in {"destination", "dispatch"} =>
                     status'[delivery_id'[k]] # "succeeded"
    <3>1. CASE k = j
      BY <2>1, <3>1, Zenon
    <3>2. CASE k # j
      <4>1. /\ state[k] # "none" /\ delivery_id'[k] = delivery_id[k]
            /\ pc'[k] = pc[k]
        BY <2>1, <2>3, <3>2, Zenon
      <4>2. status'[delivery_id[k]] = status[delivery_id[k]]
        BY <2>2, <3>2, <4>1, Zenon
      <4> QED
        BY <4>1, <4>2, Zenon DEF SoleJob
    <3> QED
      BY <3>1, <3>2, Zenon
  <2>4. ASSUME NEW k \in Jobs, NEW l \in Jobs, state'[k] # "none",
               state'[l] # "none", delivery_id'[k] = delivery_id'[l]
        PROVE  k = l
    <3>1. CASE k = j \/ l = j
      BY <2>1, <2>2, <2>4, <3>1
    <3>2. CASE k # j /\ l # j
      <4>1. /\ state[k] # "none" /\ state[l] # "none"
            /\ delivery_id[k] = delivery_id[l]
        BY <2>1, <2>4, <3>2
      <4> QED
        BY <4>1, Zenon DEF SoleJob
    <3> QED
      BY <3>1, <3>2, Zenon
  <2> QED
    BY <2>3, <2>4, Zenon DEF SoleJob
<1>3. ASSUME NEW j \in Jobs, Fetch(j) \/ Complete(j) \/ Rescue(j)
      PROVE  SoleJob'
  <2>1. /\ UNCHANGED <<status, delivery_id>> /\ state[j] # "none"
        /\ pc'[j] \in {pc[j], "load", "idle"}
        /\ \A k \in Jobs \ {j} : state'[k] = state[k] /\ pc'[k] = pc[k]
    BY <1>0, <1>3, Zenon DEF Fetch, Complete, Rescue, Goto, JobsOK, RunsOK
  <2>2. \A k \in Jobs : state'[k] # "none" => state[k] # "none"
    BY <2>1, Zenon
  <2>3. \A k \in Jobs \ {} : pc'[k] \in {"destination", "dispatch"} =>
           pc[k] \in {"destination", "dispatch"}
    BY <2>1
  <2> QED
    BY <2>1, <2>2, <2>3, SoleJobKept
<1>4. ASSUME NEW j \in Jobs, LoadDelivery(j) \/ LoadDestination(j)
      PROVE  SoleJob'
  <2>1. /\ UNCHANGED <<status, delivery_id, state>> /\ state[j] # "none"
        /\ \A k \in Jobs \ {j} : pc'[k] = pc[k]
    BY <1>0, <1>4 DEF LoadDelivery, LoadDestination, Goto, Return, RunsOK
  <2>2. ASSUME pc'[j] \in {"destination", "dispatch"} =>
                  status[delivery_id[j]] # "succeeded"
        PROVE  SoleJob'
    <3>1. /\ {j} \in SUBSET Jobs
          /\ \A k \in Jobs \ {j} : pc'[k] \in {"destination", "dispatch"} =>
                pc[k] \in {"destination", "dispatch"}
          /\ \A k \in {j} : pc'[k] \in {"destination", "dispatch"} =>
                status[delivery_id[k]] # "succeeded"
      BY <2>2, <2>1
    <3> QED
      BY <2>1, <3>1, SoleJobKept, Zenon
  <2>3. CASE LoadDelivery(j)
    <3>1. pc'[j] \in {"destination", "dispatch"} =>
             status[delivery_id[j]] # "succeeded"
      BY <1>0, <2>3 DEF LoadDelivery, Goto, Return, RunsOK
    <3> QED
      BY <2>2, <3>1, Zenon
  <2>4. CASE LoadDestination(j)
    <3>1. status[delivery_id[j]] # "succeeded"
      BY <2>1, <2>4, Zenon DEF LoadDestination, SoleJob
    <3> QED
      BY <2>2, <3>1, Zenon
  <2> QED
    BY <1>4, <2>3, <2>4, Zenon
<1>5. ASSUME NEW j \in Jobs, Dispatch(j) \/ DatabaseFails(j) \/ Crash(j)
      PROVE  SoleJob'
  <2>1. /\ UNCHANGED <<status, delivery_id, state>>
        /\ pc'[j] \in {"record", "return", "idle"}
        /\ \A k \in Jobs \ {j} : pc'[k] = pc[k]
    BY <1>0, <1>5 DEF Dispatch, DatabaseFails, Crash, Goto, Return, RunsOK
  <2>2. \A k \in Jobs \ {} : pc'[k] \in {"destination", "dispatch"} =>
           pc[k] \in {"destination", "dispatch"}
    BY <2>1
  <2> QED
    BY <2>1, <2>2, SoleJobKept
<1>6. ASSUME NEW j \in Jobs, RecordAttempt(j) PROVE SoleJob'
  <2>1. PICK d \in Deliveries : d = delivery_id[j]
    BY <1>0, <1>6, WorkedJob, Zenon DEF RecordAttempt
  <2>2. /\ UNCHANGED <<delivery_id, state>> /\ pc'[j] = "return"
        /\ state[j] # "none" /\ out[j] \in Results
        /\ \A k \in Jobs \ {j} : pc'[k] = pc[k]
    BY <1>0, <1>6 DEF RecordAttempt, Return, RunsOK
  <2>3. \A e \in Deliveries \ {d} : status'[e] = status[e]
    BY <1>0, <1>6, <2>1, Zenon DEF RecordAttempt, RecordOutcome, DeliveriesOK
  <2>4. status'[d] # "none"
    <3>1. CASE Exists(d)
      <4>1. status'[d] = DeliveryStatus(out[j], attempt[j], max_attempts[j])
        BY <1>0, <1>6, <2>1, <3>1, Zenon
        DEF RecordAttempt, RecordOutcome, DeliveriesOK
      <4> QED
        BY <2>2, <4>1, Zenon DEF DeliveryStatus, Results
    <3>2. CASE ~Exists(d)
      BY <1>6, <2>1, <2>2, <3>2, Zenon DEF RecordAttempt, SoleJob
    <3> QED
      BY <3>1, <3>2, Zenon
  <2>5. ASSUME NEW k \in Jobs, state[k] # "none", k # j
        PROVE  /\ delivery_id[k] \in Deliveries \ {d}
               /\ status'[delivery_id[k]] = status[delivery_id[k]]
    BY <1>0, <2>1, <2>2, <2>3, <2>5, Zenon DEF SoleJob, JobsOK
  <2>6. ASSUME NEW k \in Jobs, state[k] # "none"
        PROVE  /\ status'[delivery_id[k]] # "none"
               /\ pc'[k] \in {"destination", "dispatch"} =>
                     status'[delivery_id[k]] # "succeeded"
    <3>1. CASE k = j
      BY <2>1, <2>2, <2>4, <3>1
    <3>2. CASE k # j
      BY <2>2, <2>5, <2>6, <3>2, Zenon DEF SoleJob
    <3> QED
      BY <3>1, <3>2, Zenon
  <2> QED
    BY <2>2, <2>6, Zenon DEF SoleJob
<1>7. ASSUME NEW x \in Destinations, DeleteDestination(x) PROVE SoleJob'
  <2>1. /\ UNCHANGED <<delivery_id, state, pc>>
        /\ \A d \in Deliveries : status'[d] \in {status[d], "deleted"}
    BY <1>7, Zenon DEF DeleteDestination
  <2>2. ASSUME NEW k \in Jobs, state[k] # "none"
        PROVE  /\ status'[delivery_id[k]] # "none"
               /\ pc[k] \in {"destination", "dispatch"} =>
                     status'[delivery_id[k]] # "succeeded"
    <3>1. status'[delivery_id[k]] \in {status[delivery_id[k]], "deleted"}
      BY <1>0, <2>1, <2>2, Zenon DEF JobsOK
    <3> QED
      BY <2>2, <3>1, Zenon DEF SoleJob
  <2> QED
    BY <2>1, <2>2, Zenon DEF SoleJob
<1>8. ASSUME NEW x \in Destinations,
             \/ \E m \in Policies : UpdateDestination(x, m)
             \/ PauseDestination(x)
             \/ ResumeDestination(x)
      PROVE  SoleJob'
  BY <1>1, <1>8, Zenon
  DEF UpdateDestination, PauseDestination, ResumeDestination
<1>9. CASE UNCHANGED vars
  BY <1>1, <1>9, Zenon DEF vars
<1> QED
  BY <1>2, <1>3, <1>4, <1>5, <1>6, <1>7, <1>8, <1>9, Zenon
  DEF Next, WorkerStep

\* Only Dispatch counts a dispatch.
LEMMA DispatchCounts ==
    ASSUME TypeOK, [Next]_vars, NEW j \in Jobs, dispatched'[j] # dispatched[j]
    PROVE  pc[j] = "dispatch"
<1>1. ASSUME NEW k \in Jobs, Dispatch(k) PROVE pc[j] = "dispatch"
  BY <1>1, Zenon DEF Dispatch, TypeOK, HistoryOK
<1>2. dispatched' = dispatched \/ \E k \in Jobs : Dispatch(k)
  BY Zenon
  DEF Next, vars, WorkerStep, Enqueue, Fetch, LoadDelivery, LoadDestination,
      RecordAttempt, Complete, DatabaseFails, Crash, Rescue, RecoverCommit,
      RecoverLoad, RecoverDestination, RecoverFails, UpdateDestination,
      PauseDestination, ResumeDestination, DeleteDestination
<1> QED
  BY <1>1, <1>2, Zenon

\* "Don't re-POST if a delivery has already succeeded": where nobody recovers
\* deliveries, whatever crashes, fails and is retried, and where recoveries do
\* not overlap and nothing fails, Work never dispatches a delivery that has
\* succeeded.
THEOREM NoRepost ==
    Requests = {} \/ Calm => (Spec => NoRepostAfterSuccess)
<1>1. ASSUME Requests = {} PROVE Spec => NoRepostAfterSuccess
  <2>1. Init => SoleJob
    BY DEF Init, SoleJob
  <2>2. TypeOK /\ SoleJob /\ [Next]_vars => SoleJob'
    BY <1>1, SoleJobStep, Zenon
  <2>3. TypeOK /\ SoleJob /\ [Next]_vars =>
           [\A j \in Jobs : dispatched'[j] # dispatched[j] =>
               status[delivery_id[j]] # "succeeded"]_vars
    <3> SUFFICES ASSUME TypeOK, SoleJob, [Next]_vars, NEW j \in Jobs,
                        dispatched'[j] # dispatched[j]
                 PROVE  status[delivery_id[j]] # "succeeded"
      BY Zenon
    <3>1. pc[j] = "dispatch"
      BY DispatchCounts, Zenon
    <3>2. state[j] # "none"
      BY <3>1, Zenon DEF TypeOK, RunsOK
    <3> QED
      BY <3>1, <3>2, Zenon DEF SoleJob
  <2> QED
    BY <2>1, <2>2, <2>3, TypeCorrect, PTL DEF Spec, NoRepostAfterSuccess
<1>2. ASSUME Calm PROVE Spec => NoRepostAfterSuccess
  <2>1. Spec => [](TypeOK /\ DrivenInv /\ CalmInv)
    BY <1>2, CalmInductive, Zenon
  <2>2. TypeOK /\ CalmInv /\ [Next]_vars =>
           [\A j \in Jobs : dispatched'[j] # dispatched[j] =>
               status[delivery_id[j]] # "succeeded"]_vars
    <3> SUFFICES ASSUME TypeOK, CalmInv, [Next]_vars, NEW j \in Jobs,
                        dispatched'[j] # dispatched[j]
                 PROVE  status[delivery_id[j]] # "succeeded"
      BY Zenon
    <3>1. pc[j] = "dispatch"
      BY DispatchCounts, Zenon
    <3>2. Working(j)
      BY <3>1, Zenon DEF TypeOK, RunsOK, Working
    <3> QED
      BY <3>2, Zenon DEF CalmInv, OneWorker
  <2> QED
    BY <2>1, <2>2, PTL DEF Spec, NoRepostAfterSuccess
<1> QED
  BY <1>1, <1>2, Zenon
=============================================================================
