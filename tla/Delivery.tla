------------------------------ MODULE Delivery ------------------------------
(***************************************************************************)
(* The life of a delivery: the rows of the deliveries, delivery_attempts   *)
(* and destinations tables, the River jobs that drive the deliveries, the  *)
(* delivery worker that runs those jobs (internal/delivery/worker.go), the *)
(* recovery endpoint (internal/api/deliveries.go) and the destinations API *)
(* (internal/api/destinations.go), all running concurrently.               *)
(*                                                                         *)
(* A step is one database transaction, one dispatch to a destination or    *)
(* one write of River's to its river_job table.  Between two steps of a    *)
(* handler anything else may happen, and the process that runs it may die. *)
(* A running job is worked by one goroutine, so the state of a handler is  *)
(* indexed by its job.                                                     *)
(*                                                                         *)
(* Abstracted: time (a job that waits for its backoff, its snooze or its   *)
(* turn is "queued"), payloads, headers and response bodies, and how an    *)
(* attempt was made: HTTP and tunnel dispatch return the same three kinds  *)
(* of result.  Events are never deleted by the gateway, so the "event      *)
(* gone" return of Work is not taken.                                      *)
(***************************************************************************)
EXTENDS Integers, FiniteSets

CONSTANTS
    Deliveries,         \* ids of rows of the deliveries table
    Destinations,       \* ids of rows of the destinations table
    DestinationOf,      \* deliveries.destination_id
    MaxJobs,            \* bound: number of river_job rows ever inserted
    Requests,           \* concurrent POST /api/deliveries/{id}/recover calls
    Policies,           \* values of destinations.max_attempts the API stores
    RateLimited,        \* destinations with a rate_limit_per_second
    WorkerConcurrency,  \* queue.WorkerConcurrency
    MaxFaults           \* bound: failed database calls and process crashes

\* The API replaces a max_attempts of 0 by its default and rejects no other
\* integer, so Policies may hold negative ones.
ASSUME ConstantsAssumption ==
    /\ DestinationOf \in [Deliveries -> Destinations]
    /\ MaxJobs \in Nat
    /\ Policies \subseteq Int
    /\ RateLimited \subseteq Destinations
    /\ WorkerConcurrency \in Nat
    /\ MaxFaults \in Nat

VARIABLES
    \* the destinations table: the rows there are, those paused, max_attempts
    destinations, paused_at, policy,
    \* the deliveries table; dead_lettered_at holds the rows where it is set
    status, attempt_count, dead_lettered_at, river_job_id,
    \* the delivery_attempts table
    attempts,
    \* the river_job table
    state, delivery_id, attempt, max_attempts,
    \* the Work call of each job being worked: where it is, and the result of
    \* its dispatch (at "record") or the value it returned (at "return")
    pc, out,
    \* the recover calls in progress: where, for what, with which policy
    req_pc, req_delivery, req_policy,
    \* history: dispatches made by each job, faults so far
    dispatched, faults

destinationVars == <<destinations, paused_at, policy>>
deliveryVars == <<status, attempt_count, dead_lettered_at, river_job_id>>
jobVars == <<state, delivery_id, attempt, max_attempts>>
runVars == <<pc, out>>
requestVars == <<req_pc, req_delivery, req_policy>>

vars == <<destinationVars, deliveryVars, attempts, jobVars, runVars,
          requestVars, dispatched, faults>>

Jobs == 1..MaxJobs
-----------------------------------------------------------------------------
Results == {"succeeded", "retryable", "terminal"}
Verdicts == {"nil", "error", "cancel", "snooze"}

\* "none": not inserted yet; "deleted": removed with its destination.
Statuses == {"none", "pending", "failed", "succeeded", "dead_lettered",
             "deleted"}
JobStates == {"none", "queued", "running", "completed", "cancelled",
              "discarded"}
PCs == {"idle", "load", "destination", "dispatch", "record", "return"}

AttemptRow == [delivery: Deliveries, attempt_number: Nat, result: Results]

Exists(d) == status[d] \notin {"none", "deleted"}
Terminal(d) == status[d] \in {"succeeded", "dead_lettered"}

\* A job River will still work, or is working.
HasLiveJob(d) ==
    \E j \in Jobs : state[j] \in {"queued", "running"} /\ delivery_id[j] = d

Init ==
    /\ destinations = Destinations
    /\ paused_at = {}
    /\ policy \in [Destinations -> Policies]
    /\ status = [d \in Deliveries |-> "none"]
    /\ attempt_count = [d \in Deliveries |-> 0]
    /\ dead_lettered_at = {}
    /\ river_job_id = [d \in Deliveries |-> 0]
    /\ attempts = {}
    /\ state = [j \in Jobs |-> "none"]
    /\ delivery_id = [j \in Jobs |-> "none"]
    /\ attempt = [j \in Jobs |-> 0]
    /\ max_attempts = [j \in Jobs |-> 0]
    /\ pc = [j \in Jobs |-> "idle"]
    /\ out = [j \in Jobs |-> "none"]
    /\ req_pc = [r \in Requests |-> "idle"]
    /\ req_delivery = [r \in Requests |-> "none"]
    /\ req_policy = [r \in Requests |-> 0]
    /\ dispatched = [j \in Jobs |-> 0]
    /\ faults = 0
-----------------------------------------------------------------------------
(* Enqueueing *)

\* Mutant: a max_attempts below one is stored as it is.
InsertDeliveryJobUnclamped(j, d, m) ==
    /\ state[j] = "none"
    /\ \A k \in 1..(j - 1) : state[k] # "none"
    /\ state' = [state EXCEPT ![j] = "queued"]
    /\ delivery_id' = [delivery_id EXCEPT ![j] = d]
    /\ max_attempts' = [max_attempts EXCEPT ![j] = m]
    /\ attempt' = attempt

\* InsertDeliveryJob: a job for d whose budget is the snapshot of policy m.
\* River hands out job ids in order.
InsertDeliveryJob(j, d, m) ==
    /\ state[j] = "none"
    /\ \A k \in 1..(j - 1) : state[k] # "none"
    /\ state' = [state EXCEPT ![j] = "queued"]
    /\ delivery_id' = [delivery_id EXCEPT ![j] = d]
    /\ max_attempts' = [max_attempts EXCEPT ![j] = IF m < 1 THEN 1 ELSE m]
    /\ attempt' = attempt

\* One target of EnqueueDeliveriesTo: the delivery, its job and the link
\* between them commit together.  A destination that is gone violates the
\* foreign key, and nothing is inserted.
Enqueue(d, j) ==
    /\ status[d] = "none"
    /\ DestinationOf[d] \in destinations
    /\ InsertDeliveryJob(j, d, policy[DestinationOf[d]])
    /\ status' = [status EXCEPT ![d] = "pending"]
    /\ river_job_id' = [river_job_id EXCEPT ![d] = j]
    /\ UNCHANGED <<destinationVars, attempt_count, dead_lettered_at, attempts,
                   runVars, requestVars, dispatched, faults>>
-----------------------------------------------------------------------------
(* River, from how the worker client uses it *)

Goto(j, to) ==
    /\ pc' = [pc EXCEPT ![j] = to]
    /\ out' = [out EXCEPT ![j] = "none"]

Return(j, verdict) ==
    /\ pc' = [pc EXCEPT ![j] = "return"]
    /\ out' = [out EXCEPT ![j] = verdict]

Fault ==
    /\ faults < MaxFaults
    /\ faults' = faults + 1

\* A free worker slot takes a queued job: the attempt counter goes up and
\* Work is called.
Fetch(j) ==
    /\ state[j] = "queued"
    /\ Cardinality({k \in Jobs : pc[k] # "idle"}) < WorkerConcurrency
    /\ state' = [state EXCEPT ![j] = "running"]
    /\ attempt' = [attempt EXCEPT ![j] = @ + 1]
    /\ Goto(j, "load")
    /\ UNCHANGED <<destinationVars, deliveryVars, attempts, delivery_id,
                   max_attempts, requestVars, dispatched, faults>>

\* The state an error leaves a job in: retried until its budget is spent.
AfterError(j) ==
    IF attempt[j] < max_attempts[j] THEN "queued" ELSE "discarded"

\* What River writes for the value Work returned.
Settled(j) ==
    CASE out[j] = "nil"    -> "completed"
      [] out[j] = "cancel" -> "cancelled"
      [] out[j] = "snooze" -> "queued"
      [] out[j] = "error"  -> AfterError(j)

\* Work has returned; River's completer persists the job's new state.  A
\* snooze gives the attempt back.
Complete(j) ==
    /\ pc[j] = "return"
    /\ state' = [state EXCEPT ![j] = Settled(j)]
    /\ attempt' = [attempt EXCEPT ![j] =
                      IF out[j] = "snooze" THEN @ - 1 ELSE @]
    /\ Goto(j, "idle")
    /\ UNCHANGED <<destinationVars, deliveryVars, attempts, delivery_id,
                   max_attempts, requestVars, dispatched, faults>>

\* The process working j dies (or exits when its 15 s shutdown is over); the
\* job stays "running" in the table.
Crash(j) ==
    /\ pc[j] # "idle"
    /\ Fault
    /\ Goto(j, "idle")
    /\ UNCHANGED <<destinationVars, deliveryVars, attempts, jobVars,
                   requestVars, dispatched>>

\* Mutant: the rescuer takes a job that is still being worked.
RescueTooEarly(j) ==
    /\ state[j] = "running"
    /\ state' = [state EXCEPT ![j] = AfterError(j)]
    /\ UNCHANGED <<destinationVars, deliveryVars, attempts, delivery_id,
                   attempt, max_attempts, runVars, requestVars, dispatched,
                   faults>>

\* Mutant: the rescuer overlooks jobs on their first attempt.
RescueRetriesOnly(j) ==
    /\ state[j] = "running"
    /\ pc[j] = "idle"
    /\ attempt[j] > 1
    /\ state' = [state EXCEPT ![j] = AfterError(j)]
    /\ UNCHANGED <<destinationVars, deliveryVars, attempts, delivery_id,
                   attempt, max_attempts, runVars, requestVars, dispatched,
                   faults>>

\* River's rescuer finds a job that has been "running" for too long.
Rescue(j) ==
    /\ state[j] = "running"
    /\ pc[j] = "idle"
    /\ state' = [state EXCEPT ![j] = AfterError(j)]
    /\ UNCHANGED <<destinationVars, deliveryVars, attempts, delivery_id,
                   attempt, max_attempts, runVars, requestVars, dispatched,
                   faults>>
-----------------------------------------------------------------------------
(* Worker.Work, step by step *)

\* Mutant: no check that the delivery has already succeeded.
LoadDeliveryUnchecked(j) ==
    /\ pc[j] = "load"
    /\ IF status[delivery_id[j]] = "deleted"
       THEN Return(j, "nil")
       ELSE Goto(j, "destination")
    /\ UNCHANGED <<destinationVars, deliveryVars, attempts, jobVars,
                   requestVars, dispatched, faults>>

\* GetDelivery: a row that is gone or has succeeded completes the job.
LoadDelivery(j) ==
    /\ pc[j] = "load"
    /\ IF status[delivery_id[j]] \in {"deleted", "succeeded"}
       THEN Return(j, "nil")
       ELSE Goto(j, "destination")
    /\ UNCHANGED <<destinationVars, deliveryVars, attempts, jobVars,
                   requestVars, dispatched, faults>>

\* GetDestination, the pause check and the pacer: gone completes the job,
\* paused or over its rate snoozes it.
LoadDestination(j) ==
    LET x == DestinationOf[delivery_id[j]] IN
    /\ pc[j] = "destination"
    /\ \/ x \notin destinations /\ Return(j, "nil")
       \/ /\ x \in destinations
          /\ x \in paused_at \cup RateLimited
          /\ Return(j, "snooze")
       \/ x \in destinations \ paused_at /\ Goto(j, "dispatch")
    /\ UNCHANGED <<destinationVars, deliveryVars, attempts, jobVars,
                   requestVars, dispatched, faults>>

\* dispatch or dispatchTunnel: one try.
Dispatch(j) ==
    /\ pc[j] = "dispatch"
    /\ pc' = [pc EXCEPT ![j] = "record"]
    /\ \E result \in Results : out' = [out EXCEPT ![j] = result]
    /\ dispatched' = [dispatched EXCEPT ![j] = @ + 1]
    /\ UNCHANGED <<destinationVars, deliveryVars, attempts, jobVars,
                   requestVars, faults>>

\* Mutant: the last attempt is not recognised as the last.
DeliveryStatusOffByOne(result, n, max) ==
    CASE result = "succeeded" -> "succeeded"
      [] result = "terminal"  -> "dead_lettered"
      [] result = "retryable" -> IF n > max THEN "dead_lettered" ELSE "failed"

\* deliveryStatus
DeliveryStatus(result, n, max) ==
    CASE result = "succeeded" -> "succeeded"
      [] result = "terminal"  -> "dead_lettered"
      [] result = "retryable" ->
            IF n >= max THEN "dead_lettered" ELSE "failed"

\* Mutant: a success is kept when a second job of the delivery fails.
RecordOutcomeSticky(d, new, result) ==
    LET n == attempt_count[d] + 1
        kept == IF status[d] = "succeeded" THEN "succeeded" ELSE new IN
    /\ status' = [status EXCEPT ![d] = kept]
    /\ attempt_count' = [attempt_count EXCEPT ![d] = n]
    /\ dead_lettered_at' = IF kept = "dead_lettered"
                           THEN dead_lettered_at \cup {d}
                           ELSE dead_lettered_at
    /\ attempts' = attempts \cup
            {[delivery |-> d, attempt_number |-> n, result |-> result]}

\* RecordDeliveryOutcome and InsertDeliveryAttempt, in one transaction.
RecordOutcome(d, new, result) ==
    LET n == attempt_count[d] + 1 IN
    /\ status' = [status EXCEPT ![d] = new]
    /\ attempt_count' = [attempt_count EXCEPT ![d] = n]
    /\ dead_lettered_at' = IF new = "dead_lettered"
                           THEN dead_lettered_at \cup {d}
                           ELSE dead_lettered_at
    /\ attempts' = attempts \cup
            {[delivery |-> d, attempt_number |-> n, result |-> result]}

\* The value Work returns once the attempt is recorded.
Outcome(result) ==
    CASE result = "succeeded" -> "nil"
      [] result = "terminal"  -> "cancel"
      [] result = "retryable" -> "error"

\* Mutant: an attempt that ends after another job's success is not recorded.
RecordAttemptUnlessSettled(j) ==
    LET d == delivery_id[j] IN
    /\ pc[j] = "record"
    /\ IF Exists(d) /\ status[d] # "succeeded"
       THEN RecordOutcome(d,
                DeliveryStatus(out[j], attempt[j], max_attempts[j]), out[j])
       ELSE UNCHANGED <<status, attempt_count, dead_lettered_at, attempts>>
    /\ Return(j, Outcome(out[j]))
    /\ UNCHANGED <<destinationVars, river_job_id, jobVars, requestVars,
                   dispatched, faults>>

\* recordAttempt and the returns after it.  A row deleted in the meantime is
\* an error.
RecordAttempt(j) ==
    LET d == delivery_id[j] IN
    /\ pc[j] = "record"
    /\ \/ /\ Exists(d)
          /\ RecordOutcome(d,
                DeliveryStatus(out[j], attempt[j], max_attempts[j]), out[j])
          /\ \/ Return(j, Outcome(out[j])) /\ faults' = faults
             \* the commit is applied but its reply is lost
             \/ Return(j, "error") /\ Fault
       \/ /\ ~Exists(d)
          /\ Return(j, "error")
          /\ UNCHANGED <<status, attempt_count, dead_lettered_at, attempts,
                         faults>>
    /\ UNCHANGED <<destinationVars, river_job_id, jobVars, requestVars,
                   dispatched>>

\* A query or transaction of Work fails (also: the job's context is
\* cancelled by River's job timeout); nothing is written.
DatabaseFails(j) ==
    /\ pc[j] \in {"load", "destination", "dispatch", "record"}
    /\ Fault
    /\ Return(j, "error")
    /\ UNCHANGED <<destinationVars, deliveryVars, attempts, jobVars,
                   requestVars, dispatched>>
-----------------------------------------------------------------------------
(* POST /api/deliveries/{id}/recover *)

RequestAt(r, to, d, m) ==
    /\ req_pc' = [req_pc EXCEPT ![r] = to]
    /\ req_delivery' = [req_delivery EXCEPT ![r] = d]
    /\ req_policy' = [req_policy EXCEPT ![r] = m]

\* The answer is sent: the call is over.
Answer(r) == RequestAt(r, "idle", "none", 0)

\* Mutant: any delivery can be recovered.
RecoverLoadUnchecked(r, d) ==
    /\ req_pc[r] = "idle"
    /\ Exists(d)
    /\ RequestAt(r, "destination", d, 0)
    /\ UNCHANGED <<destinationVars, deliveryVars, attempts, jobVars, runVars,
                   dispatched, faults>>

\* The status is read outside the transaction that resets it.  Any other
\* status answers 404 or 409 and changes nothing.
RecoverLoad(r, d) ==
    /\ req_pc[r] = "idle"
    /\ status[d] = "dead_lettered"
    /\ RequestAt(r, "destination", d, 0)
    /\ UNCHANGED <<destinationVars, deliveryVars, attempts, jobVars, runVars,
                   dispatched, faults>>

\* The current policy is read, or the call ends with 409.
RecoverDestination(r) ==
    LET d == req_delivery[r] IN
    /\ req_pc[r] = "destination"
    /\ IF DestinationOf[d] \in destinations
       THEN RequestAt(r, "commit", d, policy[DestinationOf[d]])
       ELSE Answer(r)
    /\ UNCHANGED <<destinationVars, deliveryVars, attempts, jobVars, runVars,
                   dispatched, faults>>

\* Mutant: recovery starts the numbering of attempts again.
RecoverCommitResetsCount(r, j) ==
    LET d == req_delivery[r] IN
    /\ req_pc[r] = "commit"
    /\ InsertDeliveryJob(j, d, req_policy[r])
    /\ IF Exists(d)
       THEN /\ status' = [status EXCEPT ![d] = "pending"]
            /\ attempt_count' = [attempt_count EXCEPT ![d] = 0]
            /\ dead_lettered_at' = dead_lettered_at \ {d}
            /\ river_job_id' = [river_job_id EXCEPT ![d] = j]
       ELSE UNCHANGED deliveryVars
    /\ Answer(r)
    /\ UNCHANGED <<destinationVars, attempts, runVars, dispatched, faults>>

\* Mutant: the reset commits without a job.
RecoverCommitWithoutJob(r, j) ==
    LET d == req_delivery[r] IN
    /\ req_pc[r] = "commit"
    /\ state[j] = "none"
    /\ status' = [status EXCEPT ![d] = IF Exists(d) THEN "pending" ELSE @]
    /\ dead_lettered_at' = dead_lettered_at \ {d}
    /\ Answer(r)
    /\ UNCHANGED <<destinationVars, attempt_count, river_job_id, attempts,
                   jobVars, runVars, dispatched, faults>>

\* ResetDeliveryForRecovery, InsertDeliveryJob and SetDeliveryRiverJobID in
\* one transaction.  The updates match no row when the delivery is gone; the
\* job is inserted all the same.
RecoverCommit(r, j) ==
    LET d == req_delivery[r] IN
    /\ req_pc[r] = "commit"
    /\ InsertDeliveryJob(j, d, req_policy[r])
    /\ IF Exists(d)
       THEN /\ status' = [status EXCEPT ![d] = "pending"]
            /\ dead_lettered_at' = dead_lettered_at \ {d}
            /\ river_job_id' = [river_job_id EXCEPT ![d] = j]
       ELSE UNCHANGED <<status, dead_lettered_at, river_job_id>>
    /\ Answer(r)
    /\ UNCHANGED <<destinationVars, attempt_count, attempts, runVars,
                   dispatched, faults>>

\* A query fails or the caller disconnects: 500, nothing is written.
RecoverFails(r) ==
    /\ req_pc[r] # "idle"
    /\ Fault
    /\ Answer(r)
    /\ UNCHANGED <<destinationVars, deliveryVars, attempts, jobVars, runVars,
                   dispatched>>
-----------------------------------------------------------------------------
(* The destinations API *)

UpdateDestination(x, m) ==
    /\ x \in destinations
    /\ policy' = [policy EXCEPT ![x] = m]
    /\ UNCHANGED <<destinations, paused_at, deliveryVars, attempts, jobVars,
                   runVars, requestVars, dispatched, faults>>

PauseDestination(x) ==
    /\ x \in destinations
    /\ paused_at' = paused_at \cup {x}
    /\ UNCHANGED <<destinations, policy, deliveryVars, attempts, jobVars,
                   runVars, requestVars, dispatched, faults>>

ResumeDestination(x) ==
    /\ x \in destinations
    /\ paused_at' = paused_at \ {x}
    /\ UNCHANGED <<destinations, policy, deliveryVars, attempts, jobVars,
                   runVars, requestVars, dispatched, faults>>

\* The foreign keys take the deliveries and their attempts along; the jobs
\* stay in the queue.
DeleteDestination(x) ==
    /\ x \in destinations
    /\ destinations' = destinations \ {x}
    /\ paused_at' = paused_at \ {x}
    /\ status' = [d \in Deliveries |->
            IF DestinationOf[d] = x /\ Exists(d) THEN "deleted" ELSE status[d]]
    /\ dead_lettered_at' = {d \in dead_lettered_at : DestinationOf[d] # x}
    /\ attempts' = {a \in attempts : DestinationOf[a.delivery] # x}
    /\ UNCHANGED <<policy, attempt_count, river_job_id, jobVars, runVars,
                   requestVars, dispatched, faults>>
-----------------------------------------------------------------------------
WorkerStep(j) ==
    \/ LoadDelivery(j)
    \/ LoadDestination(j)
    \/ Dispatch(j)
    \/ RecordAttempt(j)
    \/ Complete(j)

Next ==
    \/ \E j \in Jobs :
          \/ \E d \in Deliveries : Enqueue(d, j)
          \/ \E r \in Requests : RecoverCommit(r, j)
          \/ Fetch(j)
          \/ WorkerStep(j)
          \/ DatabaseFails(j)
          \/ Crash(j)
          \/ Rescue(j)
    \/ \E r \in Requests :
          \/ \E d \in Deliveries : RecoverLoad(r, d)
          \/ RecoverDestination(r)
          \/ RecoverFails(r)
    \/ \E x \in Destinations :
          \/ \E m \in Policies : UpdateDestination(x, m)
          \/ PauseDestination(x)
          \/ ResumeDestination(x)
          \/ DeleteDestination(x)

Spec == Init /\ [][Next]_vars

\* Fairness: River keeps fetching (oldest first, so a queued job is not passed
\* over for ever when slots keep freeing up), a handler keeps running (every
\* call it makes has a timeout), a result is persisted and the rescuer runs.
\* Nobody has to call the API.
Fairness ==
    \A j \in Jobs : /\ SF_vars(Fetch(j))
                    /\ WF_vars(WorkerStep(j))
                    /\ WF_vars(Rescue(j))

FairSpec == Spec /\ Fairness
-----------------------------------------------------------------------------
(* Properties *)

DestinationsOK ==
    /\ destinations \subseteq Destinations
    /\ paused_at \subseteq destinations
    /\ policy \in [Destinations -> Policies]

DeliveriesOK ==
    /\ status \in [Deliveries -> Statuses]
    /\ attempt_count \in [Deliveries -> Nat]
    /\ dead_lettered_at \subseteq Deliveries
    /\ river_job_id \in [Deliveries -> Nat]
    /\ attempts \subseteq AttemptRow

JobsOK ==
    /\ state \in [Jobs -> JobStates]
    /\ delivery_id \in [Jobs -> Deliveries \cup {"none"}]
    /\ attempt \in [Jobs -> Int]
    /\ max_attempts \in [Jobs -> Nat]
    /\ \A j \in Jobs : state[j] # "none" => delivery_id[j] \in Deliveries

\* A job being worked is "running" in the table, and out goes with pc.
RunsOK ==
    /\ pc \in [Jobs -> PCs]
    /\ out \in [Jobs -> Results \cup Verdicts \cup {"none"}]
    /\ \A j \in Jobs :
          /\ pc[j] # "idle" => state[j] = "running"
          /\ pc[j] = "record" => out[j] \in Results
          /\ pc[j] = "return" => out[j] \in Verdicts

RequestsOK ==
    /\ req_pc \in [Requests -> {"idle", "destination", "commit"}]
    /\ req_delivery \in [Requests -> Deliveries \cup {"none"}]
    /\ req_policy \in [Requests -> Int]
    /\ \A r \in Requests : req_pc[r] # "idle" => req_delivery[r] \in Deliveries

HistoryOK ==
    /\ dispatched \in [Jobs -> Nat]
    /\ faults \in 0..MaxFaults

\* The type of every table and of every handler's local state.
TypeOK ==
    /\ DestinationsOK
    /\ DeliveriesOK
    /\ JobsOK
    /\ RunsOK
    /\ RequestsOK
    /\ HistoryOK

AttemptsOf(d) == {a \in attempts : a.delivery = d}

\* recordAttempt: "the trace and the delivery state never disagree".  The
\* attempt rows of a delivery are numbered 1 to attempt_count without a gap or
\* a repetition, through retries, recoveries and concurrent jobs, ...
AttemptsNumbered ==
    \A d \in Deliveries : Exists(d) =>
        /\ \A a \in AttemptsOf(d) : a.attempt_number \in 1..attempt_count[d]
        /\ \A n \in 1..attempt_count[d] :
              \E a \in AttemptsOf(d) : a.attempt_number = n
        /\ \A a, b \in AttemptsOf(d) :
              a.attempt_number = b.attempt_number => a = b

\* ... and the newest of them explains the status: success for "succeeded", a
\* failure for "failed" and "dead_lettered".
StatusExplained ==
    \A d \in Deliveries :
        /\ status[d] = "succeeded" =>
              \E a \in AttemptsOf(d) : /\ a.attempt_number = attempt_count[d]
                                       /\ a.result = "succeeded"
        /\ status[d] \in {"failed", "dead_lettered"} =>
              \E a \in AttemptsOf(d) : /\ a.attempt_number = attempt_count[d]
                                       /\ a.result # "succeeded"

\* The attempt budget.  A job never dispatches more often than its attempt
\* counter says and never more than max_attempts times, and only a dispatch or
\* a fault uses an attempt up: a snooze (paused or paced destination) does
\* not.
AttemptBudget ==
    \A j \in Jobs :
        /\ dispatched[j] <= attempt[j]
        /\ attempt[j] <= max_attempts[j]
        /\ state[j] = "queued" => attempt[j] <= dispatched[j] + faults

\* A job of d was discarded: its last attempt ended in an error.
Discarded(d) ==
    \E j \in Jobs : state[j] = "discarded" /\ delivery_id[j] = d

\* A delivery that is neither succeeded nor dead-lettered is being driven by a
\* job, unless one of its jobs was discarded: completing or cancelling a job
\* never strands a delivery.
StrandedOnlyByDiscard ==
    \A d \in Deliveries :
        Exists(d) /\ ~Terminal(d) => HasLiveJob(d) \/ Discarded(d)

\* The same without the excuse: the dead-letter state is there for every
\* delivery whose attempts are exhausted.
ExhaustedIsDeadLettered ==
    \A d \in Deliveries : Exists(d) /\ ~Terminal(d) => HasLiveJob(d)

\* "Don't re-POST if a delivery has already succeeded."
NoRepostAfterSuccess ==
    [][\A j \in Jobs : dispatched'[j] # dispatched[j] =>
          status[delivery_id[j]] # "succeeded"]_vars

\* "recovery is only valid from this state": a delivery goes back to pending
\* only from dead_lettered.
RecoveryOnlyFromDeadLettered ==
    [][\A d \in Deliveries : status'[d] = "pending" =>
          status[d] \in {"none", "pending", "dead_lettered"}]_vars

\* Under FairSpec a delivery that has neither succeeded nor been dead-lettered
\* gets there, unless its destination is deleted or paused on the way or a
\* fault has made River discard one of its jobs.
EventuallySettled ==
    \A d \in Deliveries :
        (Exists(d) /\ ~Terminal(d)) ~>
            \/ ~Exists(d)
            \/ Terminal(d)
            \/ DestinationOf[d] \in paused_at
            \/ Discarded(d)
-----------------------------------------------------------------------------
Lifecycle == INSTANCE DeliveryLifecycle
                 WITH Deliveries <- Deliveries, status <- status

\* Without faults, and with one recovery request at a time, the worker, the
\* queue and the two APIs together implement the promised life cycle: success
\* is final, a worker never touches a dead-lettered delivery, recovery starts
\* from dead_lettered only.
ImplementsLifecycle == Lifecycle!Spec

=============================================================================
