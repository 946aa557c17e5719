# webhook-gateway: TLA+ specifications and proofs

The gateway receives webhooks from providers, stores them, and delivers them to
configured destinations with retries. This directory holds TLA+ models of its
parts, TLC configurations that check them on small instances, and TLAPS proofs,
for every size of the instance, of every safety and action property that holds in
the runs but one that sums over jobs, a few under a condition that the theorem states. All file
references are relative to `src/`.

## Inventory

| Part | State | Operations | Hard behaviour |
|---|---|---|---|
| Ingest (`internal/ingest`) | events, dedup_index, deliveries, jobs | ProcessEvent (insert, claim, rules, fan-out, commit, ack), dedup cleanup | concurrent transactions on one key, rollback of the claim holder, `now()` fixed per transaction, edits between statements |
| Rules (`internal/rules`) | rules | Evaluate, Validate | first match wins, broken rules fail open |
| Delivery worker (`internal/delivery/worker.go`, `dispatch.go`) | deliveries, delivery_attempts, river_job | Work, recordAttempt | crash between steps, retry of what was done, two jobs for one delivery |
| Recovery API (`internal/api/deliveries.go`) | deliveries, river_job | recover | status checked outside the transaction that resets it |
| Destinations, routes, rules APIs (`internal/api`) | destinations, routes, rules | create, update, delete, pause, resume | cascades under running handlers |
| Tunnel (`internal/tunnel`, `cli/internal/tunnel`) | registry, pending acks, sockets, ephemeral destinations | attach, route, ready, deliver, ack, detach, boot sweep | lost sockets, late acks, restarts |
| Bulk replay (`internal/api/replay.go`, `internal/delivery/replay_worker.go`) | replays, deliveries | bulkReplay, replayEvent, Work | one attempt only, a transaction per event, counts |
| Alerting (`internal/alerting`) | alert_state | Run, maybeFire | cooldown, failing channels, overlapping checks |
| Pacing, rate limit, backoff (`pacing.go`, `rate_limit.go`, `retry.go`) | token buckets | reserve, allow, NextRetry | rounding, resets, overflow |
| Sources (`internal/api/sources.go`, `internal/sourcedef`, `internal/crypto`) | sources, their encrypted secrets | create, test event, Sign, Verify, dedupeKey | seconds passing between sign and verify, restart with another key |
| Event log (`internal/api/events.go`) | events, deliveries, delivery_attempts | list (keyset paging), trace | late commits, status changes between pages and queries |
| Sessions, API keys (`internal/auth`, `internal/api/middleware`) | a browser's cookie; api_keys | login, renewal, logout; create, use, touch, revoke | responses out of order, late goroutines |
| Reconnect loop (`cli/internal/tunnel/listen.go`) | backoff, forwards in flight | Listen, runSession | a gateway that comes, goes and refuses |
| Configuration, providers list, CLI commands, dashboard | read-only or sequential | parsing, rendering | |

`PROJECT.json` lists every part with its status, and the hazards with the line
where each bites.

## Modules

| Module | Models |
|---|---|
| `Delivery` | a delivery's life: queue, worker, recovery API, destinations API |
| `DeliveryLifecycle` | what the API promises about a delivery's status (abstract) |
| `Ingest` | concurrent ProcessEvent transactions, dedupe, rules, fan-out, cleanup, routes/rules/destinations APIs |
| `Inbox` | what a provider that posts events is promised (abstract) |
| `Tunnel` | tunnel sessions, the registry, Deliver calls, the CLI's end of the socket |
| `Replay` | the replay endpoints, the bulk-replay job and its row |
| `Alerting` | overlapping alert checks, cooldown, channels |
| `Pacing` | the token buckets of the pacer and of the ingest rate limiter |
| `Reconnect` | the CLI's reconnect loop |
| `Sessions` | the dashboard's login cookie in one browser |
| `ApiKeys` | API keys: creation, use, revocation, last_used_at |
| `EventLog` | a client paging through the events, and the trace view |
| `Sources` | creating sources, signing and verifying, secrets, dedupe keys |
| `Retry` | the retry schedule of a job that keeps failing |
| `DeliveryProofs`, `IngestProofs`, `TunnelProofs`, `ReplayProofs`, `AlertingProofs`, `PacingProofs` | TLAPS proofs about the module of that name (`TunnelProofs` also about `Reconnect`) |
| `ApiProofs` | TLAPS proofs about `ApiKeys`, `Sessions` and `Sources` |
| `LogRetryProofs` | TLAPS proofs about `Retry` and `EventLog` |
| `MCDelivery`, `MCIngest`, `MCTunnel`, `MCReplay`, `MCAlerting`, `MCApi` | the instances TLC checks |

The modules meet at the tables they share: `Ingest` and `Replay` create the
deliveries whose life `Delivery` describes, `Delivery` lets a rate-limited
destination snooze at will where `Pacing` says when it does, a tunnel dispatch
in `Delivery` is a Deliver call of `Tunnel`, and `Replay` and `Alerting` see
deliveries only through the outcomes `Delivery` records. `Sources` says which
dedupe key an event brings to `Ingest`, `Retry` when a failed job of `Delivery`
is due again, and `Reconnect` when the CLI starts another session of `Tunnel`.
`EventLog` relies on the numbering of attempts proved for `Delivery`. Each module
repeats what it needs of the others as actions of its environment.

### Delivery

One variable per table column that matters (`status`, `attempt_count`,
`dead_lettered_at`, `attempts`, River's `state`, `attempt`, `max_attempts`),
plus the program counter of the Work call of each job and of each recover call.
A step is one transaction, one dispatch, or one write of River's. The actions
`LoadDelivery`, `LoadDestination`, `Dispatch`, `RecordAttempt` are `Worker.Work`
cut at its database calls; `Fetch`, `Complete`, `Rescue` are River (external,
modelled from its use); `RecoverLoad`, `RecoverDestination`, `RecoverCommit` are
the recover handler cut where other handlers can get in between. `Crash`,
`DatabaseFails`, `RecoverFails` and the lost commit reply in `RecordAttempt` are
the faults, bounded by `MaxFaults`. Time is abstracted: a job waiting for its
backoff, snooze or turn is `queued`.

### Ingest

An event is named by the ProcessEvent call that carries it. Each call has a
program counter, its `now()` and its uncommitted writes, which `Commit`
publishes together. `lock` is the row lock that `ClaimDedupeKey` takes (also when
it finds a live claim). `Rollback` is any failed statement, disconnect or crash.
The APIs edit routes, rules and destinations between any two statements.
Operators named after queries (`InsertEvent`, `InsertRoute`,
`ListEnabledDeliveryTargetsForSource`, ...) are the SQL statements.

`Inbox` is the promise without transactions: an event is stored in one step with
its reason and its deliveries, or never; a duplicate follows its original; a 200
follows the event. The refinement mapping reads `outcome` off the committed rows
and `answer` off the position of the call (`Promise` in `Ingest`).

### Tunnel

A session owns one socket and one destination row. The session handler is cut
into attach, register, one step per route, ready, read loop, unregister and
detach; a Deliver call into lookup, pending entry, write, wait, and the deferred
removal. Frames travel in order over two sequences. `Restart` is a crash plus the
boot sweep, `OverlappingBoot` the sweep of a second process while this one still
serves. An INSERT of the attach may be applied with its reply lost, which leaves a row
that no session owns. Several calls may be for one delivery, as when it is recovered
while its first frame is unanswered. `Reconnect` abstracts a session to the forwards
it has in flight, since
`runSession` waits for them before the loop goes on.

### Replay

A step of the job is one transaction: `Load` (GetReplay), `Select` (one snapshot
of the matching events), `ReplayOne` per event, and `Finish` or `Fail`. A query
fails for a reason of its own or because the job's context has expired
(`Expire`); `Fail` runs on the same context. A write may also be applied with its
reply lost. A filter is the set of events its
conditions let through, with an optional delivery status.

### Alerting

Each run has its own `now`, as in the code, and is cut at its queries and
notifications. After `Timeout` its queries fail and only the SMTP channel, which
ignores the context, still delivers. A crash is a run that takes no further step.
Meanwhile deliveries settle and are recovered. `recorded` keeps, for each fire that
was stored, its pair, the `now` of its run and the time of the store.

### Pacing

A bucket is found under the lock of its map (`Lookup`, `LookupSource`) and used
under its own (`Reserve`, `Allow`). Tokens are counted in units of `1/PerSecond`, so
a refill is exact in integers; the wait is truncated to whole ticks as in the code,
and one that is truncated to zero dispatches the job without a token (`early`).
Replaced buckets stay, since a call may still hold one.

### Sessions, ApiKeys

A request takes the browser's cookie along when it is sent, is handled some time
later, and its response is applied later still, in any order or never
(`Sessions`). A token is its expiry, cut to whole seconds, and the version of the
signing key. In `ApiKeys` a key is looked up (`Admit`), a goroutine starts any time
later (`StartTouch`), and stores `last_used_at` within its timeout; the key may be
revoked at any point in between. The admin password is taken not to
start with the prefix of API keys; `RequireScope` would read it as a key.

### EventLog

Ids grow with the INSERT, visibility comes with the commit. A client's walk over
the pages, and the three queries of the trace view, each see the tables as they
are at their own step. Attempts are recorded whatever the status is by then, and
recover puts a delivery back to pending.

### Sources

Cryptography is symbolic: a MAC, hash or ciphertext is the tuple of what went
into it, so that equality means equal inputs. Header values are sequences of parts
that prefixes are put on and taken from. Texts are sequences of symbols with a length;
a digest is a text of one symbol, so that a short text may be the digest of a long one. A
webhook is signed at one second and verified at a later one; the gateway may be
restarted with another encryption key in between.

### Retry

Durations are signed integers of `Width` bits. Converting the float that does not
fit is a choice between the outcomes of amd64 and arm64.

## Runs

| Run | Shows |
|---|---|
| `delivery_trace` | with two recover calls and three jobs racing over one delivery and a fault: the attempt rows are numbered without gap, the newest explains the status, every dispatch is counted but for one per fault, and an open delivery has a job unless one was discarded |
| `delivery_lifecycle` | without faults and with one recover call, `Delivery` implements `DeliveryLifecycle` |
| `delivery_liveness` | two deliveries on one worker slot and a crash, with a policy of two attempts or of -1: each settles; the attempt budget holds; a success is never posted again |
| `delivery_recover_race` | **violated**: two recover calls reset a delivery that already succeeded |
| `delivery_exhausted` | **violated**: a failure while recording the last attempt leaves a delivery that is neither dead-lettered nor driven |
| `ingest_cleanup` | three events on one key with rollbacks and cleanup: no wrong drop; claims a window apart |
| `ingest_fan_out` | atomic fan-out; `Ingest` implements `Inbox`, so a 200 is only for handled events; every call ends |
| `tunnel` | routed means registered; an ack is credited to one call, for the delivery it names, also when two calls are for one delivery; lost sockets wake calls, disconnects delete; the client backs off, stops when refused for good, and otherwise reattaches |
| `replay` | with two failures anywhere: nothing requeued twice, exact counts, the replay ends unless its job is discarded |
| `alerting` | a recorded fire reached every channel; it binds every run that starts after it was recorded, unless an older run stores its own time on top of it; a run without error left nothing unsaid |
| `alerting_overlap` | **violated**: two overlapping checks fire within the cooldown, although nothing fails |
| `api` | an active admin stays logged in and a logout that nothing overlaps is final; `last_used_at` was stored for a request looked up before the key's revocation, within the timeout of its goroutine; paging misses nothing that was there throughout; the trace is not behind its own counts; what Sign signs verifies, and what verifies was signed for that source within the tolerance; equal dedupe keys mean equal identities, or a value that is the digest of the other; the retry delay stays within its policy; the rate of a token bucket is kept in every interval, by calls that hold a replaced bucket too, but for dispatches less than a tick early, and a snooze is not in vain |

`MCApi` and `MCTunnel` put parts that share no state into one specification: a
variable `part`, chosen initially, says which of them moves. In `MCTunnel` the parts
"two" and "recovered" are a session with calls for two deliveries and for one, "listen"
is the reconnect loop; in `MCApi` the two token buckets are parts of their own.

The findings behind the three violated runs are in `PROJECT.json`, with the line
of the code and the sentence it contradicts. Further behaviours are visible in
the models but have no run of their own: a job whose terminal outcome is
recorded but not reported runs again and leaves `dead_lettered` (`Work` looks
only for `succeeded`), and in the tunnel an event frame may precede the ready
frame, and a late ack may answer a second dispatch of its delivery, since acks
are matched by delivery id, although `conn.go:41` says that Deliver "waits for its
ack"; a replay whose job times out keeps the status
`running`, since `fail` uses the expired context; a partial or unrecorded alert
notifies a channel twice within the cooldown. `pacing.go:18` says of a wait of 0 that
"a token was consumed": a wait that is truncated to zero dispatches a delivery without
taking one, and several jobs may do so at one instant (`RateKept` says how early they
are). Each change of a destination's rate brings a new bucket with a full burst. A key
may be shown as used long after its revocation, when the request was slow between the
lookup and the update. The dedup
cleanup is not quite neutral, as its comment says it is: `now()` is the start of a
transaction, so a row that is live for a transaction about to claim can have
expired for a cleanup that starts later; claims then lie a window apart only when
measured from the time of the later claim (`ClaimsAWindowApart`), and
`OneClaimUntilCleanup` is what holds without a cleanup. A renewal under way when a
logout is answered brings the session back, and a tunnel attaches to the oldest
source of a name where the CLI's `trigger` picks the newest.

**Bounds.** Three jobs are the fewest that let two recover calls both insert a
job after the first is dead-lettered. Two attempts per job cover "not the last"
and "the last"; the policy `-1`, in `delivery_liveness`, covers the clamp to one (only
one destination is edited there). One fault suffices for
each single failure point; the proofs cover any number. Three events are the
fewest with a winner, a waiter and a later claim; `Window = 2` and `MaxTime = 4`
put transactions inside, at the edge of and past the window. In `replay` two
faults combine a failed event with a failed update of the row. In `alerting` two
overlapping runs and a third are the fewest in which the older run stores its
time last; the instants 0, 1 and 5 give gaps within a run, just short of the cooldown and
equal to it. In `api`, `PerSecond = 3` with rates 1 and 2
has waits that divide evenly and waits that are truncated, also to zero; three
jobs or requests exceed the burst. There, `TTL = 8` ticks of half a second has a half life
of whole seconds and tokens cut between them, two requests at a time are the fewest
that can be answered out of order, and `MaxTime = 9` passes one full life; three
events with pages of one and of two (a limit of 3 is capped) give several pages and
a late commit below a cursor; two stored events compare two keys, texts of one and
two symbols lie at and past `MaxKeyLen = 1`, and a digest at it; five ticks hold a
lookup, a revocation, a late start and an expired timeout of one tick;
two seconds pass a tolerance of
one; durations of 8 bits overflow within nine attempts. In `tunnel`, backoffs of 2
to 6 ticks reach the cap by doubling past it. Deadlock is not
checked: every instance stops when its bounded work is done.

**Types.** `Delivery` has a type invariant among its checked properties. Those of the
other modules (`IngestTypeOK`, `ReplayTypeOK`, `LogTypeOK`, ...) are stated and proved
in the proof modules. Where the type of a module's state says something about the code
(a cascade, which calls may be pending, which job may be worked on), it is part of the
property it belongs to.

**Fairness.** `Delivery`: weak fairness of each Work step (every call has a
timeout) and of the rescuer, strong fairness of `Fetch` per job (River fetches
oldest first, so a queued job is not passed over for ever while slots keep
freeing up). `Ingest`: weak fairness of a call that has begun. `Replay`: weak
fairness of the job's steps, River's fetch and rescue included. `Tunnel`: weak
fairness of goroutines that can run; nothing is assumed of the CLI, nor that a
timeout fires. `Reconnect`: weak fairness of the loop's own steps, of the timer it
sleeps on and of the forwards, which have a timeout; the gateway need not come back,
so `Reattaches` is conditional on it. No API call is ever required to happen.

## Proofs

Each theorem holds for every value of the constants that its module's assumption
allows: any number of events, deliveries, jobs, sessions, calls, faults, any window,
rate, duration. The bounds of the runs (`MaxFaults`, `MaxTime`, ...) are constants
too, so no proof depends on them. Hardly any property is inductive as it stands; the
strengthening of each is named below with what it adds. A proof that an action
preserves an invariant first sets aside the actions that leave its variables alone
(`LedgerWriters`, `QuietSteps`) and then takes the others one by one.

**Conditions.** Two groups of theorems are conditional, and say so in their
statements:

- `Calm` (`CalmExhausted`, `LifecycleImplemented`, `CalmRecovers`): nothing fails and
  no two recover calls overlap. Without it the first and the third are false, as
  the two violated runs show, and with the third the refinement.
- `Requests = {} \/ Calm` (`NoRepost`): with overlapping recover calls, or with a recover
  call and a fault, two jobs can be at work on a delivery, and TLC finds one of them
  dispatching after the other has recorded a success.

### Delivery (`DeliveryProofs`)

- `TypeCorrect`: `TypeOK`, inductive as it stands since it ties `pc` to the job
  state and `out` to `pc`.
- `LedgerCorrect`, `StatusIsExplained`: `AttemptsNumbered` and `StatusExplained`.
  `LedgerInv` joins the two and adds that a delivery without a row has no attempts, and
  one never inserted has counted none. Only `Enqueue`, `RecoverCommit`, `RecordAttempt`
  and `DeleteDestination` write these tables.
- `BudgetRespected`: `AttemptBudget`. `BudgetInv` accounts for each attempt by the
  position of its Work call: a snooze returns the attempt, and what is left over
  is a dispatch or a fault.
- `NeverStranded`: `StrandedOnlyByDiscard`. `DrivenInv` adds that the job that
  drives an open delivery is not about to end, and that no delivery outlives its
  destination.
- `CalmExhausted`, `LifecycleImplemented`, `CalmRecovers`: `ExhaustedIsDeadLettered`,
  the refinement of `DeliveryLifecycle`, and `RecoveryOnlyFromDeadLettered`, each in a
  calm gateway. `CalmInv` says that the jobs still to be worked are those of the open
  deliveries, one each (`OneWorker`), and that none works on a delivery while it is
  being recovered (`NoneInRecovery`). So the check of the recover handler, made outside
  its transaction, is still true at the commit.
- `NoRepost`: `NoRepostAfterSuccess`. Where nobody recovers, faults included, `SoleJob`
  says that a delivery has one job ever, which goes on to a dispatch only while the
  delivery has not succeeded; in a calm gateway `OneWorker` gives the same.

### Ingest (`IngestProofs`)

- `IngestTypeCorrect`, `FanOutIsAtomic`: `FanOutAllOrNothing`. `StoredInv` says what each
  position of a transaction has written so far (`Placed`): what was inserted and what is
  still to insert make up what was listed, and the destinations are locked.
- `DuplicatesAreExplained`, `OneClaimWithoutCleanup`, `ClaimsAreApart`:
  `DuplicateHasOriginal`, `OneClaimUntilCleanup`, `ClaimsAWindowApart`. `DedupInv` adds
  that a row of `dedup_index` belongs to a stored event that won its key
  (`RowIsClaimed`), that a transaction past its claim holds the lock of the row
  (`Locked`), and that its claim came after the window of every committed one
  (`HolderApart`). The row lock is what turns the uncommitted claim into a commitment.
- `InboxImplemented`: `Ingest` implements `Inbox`; the start of a
  call, its `Commit`, its answer (a rollback is answered 500) and the deletion of a
  destination are the steps of the promise, every other step is a stutter.
- `FirstMatchCorrect` (lemma): `Evaluate` returns a rule that matches, and none before
  it does.

### Tunnel, Reconnect (`TunnelProofs`)

- `RoutesFollowRegistry`: `RoutedIsRegistered`. `RouteInv` ties the position of the
  session handler to the registry and to the routes.
- `AcksAreCreditedOnce`: `AckCreditedOnce`. `AckInv` follows an ack from the frame over
  both directions of the socket into the channel of a call; the frame of a call is in one
  place at a time (`Placed`, `FrameOnce`), so that no two calls are credited with it.
- `ReconnectsArePaced`: `ReconnectPaced`. `PaceInv` says that the backoff is what the
  doublings since the last ready session give.

### Replay (`ReplayProofs`)

- `EventsRequeuedOnce`, `CountsAreExact`: `RequeuedOnce`, `CountsExact`. `ReplayInv` says
  that a job is worked once (`JobInv`), that nothing it still has to do has been made and
  that its counter is what it created, but for a commit it did not hear of (`WorkInv`).

### Alerting (`AlertingProofs`)

- `FiresWereSent`, `CooldownIsKept`, `NothingLeftUnsaid`: `FiredMeansSent`, `CooldownKept`,
  `NothingUnsaid`. `AlertingInv` adds that a run about to record has sent (`SentInv`),
  that nothing recorded comes from the future (`PastInv`), that `alert_state` holds the
  fire recorded last, by a run within its timeout, and that a pair about to be alerted on
  is off the cooldown of the fires recorded before its run (`CooldownInv`), and
  that each pair found due is
  still to be looked at, being fired, or said (`FoundInv`).

### Pacing (`PacingProofs`)

- `RateIsKept`, `SnoozeIsEnough`: `RateKept`, `SnoozeSuffices`. `BucketInv` bounds the
  tokens in a bucket together with those taken since any earlier moment, replaced
  buckets included; `EarlyInv` says how much of a token is missing when a wait is truncated
  to zero; `SnoozeInv` says that a bucket nobody else took from holds enough by
  the end of a snooze, the truncated wait included.

### ApiKeys, Sessions, Sources (`ApiProofs`)

- `LastUsedHonest`: `LastUsedIsHonest`. `KeyInv` says the same of every request whose
  goroutine is still to start or to store: it was looked up before the revocation.
- `LogoutFinal`, `ActiveStaysLoggedIn`: `LogoutIsFinal`, `ActiveStaysIn`. `SessionsInv`
  says what every request under way and every response not yet applied can do to the
  cookie. The second needs `2 * Flight + Second <= TTL \div 2`: a request and its response
  take far less than half a session (a session lasts seven days).
- `TestEventsVerify`, `VerifiedGenuine`: `TestEventVerifies`, `VerifiedIsGenuine`, for every
  catalog that `Validate` lets in. `CallInv` says that a call on its way carries what
  `Sign` made of its body; lemma `VerifyUndoesSign` that `Verify` accepts it if and only if
  secret and time agree or the source has no scheme.
- `KeysIdentify`: `SameKeySameIdentity`. `KeysInv` says that a stored event has the key that
  its body has for its source. No assumption keeps short texts and digests apart.

### Retry, EventLog (`LogRetryProofs`)

- `RetryKeepsPolicy`: `RetryWithinPolicy`, for every width of a duration. Lemma
  `ScaledIsDue` shows that the comparison with the cap comes before the conversion that
  could overflow, so the choice the processor leaves open never arises, and
  `JitterHalves` that the jitter takes away no more than half. `RetryInv` keeps the last
  delay among those answers.
- `TraceShowsAttempts`: `TraceNotBehind`. `TraceInv` says that no count read so far is above
  the delivery's; attempts only grow while the delivery exists.
- `PagesCoverLog`: `PagingComplete`. `WalkInv` adds that the cursor is the oldest event seen
  and that what the client must still see lies below it. The lemmas `DescendingRows` and
  `PageRows` say what `ORDER BY id DESC LIMIT n` returns.

### Assumptions

Besides the ranges of the constants, the modules assume: the paths that create
deliveries are told apart (`ReplayAssumption`: no replay is named "ingest" or "api"),
destinations are finitely many where they are counted (same), no call has the name of
the ready frame (`TunnelAssumption`), a catalog contains
definitions that `Load` accepts and NULL is no ciphertext (`SourcesAssumption`), a
backoff in seconds fits a duration (`RetryAssumption`), and the one on request times
above (`SessionsAssumption`). TLC evaluates all of them on the instances. What the
external parts promise (row locks, atomic commits, River's states, symbolic
cryptography) is in the actions that model them.

### Only model-checked

The liveness properties: `EventuallySettled`, `EventuallyAnswered`, `ReplayEnds`,
`LostSocketWakesCalls`, `DisconnectDeletes`, `RefusalStops`, `Reattaches`. They need
fairness and therefore ENABLED, which TLAPS 1.4.5 does not reason about. Each holds of
the instances that the runs explore completely. `TraceCoversDispatches` sums over the jobs
of a delivery, which takes induction over a set. The violated properties are false in
general; what is proved is the calm case of the two of `Delivery`, and of the cooldown
`CooldownKept`.

## Not modelled

- Parsing of the configuration and of the catalog's files, metrics and health
  checks, the providers list and other endpoints that are a single read: no state
  changes hands.
- The CLI's commands other than `listen`, and the dashboard: sequential requests,
  forms and rendering.
- CEL (`rules.Validate` included), AES-GCM, SHA-256, River, Postgres and the
  WebSocket library: external; the models contain what the code relies on.
- The sessions of a second gateway process: deliveries and sockets must be in one
  process (`worker.go:45`), so only the sweep of a second one reaches the first.
- A tunnel session that fails before its read loop has started leaves the calls
  that wait on it to their timeout; no property is stated about it, since a timeout
  is no fairness assumption of `Tunnel`.
