# Credit AI Ops platform: TLA+ verification project

Modules, model-checking runs and machine-checked proofs about the parts of the
platform whose correctness depends on interleavings, failures and retries: the
transactional outbox and its relays, the event consumers with their inboxes and
dead letters, the chain of events through the credit services, the circuit
breakers, the gateway's idempotency keys, its service tokens, the life of a credit
model from its training to the scores made with it, the artifact stores under it,
and the migrations that are applied again and again.

Paths are relative to `src/`; `shared_kernel/` stands for
`packages/shared-kernel/src/shared_kernel/`.

## 1. Inventory

A credit application enters through `application` (asynchronous) or through the
gateway's `POST /gateway/credit-evaluate` (synchronous posts to feature, scoring
and decision). Every service owns a PostgreSQL schema. A service writes its
business row, its inbox row and its outbox event in one transaction; a relay
process per outbox table publishes to one RabbitMQ topic exchange; a worker
process per queue consumes.

| Component | State | Operations | Interacts by | Hard behaviour | What makes it correct |
|---|---|---|---|---|---|
| Outbox and relay: `shared_kernel/outbox.py`, `outbox_relay.py`, `scripts/runtime/run_outbox_relay.py`, `flush_outbox` of the repositories | rows with `published_at`, `dead_lettered_at`, `claim_token`, `claim_expires_at`, `publish_attempts`; batch and token of each worker | enqueue, claim, publish, mark published, mark failed | SQL, publishing | two replicas, lease overrun mid-batch, crash between publish and mark, confirmed but timed-out publish, unreadable payload | nothing committed is forgotten; nothing counts as published that the broker lacks; a settled row is final; duplicates are bounded |
| Consumer, inbox, DLQ, replay: `shared_kernel/messaging.py`, `record_inbox_event`, every `handle_*_event`, `scripts/dev/replay_dlq.py` | queues, unacknowledged deliveries, inbox, dead letters | deliver, handle with retries, ack, reject, close, replay | AMQP, SQL transaction | redelivery, concurrent duplicates, commit racing its time-out, lost channel, cancellation at shutdown, failed replay | an event takes effect once per service; an event that reached a queue is not lost silently; a message is answered |
| Circuit breaker and bulkhead: `shared_kernel/resilience.py`, `_run_integration_call` | state, counters, trial flag, in-flight count | assert available, record, enter, leave | wraps publishing and consuming | late answers into another phase, trial refused by the bulkhead | no circuit stays closed to everybody; few probes; it closes after recovery |
| Gateway idempotency: `services/api-gateway/.../idempotency.py`, `routes.py`, `clients.py` | `idempotency_keys` row; the request's place in the pipeline | reserve, replay, take over, post, persist | SQL, HTTP posts | stale takeover without fencing, retried posts, crash while pending, re-run migration | every client with the key gets the one stored evaluation; the key settles |
| Service handlers (feature, scoring, decision, assistant, audit) | append-only history, inbox, outbox | handle event, HTTP command | events, posts | the gateway's posts and the events they cause run beside each other; duplicates multiply down the chain | row and event agree; one conclusion per event; causes can be followed back; the chain completes |
| MLOps lifecycle: `services/mlops` | runs, registry, stage assignments, artifacts | train, evaluate, register, promote | SQL, artifact store, outbox | artifact written before its row, concurrent registration, ticket reuse, retried promotion | what is promoted was registered, passed its gate and has intact artifacts |
| Scoring runtime: `services/scoring/.../runtime.py` | package cache | resolve, validate, predict | reads the mlops tables and artifacts | promotion between resolve and load, overwritten artifact | a score names the package that produced it |
| Artifact stores: `shared_kernel/artifacts.py` | files or blobs | write once, read | file system, Azure | a write that breaks off, two writers of one name, a lost answer | what a row names reads back as it was written |
| Migrations: `scripts/dev/apply_migrations.py`, `services/*/migrations` | schema and backfilled rows | apply all files, again each time | SQL | no ledger, killed runs, an unguarded backfill from what has become a view over its own target, services that write meanwhile | the view shows what was stored; a row is copied once; no run is stopped by an earlier one |
| Credit policy: `shared_kernel/credit_policy.py` | none | features, score, decision | called by handlers | thresholds in binary floats | decision bands cover and do not overlap |
| Authentication: `shared_kernel/auth.py` | service-token cache and its lock | authorize a request, build an authorization | HTTP | refresh races, a failed refresh, a token that ends between two posts | one refresh at a time; nothing that was let in fails half-way on an old token; everybody is answered |
| Contracts, configuration, telemetry, infrastructure, gates | none that matters at run time | | | | |

Every hazard is listed at its line in `PROJECT.json` with the properties that
cover it, or the reason why none does yet.

## 2. Plan

1. `OutboxRelay`, `AtLeastOnceOutbox`, `OutboxRelayProofs` - done.
2. `EventConsumer`, `IdempotentConsumer`, `EventConsumerProofs` - done.
3. `CircuitBreaker`, `CircuitBreakerProofs` - done.
4. `GatewayIdempotency`, `GatewayIdempotencyProofs` - done.
5. `ModelLifecycle`, `ModelLifecycleProofs` - done: train, evaluate, register,
   promote with artifact writes and database commits as separate steps, and the
   scoring runtime.
6. `CreditChain`, `CreditChainProofs` - done: the services composed over what
   modules 1 and 2 promise.
7. `ServiceToken`, `ServiceTokenProofs` - done: the bearer check, the cached
   service token and the posts it is sent with.
8. `Migrations`, `MigrationsProofs` - done: the script over the files of a service
   that moved to an append-only history.
9. `ArtifactStore`, `WriteOnceStore` - done: both backends, and the promise that
   `ModelLifecycle` builds on.
10. Proofs of `CallsWithinClaims`, `CopiesBounded` and `DuplicatesBounded`
    (cardinalities) - done.
11. Proofs of `ArtifactStore` and of `ImplementsWriteOnce`, of what claims give away,
    and of safety under the liveness properties (section 5) - done.
12. Proofs of the safety under `ChainCompletes`, of a bound on the rows of a
    command's histories (`OneRowPerPost`), and of what readers, auditors and clients
    may rely on between steps (section 5) - done.

## 3. Modules

### AtLeastOnceOutbox
What a transactional outbox promises its service: each event goes from absent to
pending to published or dead; published only if the broker accepted a copy, dead
only after a publish call; copies may still be accepted later.

### OutboxRelay
One outbox table and the processes that drain it. `stored`, `published`,
`deadLettered`, `claimToken` and `attempts` are the columns; a lease is a token
that has `lapsed` or not, because all rows of a claim share one expiry. `pc`,
`batch`, `current`, `token` and `tries` are the locals of `relay_once`.

| Action | Code |
|---|---|
| `Enqueue` | `enqueue_outbox_event` at commit |
| `Claim`, `ClaimUnreadable` | `fetch_pending_outbox_events`: one UPDATE, then validation of the payloads |
| `BeginPublish`, `PublishConfirmed`, `PublishTryFails`, `PublishRefused` | `publish_event` through `_run_integration_call` |
| `MarkPublished`, `MarkFailed`, `ClaimLost` | `mark_outbox_event_published`, `mark_outbox_event_failed` |
| `FlushAborts` | `flush_outbox`, which has no except clause (a public method of each repository that only the tests call today) |
| `Crash`, `Restart`, `LeaseLapses`, `LeaseOverrun` | process and clock |

A publish that fails releases its row for another claim until `MaxAttempts` is
reached, and dead-letters it then. `MaxStored` bounds the rows of an instance.
`SettledOnce` and `LeaseProtectsBatch` (both in `IInv`), `SharedOnlyAfterLapse` and
`SettledIsFinal` are about workers that share a row; `CallsWithinClaims` and `CopiesBounded` bound
the duplicates consumers must expect; `ImplementsOutbox` is the refinement.

### EventConsumer
The broker's queues as counts of copies, one worker per queue with `Prefetch[q]`
delivery slots and `HandlerTries[q]` tries of a delivery (the settings are read by
each worker process), each slot a handler of the common shape: a transaction that inserts
the inbox row, the business row and the outbox event. `owned` is the set of
deliveries whose answer still reaches the broker; a lost channel empties it while
handlers run on. An uncommitted inbox row blocks a second insert of the same key.
The replay tool takes a letter, publishes to the exchange (to all bound queues),
and answers. Its publishing is retried like any other (`replayTries`,
`PublishTries`): a try that times out may have been accepted (`Attempted`), so one
letter can leave a copy per try, and a call that fails in the end may have put all
but none of them on the exchange. `CopiesConserved` counts accordingly: one copy per
copy a relay published and per try of a replay. Queues exist only once their worker declared them.
`ImplementsConsumer` is the refinement of `IdempotentConsumer`.

### IdempotentConsumer
What a queue, its worker and its dead letters promise together: what reached the
queue takes effect at most once, the broker lets go of the last unanswered copy
only after it took effect or was dead-lettered, and a dead letter stays until it
is replayed.

### CreditChain
The services application, feature, scoring, decision and assistant, each with an
append-only history, and the audit service, over `AtLeastOnceOutbox` (one instance
for all outboxes: an event belongs to the one of its producer) and
`IdempotentConsumer`. `history` holds the rows, `envelope` what is stored in the
outbox for an event id, `posts` the services a command has yet to post to.

| Action | Code |
|---|---|
| `Post`, `PostGivenUp` | `intake_application`, `materialize`, `predict`, `evaluate`, `summarize`: a row and its event in one transaction; the gateway's client with its retries |
| `Handle` | `handle_submitted_event`, `handle_feature_event`, `handle_score_event`, `handle_decision_event` |
| `Store` | the audit service's `handle_event` |
| `Declare` | a worker's start: `ensure_queue` |
| `RelayTries`, `Accepted`, `RelaySettles` | the relays and the exchange |
| `Acknowledge`, `DeadLetter`, `Replay` | the broker and the replay tool: a try that the exchange took and that is made again, or the last one, after which the letter is gone |

`HistoryMatchesOutbox` and `CausesLinked` relate tables of different services:
each row leads back, event by event, to a post of its own command. `OneRowPerPost`
counts: two rows of one history lead back to different posts, so a history holds at
most as many rows of a command as the command made posts. It is the positive side of
the finding that an evaluation leaves several (section 6). It needs the order of
the services (`NoCircle`: each consumes events of an earlier one, as the bindings in
the services' workers do). `ChainCompletes` says that a command that got anything committed reaches the end of
the chain, or that an event of it is dead, dropped, among the dead letters or lost
in a replay.

### CircuitBreaker
The two classes of `resilience.py` in the order `_run_integration_call` uses
them. Entering and leaving are atomic (one event loop; the bulkhead's lock is
never held across an await); the timed tries of a call lie between. `waited`
stands for the recovery time-out; `healed` and `sound` say when the dependency is
well and which calls began after that.

### GatewayIdempotency
The row of one key and the requests that share it. `exec` numbers the executions
of the pipeline, `answer` is the execution whose response is stored, `given` the
executions clients received. `lapsed` says that `locked_at` or `expires_at` is
old enough for a takeover. `effects` counts evaluations each service committed:
a post that fails or times out may have committed. `ReapplyMigration` is the
second run of migration 0002.

### ModelLifecycle
The tables of the mlops service (`trained`, `evaluated`, `registry`, `assigned`),
the artifact store (`cards`, `packages`), the register and promote requests in
flight, and per scoring process its public key, its cache and the request that is
being scored.

| Action | Code |
|---|---|
| `Train`, `Evaluate` | `train_deterministic_model`, `evaluate_policy` and their inserts |
| `AcceptRegistration`, `WriteCard`, `WritePackage`, `InsertRow` | `register_model`: its checks, `write_model_card`, `build_signed_registered_model_artifact`, `register_model_candidate`; a replica may die or collide at each (`AbandonRegistration`) |
| `BeginPromotion`, `CommitPromotion`, `AbandonPromotion` | `promote_model`: the clock is read, then the assignment and its event commit together, or neither |
| `FindActive`, `ScoreFromCache`, `LoadAndScore`, `FailScoring`, `RestartScorer` | `resolve_active_scoring_model` and the insert of the prediction |

Digests, checksums and signatures are what they name: a package is its contents
and key, a row holds the package and the card. A card carries the `generated_at`
that `ModelMetadata` takes from the clock for each request (`Times`, `Now`), so no two
requests have equal cards: whoever finds a card under the version's name, its own
earlier attempt's included, has an `ML_ARTIFACT_DIGEST_COLLISION` and goes no further
(`WriteCard`, `AbandonRegistration`). A package has no such field and its name holds
its digest, so one that is found is equal. An artifact is written in one step here,
and in several in `ArtifactStore`. `known` and
`committed` are history for `SupersededStaysOut`. Replicas may have different
environments and signing keys, and a scoring process may restart with any key, which
takes its cache with it. `ScoresTraceable` says of each prediction that its row is
there, approved, of the served name and of the version the prediction names, with a
card and a passing evaluation of its own run.

### ServiceToken
One gateway process: requests that are let in by `authorize_request`, share the
cached service token of `build_service_authorization`, and post with it. `cached`
is the entry of `_SERVICE_TOKENS` with the token's real end beside the end the code
assumes; `lock` and `queue` are the `asyncio.Lock`, first come first served. `mode`
is chosen at the start: no authorization, a shared secret, or an authorization
server.

| Action | Code |
|---|---|
| `Admit`, `Refuse`, `SigningKeysUnavailable` | `authorize_request`: header, signature and expiry, subject, audience, scope, in this order |
| `SendNone`, `SignLocally`, `TakeCached` | the ways past the lock |
| `AskAtOnce`, `JoinQueue`, `WokenWithToken`, `WokenToAsk`, `Issue`, `Keep`, `AskFails` | the lock, the second look behind it, `_request_service_token` |
| `Post`, `PostRefused`, `PostFails` | the posts of `evaluate_credit` with the header built once |

A JWT is a record of what the checks look at. `TimesAssumption` says what the
settings must keep to: a token may be cached up to `Floor` (60 s) although it lives
shorter, is used up to `Margin` (30 s) before its assumed end, and the services
forgive `Leeway` (60 s by default, and it may be set to 0). With the defaults and
tokens of 20 s or more it holds. A token of an authorization server that issues
shorter ones, or a leeway of 0 with tokens under the floor, breaks it: the code
does not check this.

### Migrations
`relation` is what has the projection's name (nothing, a table, a view), `rows` what
the old table holds, `written` and `copies` the rows of the history the service and
the backfills inserted; `file` is the script's place. The four files are those of
`application`; `feature`, `scoring` and `decision` have the same four shapes, with
files of further columns before the last two. `Latest` is the `DISTINCT ON` of the
view. A copy's id is made of its application and time, so a second backfill of the
same table row conflicts, but the backfill of a later run reads the view and does
copy rows the service itself wrote: such copies have the same application, time and
values as their originals, and the properties say that they change nothing that is
shown and are not copied on. `OldRelease` stands for the release that filled the
projection table. It is not in the repository; the model lets it insert the first row
of an application and no more. The table had columns for updates in place
(`updated_at` and the override columns): an update between two runs that left
`created_at` as it was would not be copied again (`ON CONFLICT DO NOTHING`), and the
view would show the earlier values. Nothing here says that no release did so.

### ArtifactStore and WriteOnceStore
`stored` holds bytes, nothing or a torn file under each name; `writing` the call of
each writer between its steps: look, open, write of a file; upload, answer,
comparison of a blob. `Fail` breaks a call off anywhere. `WriteOnceStore` is what
`ModelLifecycle` takes the store to be; a torn file counts as never written there,
because a name that is torn can be promised to nobody and every later write of it
ends in a collision. The names of `ArtifactStore` carry a `Store` (`StoreSpec`,
`StoreIInv`, with `Nothing` for its missing value) because one proof module extends it
together with `ModelLifecycle`.

### MC modules
`MCOutboxRelay`, `MCEventConsumer`, `MCCreditChain`, `MCCircuitBreaker`,
`MCGatewayIdempotency`, `MCModelLifecycle`, `MCServiceToken`, `MCMigrations` and
`MCArtifactStore` name the small sets of each instance.

## 4. Runs

| Run | Shows | Instance |
|---|---|---|
| `outbox` | claims stay fenced, settled rows final, duplicates bounded, nothing readable forgotten; the invariant of the proofs and the refinement | relay and flush, 2 of 3 rows of which one is unreadable, batch of 2; 2 attempts of 2 tries, 2 faults, 6 claims, 4 tokens: 1,550,429 states |
| `consumer` | one effect per event and service, nothing lost, no copy multiplied, every message answered; the refinement of the abstract consumer | 2 queues, prefetch 2 and 1, 2 tries and 1, 1 copy, 1 fault, 1 replay of 2 tries: 450,706 states |
| `consumer_replay` | finding: a failed replay discards the letter | no fault |
| `breaker` | the trial flag, probes, counters; the circuit closes after recovery | 5 tasks, bulkhead of 4, thresholds 3 and 2 |
| `gateway` | answers are the stored one, keys settle, duplicates bounded | 3 requests, 2 services, 2 tries, 3 faults |
| `model_registration` | racing and failing registrations keep rows and artifacts together; only what passed is scored with | 2 registrations at a time of 1 version, 3 runs (passing, failing, foreign name), 2 evaluations, 2 keys, 4 times: 1,051,530 states |
| `model_serving` | a replaced model stays replaced; predictions name their package | 2 versions, 2 tickets, 2 promoters whose clocks differ by 1, time up to 2: 1,526,193 states |
| `credit_chain` | rows and events agree, causes link up, one conclusion per event, one row per post, the chain completes | application, feature, scoring and audit; an intake, an evaluation of two posts or a post that is repeated; 3 event ids; 1 reject, 2 tries of replays: 410,630 states |
| `credit_chain_history` | finding: an evaluation leaves several rows in a history | all six services, one evaluation, no fault |
| `service_token` | one refresh at a time, no token that ends between the posts, nobody waits for ever | 2 requests at a time, 5 headers, tokens of 20 s and 70 s, 110 s in steps of 10, the defaults' margins, 2 posts |
| `migrations` | re-runs and killed runs leave the view right, rows copied once, and stop no later run | 2 applications, 3 times, 2 values, 4 runs of the script, new and old release beside it |
| `artifact_store` | what was promised reads back; the invariant of the proofs; the write-once store | 3 writers of a container or 1 of a file system, 2 names and a refused one, 2 payloads |

Bounds. `MaxFaults` counts crashes, stops, flush calls, overrun leases and locks,
lost channels, re-run migrations and the commit of an unreadable row; `MaxClaims`, `MaxCopies` and `MaxReplays` bound
what could go on for ever. Two workers and two rows suffice for every
interference of claims, since a row has at most one claimant at a time besides
workers that lost it, and leave room for two attempts: a failed publish releases its
row, and the row is claimed and published again before it may be dead-lettered. The
two rows are any of three ids, so the table may hold the unreadable one.
`MaxClaims` (6) is what two attempts can cost a readable row: its own failed claim and
the one that settles it, the claims that a failing other row of the batch uses up, and
one for each fault. `NothingForgotten` says that at last every row is settled, or the
table has an unreadable one: such a row stops whoever claims it, together with the
rest of the batch, for as long as it is there (section 6), and nothing is promised
then. Rows are never removed or unsettled, so this is the same as to say of each row
that it is settled once it is stored.
Two deliveries of one queue suffice for duplicates that
race, and a queue whose worker takes one at a time and tries once gives the other
settings; a replay of two tries may leave two copies of its letter. The second queue is
there for replays that reach a queue that had handled the event. The bulkhead of four lets calls from before the trip overlap with both
probes. Two
registrations of one version are what can meet on a card, and others may follow and
find what they left (`Times` holds one time for each card and each request at once, so
that none ever lacks a time of its own); two tickets and a clock
that runs to 2 let a promotion begin more than the skew after another committed.
Each event of `credit_chain` is
accepted once from its outbox; further copies, also to a queue declared meanwhile, come
from the two tries of a replay. Three
ids are what its longest commands use. Three services are the shortest chain in
which a service both consumes and is consumed, and two of its posts meet.
The clock of `service_token` runs long enough for a token to be fetched,
shared, found too old and fetched again while posts are under way. Four runs let a
complete run and a re-run follow killed ones.
Symmetry is used only in safety runs: over applications and values, and over
tickets, keys, evaluations and versions.

Fairness. Coroutines go on because every await in them is timed; relays poll in a
loop and their containers restart them (`infra/terraform/container-apps/main.tf`);
worker processes likewise (a queue's worker takes what waits, or opens again after a
shutdown, and a delivery's handler goes on); clocks run. Nothing is assumed of the broker's success,
of replays, of flush calls or of crashes. In `GatewayIdempotency` the clients that
hold a key retry (the gateway has no sweeper, so a pending key of a crashed
request settles only by a retry). In `CircuitBreaker` the process keeps calling.
In `CreditChain` the relays try and settle every event and the workers answer what
waits: what `NothingForgotten` and `EventuallyAnswered` show of the detailed modules.
Nothing is assumed of the broker accepting, of workers declaring queues or of replays.
In `ServiceToken` a request goes on, since each of its awaits is timed except the one
for the lock, and that one is what `AdmittedIsAnswered` is about.
Deadlock checking is off where the system may stop: all events settled, all
messages answered, the key settled, the script's runs used up, the clock at its end. It
is on for the circuit breaker and the artifact store.

## 5. Proofs

All eight proof modules prove an inductive invariant (`IInv`, and `StoreIInv` for the
artifact store) for every value of the constants: `Init => IInv`, one lemma per action
that it keeps `IInv`, then `Spec => []IInv`, then the properties. What is assumed of the
constants are the named ASSUMEs of the modules, which the runs evaluate too.

- `OutboxRelayProofs`. The properties alone are not inductive: that a late mark
  reaches no settled row needs to know that settled rows carry no claim
  (`SettledOnce`), that workers' tokens differ (`TokensTellWorkersApart`), that a
  worker's place in the code agrees with its locals (`LocalState`), and that a
  running lease keeps others off the row (`LeaseProtectsBatch`). Proved from
  `OutboxAssumption`: types, `SettledOnce`, `PublishedReachedBroker`,
  `LeaseProtectsBatch`, `SharedOnlyAfterLapse`, `SettledIsFinal`, and the
  refinement of `AtLeastOnceOutbox`, for any number of rows, workers, flush calls,
  tokens, tries and faults. With `WorkersFinite` the counting properties follow too:
  a claim counts an attempt for each row it gives to a worker, and a call takes the
  row off the worker (`CallsWithinClaims`); a call brings all its tries, and a try
  that is used up leaves one copy at most (`CopyBudget`, hence `CopiesBounded`); the
  two together bound a row's copies by its attempts (`CopiesWithinClaims`). The claim's
  `ORDER BY ... LIMIT` gives more: rows get numbers as they are inserted, so the
  claimable ones are a finite set of naturals, and its `BatchSize` oldest are few
  (`BatchBounded`) and older than all that are passed over (`OldestClaimed`, an action
  property). `DeadLetteredExhausted`: attempts only grow, and the worker that gives a
  row up read a counter that had reached the limit. `ClaimsAtWork` is the converse of
  `LeaseProtectsBatch`: a row under a live worker's token is still before that worker,
  so that only a lease withholds what a worker left.
- `EventConsumerProofs`. `EffectOnce` holds because a handler that writes is the only
  one of its event and the event is not in the inbox yet (`HandlersExclusive`: the
  uncommitted inbox row keeps others waiting). `NoSilentLoss` and `CopiesConserved`
  need to know where copies can be (`CopiesRouted`) and what the letter in the replay
  tool's hands may still add: a copy to every queue for each try it has left, and one to
  its own dead letters if the tool dies (`MayAdd`, `CopiesAccounted`). Sets of unanswered
  deliveries are counted with the theorems on finite sets. `PromiseKept` maps the
  counts to the sets of waiting and parked events: a commit is `Apply`, an
  acknowledgement `Finish` or nothing, a rejection `Park` or nothing, a try of a replay
  that is made again `Reach` or nothing (`ReplayTryRefines`), the end of a replay
  `Release`, `Reach` or nothing. For any queues, bindings, slots, retries,
  replays and faults. `AnswersComing`: a handler that waits for another's inbox row
  waits for one that waits for nobody.
- `CreditChainProofs`. The properties of the histories are inductive together with
  `EventsRouted`: only stored events are tried, accepted and routed, only to services
  bound to them, and a row caused by an event belongs to a service that it reached and
  that has handled it. That gives `HistoryMatchesOutbox`, `CausesLinked` and
  `OneOutcomePerCause`. `OneRowPerPost` follows each row's causes back to the post they
  began with: a root function from rows to posts exists for the first service of the
  order, and from it for the next, since a row caused by an event takes the root of the
  event's row (`CausesLinked`) and no two rows of a service have one cause; it is
  injective, so it counts. The induction runs over the rank that `NoCircle` gives, and
  `HistoriesBounded` adds that a pipeline of n posts never leaves more than n rows in a
  history. `ConclusionsMatchInbox` (an inbox names exactly the events its
  service has a row of) gives `StopsShow`, the safety under `ChainCompletes`: an event of
  a row is still to be published, waits, has led on, or shows where it stopped. `OutboxRespected`
  and `ConsumerRespected` show that the composition only takes steps that
  `AtLeastOnceOutbox` and `IdempotentConsumer` allow: with the two refinements above,
  what is shown of the chain rests on what was proved of the detailed modules.
- `CircuitBreakerProofs`. A half-open circuit's probes are counted against its
  successes (`ProbesHadTrials`): one without a running trial has at most as many
  probes as successes, hence `ProbesBounded`. `TrialWillEnd` needs that the
  bulkhead's count is the number of running calls, so that a refused trial leaves
  others under way. `OldCallsRunOut` is the safety under the liveness of
  `ClosesAfterHealing`: after recovery each trip uses up a call from before, no step
  adds one, and with none left a closed circuit stays closed.
- `GatewayIdempotencyProofs`. While the row is pending nobody was given an answer;
  the request that settles it hands out the execution it stores; only the
  migration reopens a row, and only a failed one. What a request has passed, the
  services committed (`ProgressHadEffects`). An execution brings all its tries for
  every service and a try that is used up leaves one evaluation at most
  (`PostBudget`), hence `DuplicatesBounded`; `GatewayAssumption` says that finitely
  many requests carry a key. `OnePayload` is inductive with `ExecutingReserved`: only
  the first reservation sets the hash, when nobody executes. `KeyIsWriteOnce` is a
  refinement: towards its clients the row is a cell of `WriteOnceStore`, the same
  promise as the artifact store's; the first stored response is put once, and each
  answer, first or replayed, promises what is there.
- `ModelLifecycleProofs`. A registration under way passed the checks and what it
  wrote is in the store (`RegistrationsBacked`), so the row it inserts is sound and,
  nothing being overwritten, stays so (`RowsSound`): `RegistryBacked`,
  `PromotedModelLoads` and `ScoresTraceable` follow. That the card in the store is the
  request's own needs that no two requests under way have equal cards (`CardsApart`);
  that what is scored with was verified and has the served name needs that caches hold
  nothing else (`CachesVerified`). `LeftBehindForGood` (an action property) is the other
  side of the one name per version: a card without a row, and without a request that
  wrote it, stays so, and no request ever registers that version. A promotion's time is later
  than that of all it knew (`PromotionsOrdered`, `AssignmentsOrdered`), from
  `Skew[p] <= MaxSkew`: `SupersededStaysOut`. Rows are never replaced, and since each
  says which card and verdict it rests on, these stay with it (`EvidenceKept`, an action
  property). `StoreRespected`: a card is
  put as `WriteOnceStore` allows, into a free name only and never over another, so the abstract store that the lifecycle is built on can
  be replaced by the detailed one, which the same module proves about.
  `ReturnedReadsBack` is not inductive: that a name stays as it is
  once it was returned needs what each other call under way knows at its step
  (`CallBacked`: absent until this call opens it, torn until this call has filled it,
  whole once a blob was created or found). From that invariant every step is a `Put`,
  a `Promise`, both at once or a stutter of the write-once store (`StoreIsWriteOnce`), for any
  processes, names and payloads. The assumptions are `StoreAssumption` (bytes, error
  kinds and places are told apart) and `OneFileWriter` (one process writes to a file
  system, see section 7).
- `ServiceTokenProofs`. The lock is held by the request that asks and by nobody else
  (`LockIsAsker`), so what one request fetched cannot make another's request
  needless: `NoNeedlessRefresh`. For `NeverExpiredMidway` the ends are chased through
  the system: a token on its way ends no earlier than if it had been issued at once
  (`IssuedLives`), so a cached one outlives its assumed end less the margin, plus the
  posts (`CachedLives`), so one handed out outlives the posts that carry it
  (`HandedOutLives`). From `TimesAssumption`, for all lifetimes and spans.
  `WaitersAreServed` is the safety under `AdmittedIsAnswered`: the lock's queue holds
  the waiting requests, each once (`QueueIsWaiters`, inductive by itself), and a taken
  lock has a holder within its time limit; `OneRefresh` follows from `LockIsAsker`.
- `MigrationsProofs`. While the projection is a table the history lacks at most what
  the table still has; from the rename on it has everything, and what backfills add
  are twins of rows that are there. `ViewUnspoiled`, `CopiedOnce` and
  `RerunNeverRaises` for any applications, times and values and any number of runs.
  From them and from tables that only grow, `ProjectionNeverGoesBack` (an action
  property): no step, the swap of the table for the view among them, shows a reader an
  older submission of an application than the one before.

Only model-checked: liveness (`NothingForgotten`, `EventuallyAnswered`,
`ClosesAfterHealing`, `KeySettles`, `AdmittedIsAnswered`, `ChainCompletes`) - fairness
and ENABLED are out of the prover's reach. Safety that they rest on is proved:
`ClaimsAtWork`, `AnswersComing`, `OldCallsRunOut`, `OnePayload`, `WaitersAreServed`,
`StopsShow`. Every other property of a passing run is a theorem. Invariants that serve
a proof only, and the properties that were added with the proofs, stand in the proof
modules.

## 6. Findings

- `consumer_replay`: a replay that fails discards the dead letter.
- `credit_chain_history`: the gateway posts to services whose events set each other
  to work as well, so one evaluation leaves two scores and up to three decisions
  where relays and workers run.

Observed, but against no statement of the repository: attempts are counted when a
batch is claimed (`outbox.py:187`), so an event behind failing ones is dead-lettered
after fewer publish calls than the limit; an unreadable row stops whoever claims it,
again and again (`NothingForgotten` excepts it); a registration that fails after its
card was written blocks its version for good, for an identical retry as well, because
`generated_at` (`contracts/models.py:114`) makes the bytes differ (`LeftBehindForGood`);
a crash while a file is written
blocks the artifact's name for good; URIs of one storage backend are refused by the
other, so a change of `ARTIFACT_STORAGE_BACKEND` orphans what is registered; a
re-run of the migrations adds legacy twins of rows to the history.

## 7. Not modelled

- The arithmetic: features, logistic score, decision thresholds (`credit_policy.py`)
  and training. They are pure, sequential and tested by example; which of them a
  model would have to say is the platform's choice of numbers.
- JWT signatures, JWKS fetching and its cache (library calls: good or not), the
  start-up probes of `auth.py`.
- Two uvicorn workers on one filesystem store: they could overwrite each other
  between `exists` and `write_bytes`. `scripts/docker/run_service.py` starts one
  unless `UVICORN_WORKERS` is set, and the deployment uses blobs: the assumption
  `OneFileWriter` of `ArtifactStore`. No caller passes `overwrite`.
- Cancellation of a call inside the circuit breaker, of a half-open trial also: it
  happens only when a client closes, which the workers do as they end.
- The replay tool stopped between two tries by Ctrl-C: the cancellation rejects the
  letter, which is lost as in `ReplayPublishFails`; and a `get` of the replay tool that
  times out after the broker sent the letter, which is unacknowledged until the channel
  closes and then is back.
- What a release before the present one did to the projection tables (section 3,
  Migrations).
- Order of events between publishers: nothing in the code depends on it.
- A dead-lettered outbox row has no way back and is read by nothing.
- The audit service's `POST /v1/audit/events`, which nothing in the repository calls,
  its read routes and the gateway's assistant routes, which keep no state; the views
  over other histories than the four of `Migrations`.
- Contracts, configuration, telemetry, tracing, PII masking, deployment files,
  repository gates and developer scripts: no behaviour of the system depends on them,
  or no state changes in them.
