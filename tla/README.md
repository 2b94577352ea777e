# Verification of adopt-dont-shop

TLA+ models, TLC configurations and TLAPS proofs for the platform's backend: a
Fastify gateway in front of ten gRPC services (auth, notifications, pets,
rescue, applications, chat, moderation, matching, audit, cms), each with its own
Postgres schema, connected by gRPC and by domain events on a NATS JetStream bus.

What makes the backend hard is not in any one handler. It is in what lies
between them: several replicas of a service over one schema, an event that is
committed but not yet published, a message that is delivered twice, a saga that
waits for nine services, a command decided on a state another command has just
changed, a row that is read by one statement and written by a later one. That
is what is modelled here.

`PROJECT.json` is the index: the components, the runs, the source lines every
definition translates (`map`), the disagreements found (`findings`), the
hazards, and the proved theorems.

## 1. Inventory

| Component | State it keeps | Operations | Hard behaviour | Correct when |
| --- | --- | --- | --- | --- |
| **Outbox** `packages/events` publish.ts, outbox.ts, outbox-schema.ts | table `event_outbox` per service schema | `withTransaction`, `flushInline`, `relayOutboxOnce`, `startOutboxRelay` | crash between COMMIT and publish, unacknowledged COMMIT, several relays and the inline flush on the same rows, broker dedup | every event of a committed transaction reaches the stream, no other does, rows are worked on by one relay, order is kept |
| **Stream** stream.ts | `DOMAIN_EVENTS` (7 days, 2 min duplicate window), `DOMAIN_EVENTS_DLQ` | `ensureStream` | a reused message id is dropped silently | an id names one event |
| **Consumers** subscribe.ts, idempotency.ts | durable cursors, `processed_events` | `subscribe`, `dispatch`, `handleFailure`, `deadLetter`, `claimEvent` | redelivery under a live handler, lost acks, retries exhausted, DLQ publish failing | one effect per event, never an ack without it, redelivery ends |
| **GDPR saga** gdpr-saga.ts, audit gdpr-subscribers.ts, gdpr-sweep.ts, gateway routes/gdpr.ts | `audit.gdpr_erasure_requests`, each service's own rows | erase and report, `recordRequest`, `recordCompletion`, `runGdprSweep` | completions before requests, failures reported outside the transaction, a sweep that races completions, replicas sweeping at once | completed means erased, nobody waits unheard, errors stay visible |
| **Applications** services/applications | `application_events`, read model `applications`, `home_visits`, documents | draft, save, submit, review, visit, approve, reject, withdraw, adopt, erase | commands on one version, stale screens, two drafts for one pet, erasure in between | histories are legal, the read model is their fold, one open application per pair |
| **Auth** services/auth | users, `refresh_tokens` families, denylist, backup codes | login, refresh, logout, revoke one or all, password change, deactivate | two refreshes of one token, refresh against revoke, locks taken in opposite orders | one live token per session, a closed session stays closed, a backup code works once |
| **Email queue** services/notifications email/ | `email_queue`, the provider's idempotency keys | enqueue (RPC and consumer), `claimDueEmails`, dispatch, `markSent`, `markFailed`, erase | stale claims of live senders, lost answers, redelivered notifications | one mail per key, claims within the retry budget, settled rows stay settled, the queue drains |
| **Notification fan-out** services/notifications nats/, jobs | notifications, preferences, device tokens, job runs | fan out, push, digest | partial fan-out, swallowed by design | one row per recipient and event |
| **Pets** services/pets | pets, status log, favourites and their counter | status changes, edits, delete, add and remove a favourite | a check on a row read earlier, counters beside rows | lawful moves, a truthful log, unique event versions, a counter that follows |
| **Rescue** services/rescue | rescues, staff, invitations, foster placements | verify, edit, plan, delete, staff in and out, invite / accept / cancel, place / end | unconditional UPDATEs after unlocked reads | one active placement, one open invitation, one membership |
| **Chat** services/chat | chats, messages | open, send, lock / archive / delete | a chat closed between the check and the message | no message in a closed chat, one chat per application and pair of participants |
| **Moderation** services/moderation | reports with their log, sanctions | assign, resolve, escalate, appeal | event ids reused between actions | a truthful log, one event per action |
| **Matching, CMS** | swipe sessions; content and its version list | start / swipe / end; publish, edit, restore, delete | SELECT then INSERT; two editors of one text | one active session; one version per number |
| **Gateway** | Redis keys, sockets, circuit breakers | REST to gRPC, WebSocket fan-out | get/set of the erasure key, breaker state | one saga per user at a time |
| **Frontends and shared libraries** | browser state | user interface | — | not part of this project |

How they interact. A service changes its tables and stages its events in one
`withTransaction`. The outbox publishes them to JetStream. Durable consumers in
the other services receive them, claim them in `processed_events`, and act,
often in a `withTransaction` of their own that stages further events. The GDPR
saga is the longest such chain: gateway, stream, nine services, their outboxes,
stream, audit row, sweep, stream again. The application aggregate is the
largest producer, and the reason why event ids must be unique per event. The
other services share nothing with each other but these events; inside a service,
calls meet in PostgreSQL, in its row locks, unique indexes and conditional
UPDATEs. The mail queue is fed by the `notifications.created` consumer, and its
rows are among those an erasure removes.

## 2. Modules

| Module | Models | Abstracts |
| --- | --- | --- |
| `EventDelivery` | what publish.ts:44-78 promises: events become owed at commit and are eventually delivered | attempts, processes, failures |
| `EventOutbox` | publish.ts, outbox.ts, outbox-schema.ts, the stream's duplicate window | payloads; a record is a model value; time, except that the window may expire; metrics |
| `EventInbox` | what ADR 0003 and idempotency.ts promise of a durable: each event is acted on at most once, and a message leaves only for a reason | workers, leases, crashes, acks |
| `EventConsumer` | subscribe.ts, idempotency.ts, the push worker and `createNotification` | what the effect is; back-off times |
| `ErasureRecord` | what the audit row promises: a success is noted only of a service that has erased, completion stands over successes only, nothing is taken back | deliveries, retries, sweeps |
| `GdprSaga` | gdpr-saga.ts, gdpr-subscribers.ts, gdpr-sweep.ts, the gateway's request | which rows a service holds: keyed by user id or by email; clock: a deadline that passes |
| `ApplicationCase` | what the applications service promises: one lawful move of a file at a time, one open file among rivals, each move announced with the move | commands, versions, stale reads, retries, erasures |
| `ApplicationLifecycle` | commands.ts, apply.ts, command-runner.ts, event-store.ts, the unique indexes, gdpr/erase.ts | what the adopter wrote is one bit; ids and timestamps |
| `SessionLedger` | what service.auth promises: a session opens once, closes once, stays closed | tokens, requests, locks |
| `AuthSessions` | login, refresh, logout, revocation, password change of grpc/handlers.ts, session-handlers.ts, account-handlers.ts, admin-handlers.ts | lockout counters, TOTP steps, token expiry, the access-token watermark |
| `Mailroom` | what the mail queue promises: one slip and one mail per key, "sent" only of what was posted, settled slips stay, shredded ones do not come back | replicas, claims, leases, budgets |
| `EmailQueue` | email/queue.ts, worker.ts, channel-adapter.ts, grpc/email-handlers.ts, providers/resend.ts | templates, back-off times, bodies |
| `RecordWorkflows` | the status machines of pets, rescues, staff, invitations, fosters, home visits, chats, reports, sanctions, swipe sessions, favourites and CMS content | every field but status, deletion, version and counter |
| `*Proofs` | the theorems of section 6 | |
| `MC*` | the instances TLC checks | |

Six components are shown to implement an abstract specification, each by a
refinement mapping of its own. The abstract one says what other components, or
users, may rely on, as if one careful person did the work; the mapping says
where that is read off the detailed state.

| Detailed | Abstract | Mapping | What is hidden |
| --- | --- | --- | --- |
| `EventOutbox` | `EventDelivery` | `Delivery`: owed events are those of committed transactions, delivered ones those on the stream | flushes, relays, crashes |
| `EventConsumer` | `EventInbox` | `Inbox`: `careful` is the style of handler, `begun` the table `processed_events` | which worker, which delivery |
| `GdprSaga` | `ErasureRecord` | `Record`: a service has erased when its rows keyed by user id are gone; notes and stamps are the audit row's | messages, attempts, the sweep |
| `ApplicationLifecycle` | `ApplicationCase` | `Case`: moves are the types of a stream's events, the status is the read model's, announcements are the staged events | transactions in flight, versions |
| `AuthSessions` | `SessionLedger` | `Ledger`: a session is open while a live token is in its family | tokens, locks, requests |
| `EmailQueue` | `Mailroom` | `Room`: `queued` and `sending` are an open slip (`Shown`), `mails` is what was posted | workers, claims, retries |

`ApplicationCase` reads the status from the read model, not from the fold of the
stream, so that the refinement also says that the two move together: a move is
lawful in the status that everybody can see.

Composition. `GdprSaga` uses the outbox only through `EventDelivery`'s promise: a
committed completion is published some time later. `EventConsumer` is used the
same way: a durable is a set of messages not yet acked, taken in any order,
which one that was not acked stays in. `IdsUnique`, the assumption under which
the outbox is proved, is the producers' to keep.
`ApplicationHistoryProofs!AnnouncementsDistinct` shows that the applications
service keeps it, and `RecordWorkflows!NumberedOnce` that the events of a pet and of a
rescue row do, whose ids are built from the row's version. The run
`report_events` shows that moderation does not; nor do a rescue's staff and
invitations, whose ids carry no version (staff-foster-handlers.ts:386, rescue
handlers.ts:910). `EmailQueue` takes its redeliveries from `EventConsumer`
(two attempts with one key) and its erasure from `GdprSaga`.

### EventOutbox

`txn[t]` follows one `withTransaction` call: `open` (fn running), `staged`
(rows inserted), `flushing` / `published` (inline flush: before and after the
publish of the current record), `done` or `failed`. `outbox` holds the committed
rows; `rowSeq` is the bigserial, taken at INSERT, so that sequence order and
commit order may differ. `relay[r]`, `batch[r]` and `gone[r]` are one sweep's
place, its row locks and its uncommitted DELETEs. Each query and each publish is
an action. `Fault` budgets the steps that fail: an unacknowledged COMMIT, a
publish that throws (whether or not the broker stored it), a failed DELETE, a
database failure in the sweep, a crash of a replica. `Rollback` is not budgeted.

### EventConsumer

`Deliver` leases a message to a worker, `LeaseExpires` makes it deliverable
again while that worker is still busy. `ClaimInTx`, chosen in `Init` and never
changed, says which of the two handler styles is behind the durable.
`HandlerThrows` is not budgeted: any handler may fail on any delivery.
`Crash` also stands for a dead-letter publish that throws, since that rejection
reaches `process-handlers.ts` and the process exits.

### GdprSaga

One saga, that is one correlation id. `requests` holds the attempts that are on
the stream (0 is the gateway's, n is the sweep's retry n); `inbox` and
`auditInbox` are the durables. The four ways an erasure can end are separate
actions: committed and acked, committed and not acked, failed, and committed
with the COMMIT's answer lost, in which case a failure is reported and a
success is staged. All completions of a service share one message id, and
`window` remembers it. The sweep is one action per statement
(`SelectOverdue`, `StampTimedOut`, `SelectRetry`, `PublishRetry`, `CountRetry`),
so that completions and other sweepers come between them.

### ApplicationLifecycle

`Load` is the transaction's SELECT and `handle()`; `Commit` is the append under
the unique index (aggregate_id, version), the projection under the partial
unique index (user_id, pet_id), and the staged event. `basis` in an event is
not a column: it records which version the author had seen. A transaction of
`eraseApplications` is one action; its first UPDATE locks the adopter's rows,
so only an application created between its two statements could tell the
difference, and that is left out. `Erase` is possible at any time, also
repeatedly, as the saga's retries make it.

### AuthSessions

A session is a rotation family of `refresh_tokens`. `stage[r]` is the place of a
request between two statements; `token[r]` the token it presents. Transactions
are READ COMMITTED: a revoking UPDATE chooses its rows when it starts
(`want[r]`), then locks them one by one (`SweepRow`) and looks again at each.
Row locks, the uncommitted key of `revoked_tokens` and the lock of the `users`
row are state (`rowHolder`, `jtiHolder`, `userHolder`), because rotation and
logout, and revocation and password change, take them in opposite orders;
`BreakDeadlock` is PostgreSQL's detector. `Fail` loses the service or the
connection in any stage. `missed[r]` is a history variable: the tokens minted
since the UPDATE of `r` started. They are not among the rows it chose, and it
leaves them live. That contradicts what session-handlers.ts:136 says
(`revocation_race`, section 4); the access-token watermark that is stamped next
is no answer, as a live refresh token mints newer access tokens.
`RevocationHolds` says that nothing but these tokens survives, token by token: a
request that missed one has still ended all the others it names.

### EmailQueue

Every statement commits on its own and so is a step; each may fail, and for the
mails in `Unsteady` may also be applied without an answer, or belong to a send
that outlives the stale limit. `ripe` stands for the clock: rows whose
`scheduled_for`, or whose stale limit, has passed. `send[w][m]` is what a
replica is doing for a row, as `dispatchOne` runs the rows of a batch in
parallel. `mails` counts what the provider delivers; it delivers one mail per
`Idempotency-Key` (resend.ts:60-64), an assumption on an external service.

### RecordWorkflows

The handlers of eight services have one shape: look at a row, decide by a
transition table, write. They differ in what protects the row in between, and
the module is organised by that: `Lock` / `WriteLocked` for SELECT ... FOR
UPDATE, `Find` / `Create` for SELECT then INSERT, `Check` / `WriteChecked` for an
unlocked read followed by an UPDATE that repeats no condition, `ReadToRevise` /
`Revise` for edits of a record's data, `DeleteOnce` and `DeleteRead` for
deletions. Each handler is one or two named actions made of these. `kind`,
chosen in `Init`, says which record a behaviour is about: records of different
services share no row, so nothing is lost by taking one kind at a time.

Where the code has no protection (`Unguarded`), a call may write on a reading
that another call has overtaken. `stale` is the set of such calls, a history
variable: `LawfulWrites` says that nothing but the write of such a call ever
breaks a transition table. `OneOpen` has its own two: `missed[r]` holds the rows
opened since call `r` looked, and `raced` the pairs of rows of which the call
that opened one had missed the other. Two records of one owner may be open only
as such a pair. A transition does not count: a visit whose status a stale call
changes is open with another only if their creations raced, or if the other was
opened after that call had read the first. For records that are
locked or have a unique index both properties hold without exception.

For the unguarded kinds the exempted calls are real, and for some of them the
comments promise more than the code does; section 4 lists these.

## 3. Runs

| Run | Instance | What it shows |
| --- | --- | --- |
| `outbox` | 2 replicas, 2 transactions (2 events and 1), claim limit 2, 1 fault | no event lost, exclusive claims, `ImplementsDelivery`, `OutboxDrains`, `OrderUnlessSplit` |
| `report_events` (violation) | two events with one id, no fault | a reused event id loses an event |
| `consumer` | 2 workers, 2 copies of an event, 1 malformed message, 3 deliveries, 1 fault | `ImplementsInbox`, acks, dead letters, end of redelivery, for both handler styles |
| `gdpr_saga` | 2 services, 1 sweeper, 1 retry, 2 faults | `ImplementsRecord`, completion, traces, stalls, the clean run |
| `gdpr_errors` (violation) | 1 fault | the retry hides an error |
| `gdpr_email` (violation) | 1 fault | the retry completes without the email-keyed rows |
| `applications` | 2 applications of one adopter and pet, 2 concurrent commands | `ImplementsCase`, histories, blind writes and open applications under races and erasure |
| `erasure_race` (violation) | | erased answers return to the read model |
| `auth_sessions` | 3 requests of any kind, 4 tokens, 1 backup code, any number of failures | one head per session, closings, revocation, backup codes, `ImplementsLedger`, deadlocks resolved |
| `revocation_race` (violation) | the same requests | a refresh token outlives the revocation of its session |
| `email_queue` | 2 replicas, 3 mails under 2 keys, batches of 2, 2 retries, one unsteady mail | `ImplementsMailroom`, the budget, settled rows, `QueueDrains` |
| `workflows` | 3 calls, 4 rows, each of 12 kinds | transition tables, logs, versions, one open record, the counter |

Bounds, and why they are enough to reach the cases that matter.

- Outbox: a claim limit of 2 under three rows makes claims full, partial and
  cut in the middle of a transaction. Two replicas give every pair of inline
  flush, relay, second relay and crash. One record carries an id and the others
  none, so dedup and opting out both occur. One fault suffices for each single
  failure; the proofs cover any number.
- Consumer: three deliveries instead of seven keep first, middle and last
  apart. Two copies of an event stand for the outbox's at-least-once delivery.
- Saga: two services are the fewest of which one can be missing while the other
  has reported. One retry reaches the budget's limit; two faults allow a failure
  and the loss of its report. `MaxRetries` bounds `row.retries` in the code too.
- Applications: stream length 7 reaches adoption through a home visit; length 2
  of the second application is enough to open and to close it. In `applications`
  a visit has one outcome, because no guard and no property reads it; in
  `erasure_race` it has all three.

- Sessions: three requests are the fewest in which a rotation, the reuse it
  leads to, and a third party (a revocation or another rotation) meet. Four
  tokens let all three mint beside the token the account starts with; a request
  that may mint starts only while a token is left (`CanMint`). Failures are
  not budgeted.
- Mail: `notice` and `again` are two deliveries of one notification, `other` a
  `SendEmail` call of higher priority. A batch of 2 below 3 rows makes the order
  of priorities matter, and two retries keep first, middle and last attempt
  apart. One mail is unsteady and two are not, so `SettledForGood` has both a
  case to cover and the hazard beside it.
- Workflows: three calls are one that reads, one that overtakes it, and one that
  meets the result; four rows leave each a row to create beside the first.
  `MaxRows` is the only bound. The proofs cover any number of both.

`CHECK_DEADLOCK FALSE` is set for the outbox, the consumer and the workflows,
which stop when every transaction has ended, every message is settled, and
every call has been answered.

What the properties say beyond the types:

- `NoLostEvent`, `ImplementsDelivery`: publish.ts:77-78. That no event of a
  rolled-back transaction is published is part of the refinement, and proved by
  itself as `NoPhantom`.
- `ClaimsExclusive`: the claim lock of outbox.ts:179-184, against the inline flush too.
- `OrderUnlessSplit`: the order within a transaction survives every failure and
  crash, as long as no two relays hold its rows at once. outbox-schema.ts:32-35
  claims the order without that condition; `SKIP LOCKED` with a claim cut by the
  limit (outbox.ts:191-193) is where it fails, and where the property stops.
- `ImplementsInbox`, `NoAckWithoutEffect`: the two halves of ADR 0003's claim.
  The push worker has only the first, as worker.ts:122-124 says: its clerk is
  not `careful`, and may fall asleep between beginning and acting. That an id has
  one effect is stated by itself as `AtMostOnce` and proved (`OneEffect`).
- `NothingDroppedQuietly`: a message that runs out of deliveries without being
  settled was lost to a crash or failed call, never to a failing handler.
- `CompletedMeansErased`, `ErasureLeavesATrace`, `ImplementsRecord`: the audit row
  tells the truth, and goes on telling it, under every order of completions,
  retries and duplicates. `ImplementsRecord` is about every step (what is written
  is true when it is written, and stays), the two invariants about what is at
  rest. It implies `VerdictsStand`, which is proved by itself.
- `StallSurfaces`, `CleanRunCompletes`: the saga does not hang.
- `LegalHistory` (histories, and the read model that follows them),
  `NoBlindWrite`, `OneOpenApplication`, `ImplementsCase`: what the version index,
  `expectedVersion`, the partial index, and all of them with the versioned event
  id together are for. `AnnouncedOnce` (exactly the events of a stream are
  announced, under their own versions) is proved by itself.
- `OneHead`, `ImplementsLedger`, `OnlyRequestedClosings`, `RevocationHolds`: a
  session has one live token, is closed by nobody but a request to close it,
  and once closed is not revived by a rotation that was already under way.
- `BackupCodeOnce`: the conditional `array_remove` of handlers.ts:412-423.
- `RequestsFinish`: lock orders may deadlock, calls nevertheless end.
- `ImplementsMailroom`, `AttemptBudget`, `SettledForGood`, `QueueDrains`: what the
  unique index with the idempotency key, the counted reclaim, the stale limit and
  the poll are each for.
- `TruthfulTrail`, `NumberedOnce`, `LawfulWrites`, `OneOpen`, `FavoriteCounted`:
  logs, versions, statuses, duplicates and the counter under concurrent calls.

Every property of a passing run has a mutant: a definition of the module that
changes one mapped definition as a plausible bug would, under which TLC finds
the property violated. Their comments start with "Mutant:".

## 4. Findings

The five violation runs each refute a sentence of the source or its comments;
`PROJECT.json` quotes them. In short: report handlers reuse the report id as
event id (handlers in moderation, matching and chat do the same); the saga sweep
clears `failed_at` and can lose the error for good; its retry lacks the email;
an erasure can be undone in the read model by a command in flight; a session
revocation that waits for a refresh leaves the refreshed token live.

For four of them a theorem says how far the defect reaches, for every instance:

- `GdprSagaProofs!OnlyRetriesHideErrors`: as long as no retry has been counted on
  the row, an errored entry comes with `failed_at`. Only the reset in
  gdpr-sweep.ts:176 hides an error.
- `GdprSagaProofs!OnlyRetriesMissEmails`: as long as no retry is on the stream,
  completion covers the email-keyed rows too, whatever fails, is repeated, or is
  reported wrongly. Only the rebuilt payload of gdpr-sweep.ts:151 loses them.
- `ApplicationHistoryProofs!OnlyOvertakenCommits`: a row that shows what its stream
  holds stops doing so only in the commit of a command that was loaded before an
  erasure took those answers. No other command, and no erasure, does it.
- `AuthSessionsProofs!RevocationsHold`: what outlives a revocation, a password
  change or a detected reuse was minted while its UPDATE ran.

Four more disagreements have no run of their own. The first is a matter of
reading two guards; the model has the others as the exceptions that
`LawfulWrites` and `OneOpen` name.

- commands.ts:179-181: "Failed/reschedule home visits MUST be reviewed again
  before approval; the rescue staff would call StartReview". `approve` accepts
  `home_visit_completed` whatever the outcome, and `startReview` (:118) refuses it.
- chat handlers.ts:154-158 explains that without `ensureChatWritable` messages and
  reactions would accrue to closed chats. They still can: the check reads on the
  pool, and a chat that is locked, archived or deleted before the INSERT gets the
  message.
- home-visit-handlers.ts:12-14: "the status-machine invariant is enforced by the
  database". The trigger copies whatever status the log entry has, and the check
  is on a row read earlier, so a completed visit can still be cancelled.
- matching handlers.ts:88 promises the user's active session "unchanged" to a
  second `startSession`. Two that both look first open two, as do two calls of
  `openChat`, whose comment (chat handlers.ts:375) calls its look-up idempotency, of
  `createStaffMember`, and of `scheduleHomeVisit`.

## 5. Fairness

- `EventOutbox!Fairness`: weak fairness of the relay's fault-free step on every
  replica. `startOutboxRelay` sweeps every second for as long as the process
  lives, and a crashed replica restarts. Nothing is assumed of the inline flush
  or of the transactions. Faults are bounded, which is the usual meaning of "the
  broker and the database work most of the time".
- `EventConsumer!Fairness`: a worker that has a message goes on (handlers may
  throw each time), the broker delivers what is deliverable and lets leases
  expire. An ack or a crash is never assumed.
- `GdprSaga!Fairness`: durables are served (the consumer's result), staged
  completions are published (the outbox's result), the deadline passes, and
  the sweep's scheduler runs (audit/src/index.ts:62-96). The user's request, the
  expiry of the duplicate window and every fault are not fair.
- `AuthSessions!Fairness`: a request that has arrived is served. Node runs the
  handler, PostgreSQL grants locks and resolves deadlocks. No client has to
  call, and no failure is assumed.
- `EmailQueue!Fairness`: time passes, the poll timer of each replica fires
  (worker.ts:127-152), and a send that started goes on. Nobody has to enqueue.
- `ApplicationLifecycle` and `RecordWorkflows` have no fairness: users owe the
  system nothing.

## 6. Proofs

TLAPS proves, for all values of the constants that satisfy each module's named
assumption (`OutboxAssumption`, `ConsumerAssumption`, `SagaAssumption`,
`LifecycleAssumption`, `AuthAssumption`, `EmailAssumption`,
`WorkflowAssumption`, which TLC evaluates in every run):

| Theorem | Statement | Inductive argument |
| --- | --- | --- |
| `EventOutboxProofs!TypeCorrect` | `[]TypeOK` | `Bookkeeping`: `TypeOK`; a call in its flush is committed and has a record left (`PhaseInv`); inserted rows have distinct seqs (`SeqInv`), without which a sweep could find two next rows or none |
| `!NoPhantom` | `[]NoPhantomEvent` | `RowsInv`: what is in the table or on the stream is owed, since a row only appears at COMMIT |
| `!Exclusive` | `[]ClaimsExclusive` | also `RowsInv`: claimed rows are in the table and disjoint, and an idle relay holds none |
| `!NothingLost` | `IdsUnique => []NoLostEvent` | `DeliveryInv`: under `IdsUnique` an id in the window belongs to an event on the stream, and a row that is deleted or about to be was stored before |
| `!InOrder` | `IdsUnique => OrderUnlessSplit` | `OrderInv`: rows of a transaction are numbered in stage order (`SeqOrder`), an inline flush passes only what is stored (`FlushInv`), and what a relay holds comes after what is stored, or is held by the same relay (`BatchInv`), where the absence of a split is used |
| `!Refinement` | `Spec => Delivery!Spec` | each action maps to `Commit`, `Deliver` or a stutter |
| `EventConsumerProofs!TypeCorrect`, `!OneEffect` | `[]TypeOK`, `[]AtMostOnce` | `ClaimInv`: an effect implies its claim; a worker that has claimed and not yet acted is the only one for its id, and the id has had no effect yet |
| `!AckAfterEffect` | `[]NoAckWithoutEffect` | `EffectInv`: with the claim in the transaction, a claimed id has had its effect, and so has the message of a worker about to ack; a worker about to term has parked its message |
| `!Budget` | `[]NothingDroppedQuietly` | `LastDelivery`: without a fault, a message on its last delivery is settled or in the hands of the worker that got that delivery |
| `!Refinement` | `ImplementsInbox` | `HandInv`: only a message that parses is acted on or parked, and a worker that is done has its effect or its claim behind it. A claim is `Begin` or `BeginAndAct`, the fan-out `Act`; leases, crashes and throwing handlers are stutters |
| `GdprSagaProofs!TypeCorrect`, `!Completion`, `!Trace`, `!Verdicts` | `[]TypeOK`, `[]CompletedMeansErased`, `[]ErasureLeavesATrace`, `VerdictsStand` | `SagaInv`: a success report, staged or on the stream, is backed by an erasure (`Backed`); every erasure is heard or will be (`Heard`); only a tracked saga is completed (`Tracked`); `Verdicts` follows from what the merge keeps |
| `!Refinement` | `ImplementsRecord` | from `Backed`: a completion that is merged as a success is `Note` of a service that has erased; `StampTimedOut` is `TimeOut`; the rest of the sweep, and all of the broker, is a stutter |
| `!OnlyRetriesMissEmails`, `!OnlyRetriesHideErrors` | see section 4 | `FirstAttempt`: until a retry is on the stream, whoever scrubs by user id scrubs by email too; until one is counted, an errored entry comes with `failed_at` |
| `ApplicationLifecycleProofs!SeenFirst`, `!OneOpen`, `!Announced` | `[]NoBlindWrite`, `[]OneOpenApplication`, `[]AnnouncedOnce` | `AppInv`: a versioned event in flight was decided on the version its command loaded (`Shape`), and a commit appends only directly after that version, opens an application only where the index has none for the pair, and names its event by the new version |
| `ApplicationHistoryProofs!TypeCorrect`, `!HistoryLegal`, `!RowsCoverStreams` | `[]TypeOK`, `[]LegalHistory`, `[]RowCoversStream` | `HistoryInv`: an open command decided on the fold of its stream up to the version it loaded (`Decided`). A later event makes its version taken; an erasure changes no status. So a commit extends a legal history by a legal event |
| `!AnnouncementsDistinct` | one id, one announced event | with `AppInv` |
| `!OnlyOvertakenCommits` | see section 4 | an append to an unchanged stream projects its fold (`FreshCommit`); an erasure scrubs row and stream alike (`EraseKeepsFold`) |
| `!Refinement` | `ImplementsCase` | a commit is `Move`: `Decided` makes it lawful in the visible status, the partial index closes the rivals; everything else is a stutter |
| `AuthSessionsProofs!TypeCorrect`, `!SingleHead`, `!CodesSpentOnce` | `[]TypeOK`, `[]OneHead`, `[]BackupCodeOnce` | `IInv`: a locked row is live until its holder commits (`HeldInv`), so a rotation replaces the head it holds; families are named after issued tokens (`FamilyInv`), so a login opens a new one; a token is left for whoever may mint (`MintInv`, a count); a code that let somebody in is gone (`CodeInv`) |
| `!ClosingsRequested`, `!RevocationsHold` | `OnlyRequestedClosings`, `RevocationHolds` | `SweepInv`: a request that ends one session holds no rows of another; `CoverInv`: a sweep has every live token it covers chosen or locked, but for those it missed |
| `!Refinement` | `Spec => ImplementsLedger` | a login is `Open`, a commit of a sweep is `Close`, every other step a stutter |
| `EmailQueueProofs!TypeCorrect`, `!WithinBudget` | `[]TypeOK`, `[]AttemptBudget` | `BudgetInv`: all claims of a row but the one in hand have been paid for with a retry, and a queued row has budget left |
| `!SettledStays` | `SettledForGood` | `SoloInv`: a steady row is in one worker's hands and out of the claim's reach until that worker lets go |
| `!Refinement` | `ImplementsMailroom` | `HandInv`: only inserted rows are in a worker's hands, and an accepted mail was posted; `SoloInv` for the rows that must not be reopened. A claim that finds the budget spent is `GiveUp`, markSent and the like are `Settle` or, for an unsteady row, `Reopen` |
| `RecordWorkflowsProofs!TypeCorrect`, `!TruthfulTrails`, `!VersionsUnique`, `!FavoritesCounted` | `[]TypeOK` and the three invariants | `CallInv`: a call that holds a lock has read what the row still is; so has a call that holds none, unless it is in `stale`. `DataInv`: versions in the history are not ahead of the row, and only some kinds have several rows |
| `!OneOpenRecord` | `[]OneOpen` | `RaceInv`: a call that found no open record and is to insert one has missed every one that is open now; a call that is to write a visit's transition has missed every other open visit that did not race with that one |
| `!WritesLawful` | `LawfulWrites` | from the same invariant: what a call is about to write is lawful for what it has read, and that is still there or the call is in `stale` |

`IdsUnique` (two records with one id are the same record) is what
publish.ts:11-14 asks of callers. Without it `NoLostEvent` is false, which is
what `report_events` shows.

`OneMailPerKey`, a part of the mail queue's invariant that its refinement needs,
is the assumption that the provider honours the key, which is how `Send` is
modelled; it is no result about the queue. `AuthSessions` and `RecordWorkflows` are proved without any bound on
requests and rows; `MaxTokens` bounds how many tokens are minted, for any value.

The streams of the aggregate are folded over their whole length, and what a
recursive function computes for every input is ordinarily beyond these provers,
as the library's induction theorems take an operator as parameter.
`ApplicationHistoryProofs` gets by with a first-order principle: every set of
numbers that has a member has a least one (`LeastNumber`, from `WFMin` and
`NatLessThanWellFounded`), so a property that a next number inherits is reached by
all (`Reaches`). The fold is unrolled one event at a time on that
(`FoldSteps`), and all else follows from what an append and a scrub do to it.

Only model-checked: liveness, which is outside the prover. These are
`ImplementsDelivery`'s fairness part, `OutboxDrains`, `RedeliveryEnds`,
`StallSurfaces`, `CleanRunCompletes`, `RequestsFinish` and `QueueDrains`. Every
other property of a passing run is stated by a theorem.

## 7. Not modelled, and the plan

Modules written so far, in the order of the plan: `EventDelivery`,
`EventOutbox`, `EventConsumer`, `GdprSaga`, `ApplicationLifecycle`,
`SessionLedger`, `AuthSessions`, `EmailQueue`, `RecordWorkflows`, with their
proof modules; then the abstract specifications `ApplicationCase`,
`ErasureRecord`, `Mailroom` and `EventInbox`, with their refinement proofs.

Next, in this order:

1. The gateway's erasure key in Redis (routes/gdpr.ts:162), read and set by two
   requests, and two sagas of one user.
2. An abstract register that `RecordWorkflows` implements, for the kinds of
   record that are locked or indexed.
3. The pets status machine composed with application approval, and the home
   visit's row composed with the aggregate.
4. Notification fan-out: a loop over recipients whose failures are caught and
   acked (subscribers.ts:204). The loss is the design's choice, so a model would
   state what is still promised to the other recipients.
5. The circuit breakers of the gateway and the revocation of its sockets.

Left out of modules that exist: in `AuthSessions` registration, lockout
counters, TOTP steps and expiry; in `EmailQueue` the second look-up of a
`SendEmail` that lost the race for its key, which runs in the transaction the
violation has aborted and so ends as a failure; in `RecordWorkflows` support
tickets (under FOR UPDATE any status may follow any other, so no table can be
broken), a rescue's public events, staff titles and application questions, the
removal of reactions, and the plain creation of pets, rescues, reports and
content, an INSERT nothing else of the new record can race with.

Left out for good: the scheduled jobs (scaffolds behind a claim of the run),
the audit log (append only, behind `EventConsumer`), matching's floating-point
scoring, read paths and mappers, generated protocol code, seeds and deployment,
and the React frontends. Generated code and the frontends are most of the
repository's lines: the concurrent logic of the backend is a small part of it,
and what is modelled is a small share of all lines for that reason.
`PROJECT.json` lists every component, with the reason where one is not modelled.

## 8. Running

    tlc -workers 2 -config MCEventOutbox.cfg MCEventOutbox.tla
    tlc -workers 2 -config MCRecordWorkflows.cfg MCRecordWorkflows.tla
    tlapm EventOutboxProofs.tla
    tlapm RecordWorkflowsProofs.tla
    tlapm ApplicationHistoryProofs.tla

The violation runs end with the counterexample they are there to show.
