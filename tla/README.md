# TLA+ models of Relays

Relays is a notification service: clients submit notifications over HTTP with
an API key, the service stores them in PostgreSQL, hands them to Celery workers
over a Redis queue, delivers them through a mail provider, and retries
temporary failures. Around that it has accounts: one-time codes sent by email,
sessions with rotating refresh tokens, API keys, a rate limiter, and a schema
migration run by every process that starts.

The modules here are translated from the Python and SQL under `src/app`. The
documents under `docs/` are used only to name what the code is supposed to do.
All source paths below are relative to `src/app`.

## 1. Inventory

| part | state | operations | hard behaviours | module |
|---|---|---|---|---|
| Notification tables (`modules/notifications/db`, `infra/db/schemas`) | rows of `notifications` and `delivery_attempts` | the UPDATE/INSERT statements, the transactions around them, the CHECK and UNIQUE constraints | a result persisted against a row that has changed since it was read | `NotificationStore` |
| Delivery engine (`modules/notifications/api/v1/routes.py`, `modules/notifications/workflows`, `infra/queues`, `infra/workers`) | handler progress, Redis list, reserved messages, claimed batches | submit, enqueue, mark queued, reserve, load, send, persist, acknowledge, claim, enqueue claimed | redelivery and overlap, crashes between any two steps, enqueue/commit order, LIMIT and SKIP LOCKED | `NotificationEngine` |
| Idempotent submission (`workflows/notification_submission.py`, `core/idempotency.py`) | `idempotency_keys` | insert-or-conflict, create, complete, look up, answer | racing requests on one key, rollback after the key was inserted | `NotificationSubmission` |
| Mail provider and retry policy (`providers/email/mailrelay`, `retry/policy.py`) | none of its own; `next_retry_at` in the table | classify what a POST came back with, compute the next retry time, claim due rows in order | a timeout after the provider took the email, clocks that disagree, more due rows than LIMIT | `MailProvider`, `RetrySchedule` |
| Sessions | a `sessions` row | refresh, log out, expire | read, then update by id after waiting for the row lock; access tokens a logout cannot reach | `Sessions` |
| One-time codes | `login_otp`, `registration_otp` rows | ask, replace, verify, consume, expire | two statements that may see two different rows | `OneTimeCodes`, `LoginCodes`, `RegistrationCodes`, `OtpFlows` |
| Account creation, profile and workspaces | `users`, `workspaces`, `workspace_members`, `sessions` | `create_account`; the reads of the JWT guard, `/auth/me` and the roster | UNIQUE races, half-done accounts, circular waits, a roster read by two statements | `AccountCreation` |
| OTP rate limiter | Redis sorted sets with a time to live | trim, count, add, expire; three windows in turn | awaits between commands, key expiry, crashes | `OtpRateLimiter` |
| Start-up and migrations | `schema_version`; each process's pool and Redis client | `init_db`, `run_migrations`, `app_lifespan` with its shutdown | several processes starting at once, older images, failures half way, a pool that is set before it works | `Migrations` |
| API keys | `api_keys` rows | create, revoke, expire, authenticate | racing creates and revokes, a key revoked while a request is served | `ApiKeys` |
| Access tokens, JWT guard (`auth/security/jwt.py`, `infra/guards/jwt.py`) | none | encode, decode, look up the context | tokens that outlive what they stand for | `AccessTokens`, composed in `AccountCreation` and `Sessions` |
| Workspace names and slugs | none | clean, check, slugify | a name that is cleaned before it is slugified | `WorkspaceNames` |
| Other request schemas, HTTP errors, logging, configuration, fake provider | none across requests | validation, formatting | none across steps | not modelled, section 6 |

How they interact: the API handler writes through `submit_notification` in one
transaction, then publishes to Redis, then marks the row queued on another
connection. A worker reserves a message, reads the row on one connection, calls
the provider, and persists the result on another. Beat starts
`retry_scheduler_task` every ten seconds, which claims due rows in one
transaction and then publishes them one by one. Registration goes from
`RegistrationCodes` (a registration token) to `AccountCreation`, sign-in from
`LoginCodes` to `Sessions`; both ask `OtpRateLimiter` before they issue a code,
and both end in an access token that the JWT guard judges by itself.
All of it shares the tables `Migrations` creates.

## 2. The modules and the code

**`NotificationStore`** has one operator per SQL statement of
`notification_queries.py`, with the same name (`mark_queued`, `mark_sent`,
`schedule_retry`, ...), mapping a row to a row with the statement's WHERE and
SET. `PersistCommits` and `PersistRollsBack` are the transaction of
`persist_delivery_result`: increment, attempt row and state change commit
together if the CHECK constraints (`chk_attempt_bounds`,
`chk_sent_at_timestamp`, `chk_retry_states`) and the UNIQUE attempt number allow
every statement of it, and otherwise nothing happens. Times are abstracted to
`next_retry_at \in {"null", "later", "due"}`; `TimePasses` makes later due.

**`NotificationEngine`** adds the processes. `handler[n]` is `create_notify`
after its commit; `queue[n]` counts the messages of `n` in the Redis list;
`worker[w]` is a reserved message and the progress of its task (`reserved` →
`sending` → `persisting` → `acking`); `claimed[s]` is the batch a scheduler has
claimed and not yet enqueued. One action is one transaction, one broker
operation or one provider call. The environment has actions of its own,
counted by kind in `faults`: a failing enqueue or a dying API process (`api`),
a task that raises or loses its child process and is acknowledged all the same
(`task`), a worker that dies with its message unacknowledged (`worker`), a
scheduler that stops after its claim (`scheduler`), a message redelivered
because its task outlasts `visibility_timeout` (`redelivery`), a message Redis
loses (`loss`). `executions` (calls of `provider.send`) and `receipts` (receipts
it got for them) are seen from outside and read by no process.

**`DeliveryLedger`** is what the service promises without any of this: each
notification has a phase and a list of recorded outcomes that only grows.
**`NotificationRefinement`** maps the two tables onto it (`ImplementsLedger`).

**`NotificationSubmission`** is `submit_notification` statement by statement.
A request's `pc` says which statement is next; rows of an open transaction are
kept in the request's record until `Commit`. `Insert` is the
`INSERT ... ON CONFLICT DO NOTHING` that waits for another open transaction on
the key. **`IdempotentOperation`** is the abstract operation it implements: a
key is decided once, every answer agrees with that decision.

**`MailProvider`** is `MailRelayProvider.send` and `MailRelayClient.send` as a
function of the exchange on the wire: an answer (a status code, and a receipt
or something else), a timeout, a network or protocol error, or no call at all
(cc or bcc). A receipt counts whatever non-error status it comes with: the
client asks for `is_error` only. `Evidence` is external to the code: what an
exchange tells about the email. HTTP says that a 4xx request was not carried out
and a 2xx one was; a 5xx, a redirect, a broken exchange or an unreadable answer
leaves it open.

**`RetrySchedule`** is about time, which `NotificationEngine` abstracts from:
`clock` is the database's NOW(), each delivery uses a worker's clock that is off
by up to `Skew`, `calculate_next_retry_time` is the set of its possible results
(full jitter), `chk_next_retry_at` may roll a result back, and `Batches` is the
claim's ORDER BY, LIMIT and SKIP LOCKED with `Select` and `CommitClaim` as the
two ends of its transaction. Requests are emails, emails with cc or bcc, or of
another channel (`Refuse`: `compose.yaml` starts workers for the queue `email`
only, so such a message is not even read; a worker that read it would raise;
either way its row is never touched again). It leaves duplicates and lost
messages to `NotificationEngine`.

**`AccessTokens`** has the two encoders and decoders of `jwt.py`. A token is
the record of its claims; `Forged` is whatever fails the signature check.

**`Sessions`** is one session row under `refresh_access_token` and `logout`:
read by token hash, then update by id under the row lock with only
`revoked_at IS NULL` rechecked. A token is named by the refresh that made it.
A refresh mints its access token (`Mint`) before its transaction commits, and
the client has it after; `GivenAccess` are those somebody has. A logout's
`revoked_at` is `now()`, the start of its transaction (`started`), which comes
before any wait for the row; `answered` is when it committed.

**`OneTimeCodes`** has the row and the verification steps the two flows share
(check, start the UPDATE, wait, recheck, commit); NOW() is a logical clock.
**`LoginCodes`** issues codes in two transactions of one statement each, because
`request_login_otp` leaves its transaction before them; `StartInsert` fixes
`created_at`, and `InsertCode` then waits under `uq_user_id` for a verification
that has changed the row; **`RegistrationCodes`** issues them in one
transaction, and adds the tokens a verification hands out and the account made
with one. **`OtpFlows`** is the choice between the two, `OTPFlow`: a behaviour
takes one flow, and what both must keep is stated once.

**`WorkspaceNames`** has `slugify`, the cleaning of a workspace name by its
validator, and the two checks, as operators over sequences of characters.
`IsSlugOf` says what a slug is without the steps that make one; two ASSUMEs,
which TLC evaluates for every name of up to `MaxNameLength` characters in run
`account`, compare the two.

**`AccountCreation`** is `create_account` from the registration token it is
given to the tokens it returns: the checks that need no database (401, 400),
two lookups, then the INSERTs, each waiting for open transactions with the same
unique value. It also has what accounts are read by: `get_workspace_context`
and `authenticate_jwt`, `get_current_user_context` for `/auth/me`, and the
roster route with its two statements.

**`OtpRateLimiter`** is `otp_rate_limit` with each Redis command of
`sliding_window_limiter` an action, and key expiry in `Tick`, which may come
between any two of them: a slow call trims, counts and adds by the clock it read
first, and its entry may be gone before its `expire`. `admitted` records from
outside what was let through, and whether its entry was there at the `expire`
(`kept`). The specification is `LimiterSpec`, so that one module can be about it
and `OtpFlows`.

**`Migrations`** is `init_db`/`run_migrations` of several processes: the API's
lifespan, which goes on to Redis and can be shut down, and worker processes,
which call `init_db` on their first task. `pool` is the global of `session.py`.
**`ApiKeys`** is the two routes that write `api_keys` and the guard that reads
it.

The modules `MC...` give names to constants and symmetry sets the configurations
need; the other runs use their component's module directly. Definitions
introduced by "a faulty variant" are not part of any specification: each is a
plausible bug, put in the place of one definition to see that a property
notices.

## 3. The runs

All runs are exhaustive for their bounds. CHECK_DEADLOCK is off everywhere
because every model comes to rest: calls are finitely many, all end, and
nothing has to happen afterwards. Runs with liveness use no symmetry.

| run | instance | what it shows |
|---|---|---|
| `engine` | 1 notification, 2 workers, 1 scheduler, 3 attempts, every fault once | `HistoryExplainsState`: attempt rows, `attempt_count`, state, `next_retry_at` and `sent_at` always agree. `HistoryIsBacked`: every recorded attempt is a provider call of its own, every recorded success has a receipt of its own. `NothingBeforeCommit`, `CarriersBounded`, `DuplicatesAreBounded`: who can hold a notification, and what duplicates cost. `NoOrphan`: it is left unfinished with nobody working on it only by a fault that drops work, of a kind its row tells. `SentIsFinal`, `FailedIsFinal`, `ImplementsLedger`, and `Settles`: it ends sent or failed, or such a fault stranded it. 66 thousand states. |
| `engine_batch` | 2 notifications, 1 worker, 2 schedulers, 2 attempts, LIMIT 2, one redelivery, one scheduler failure | batches claimed together or apart by overlapping scheduler runs: `NoOrphan` (a scheduler that dies drops the rest of its own batch and nobody else), `CarriersBounded` (nobody is claimed twice), and `Settles` for all others. |
| `retry` | 3 notifications, 2 schedulers, LIMIT 1, 2 attempts, clocks up to one second apart, five status codes (a success, a redirect, a client error, a server error of each sort) and every other kind of exchange | `InTurn`: a row that failed later never takes the turn of one that was already due. `OnlyTheseAreStranded`: an accepted notification is left queued for ever only if it is no email, or if `chk_next_retry_at` refused its result because it was tried sooner after its creation than the clocks are apart. `VerdictsAreTrue`: sent only on a receipt that came with a success or a redirect, and failed before the last attempt only when refused or answered with a server error. 2.1 million states, the largest run in time. |
| `submission` | 3 requests, 2 keys, 2 payloads | `OneNotificationPerKey` between the two tables, refinement of `IdempotentOperation`, and nobody waits for ever. |
| `sessions` | 3 refreshes, 2 logouts, access tokens of 2 units of time | `RevokedIsFinal`, `SupersededIsDead`, `OneLogoutSucceeds`; `AccessEndsAfterLogout`: a refresh that races with a logout hands out nothing that outlives the answer to the logout by more than an access token's time to live. 4.1 million states. |
| `otp` | 3 requests in sign-in, 2 in registration, 2 calls that present a code | `OneSignInPerCode`, `SignInBurnsOwnCode`, `LoginConflictIsRecent` for sign-in, `GrantsHaveCodes` and `EveryCallEnds` for both. 1.2 million states. |
| `account` | 3 calls, 2 emails, names with 2 slugs and one that is reserved, 1 roster | `AccountsAreWhole`; `GivenTokensWork`: the guard takes an access token from the moment a client has it; `RosterIsComplete`; `NobodyWaitsForever`. |
| `limiter` | 3 calls, 2 at a time, windows of length 1 and 2 with limits 1 and 2, crashes | `OverrunBounded`, `AdmittedIsCounted`, `EveryKeyExpires`, with time passing between the commands of a call. 830 thousand states. |
| `migrations` | an API, a worker and a worker of an image with 1 file, 2 files, 2 failures | `RecordedIsRun`, `NothingSkipped` (also: a pool is there only with every file), `EveryProcessServes`. |
| `api_keys` | 2 creates, 2 revocations, 1 use, 2 workspaces, 2 names | `RevokedOnceByItsOwner`, `DeadKeysOpenNothing`. |
| `finding_accepted_not_queued` | 1 notification, one failing enqueue | a violation, see section 5. |
| `finding_registration_stuck` | 2 requests, 1 verification | a violation, see section 5. |

Why the bounds are enough. In `engine` everything that makes delivery hard
happens to one notification: two workers inside the same attempt, a third
attempt at the `max_attempts` boundary, and any order of one fault of each kind,
so up to three carriers at once. What one notification cannot show, the sharing
of workers and claims, is `engine_batch`; order and LIMIT are `retry`, where
three rows compete for a claim of one, so that one may be passed over while a
second one is tried and comes back. In the database models two transactions show
every conflict on one row; a third shows one that waits behind another, or a
value that could come back (`Sessions` needs three refreshes for that).
`account` has a call on each side of a circle of waits and one more. In sign-in
`otp` needs a third request, the one that deletes the code presented while
another INSERT is under way; in registration the delete and the insert commit
together and two do (`MaxRegistrationRequests`). The limiter needs one call more
than the limit in the longer window, and its windows scale down what only
matters by order; three units of time let the key of either window end within a
call and a request be made after that. `Migrations` needs two processes that
race on the same file and an older one that sees a newer schema.

The type invariants are proved for each module (section 4), and the runs check
the properties that could really fail. Run `sessions` also evaluates
`TokensCompared`, the decoders of access and registration tokens over every time
in which they matter; run `account` evaluates the two assumptions about
`slugify`.

Bounds that are constants of the models: `FaultBudget` (faults by kind),
`MaxFailures`, `MaxTime`, `MaxNameLength`, `MaxRegistrationRequests`,
`Concurrency`, and the sets of calls. `MaxAttempts` and `ClaimLimit` are the
code's own parameters; delays and times to live are the code's, scaled down. In
`retry` the clock runs for two units: one for a retry to come due, one for
another to be tried after that.

### Fairness

`NotificationEngine`: weak fairness of the handler's, workers' and scheduler's
steps (processes that run go on), of time, and of taking *some* message (Redis
lists are FIFO and Celery keeps polling). Claiming has strong fairness for each
notification: beat starts a run every ten seconds, the query orders by
`next_retry_at`, so a due row gets to the front, and `SKIP LOCKED` passes over
it only while a transaction holds it, again and again but not for ever. Clients
are not fair: nothing makes anyone submit or replay. No fault is ever forced.
`NotificationSubmission` and `OtpFlows`: weak fairness of each call's own steps,
none of arrivals, failures or clocks. `Sessions`, `AccountCreation` and
`RetrySchedule` have safety properties only; that nobody waits in a circle is
said of the waits themselves (`NobodyWaitsForever`). `Migrations` adds that a
process whose `init_db` failed is started again: a worker tries on its next
task, the API is restarted.

## 4. Proofs

The runs check every property on a small instance. The theorems say the same
for every set of processes, calls, notifications, keys, files and names, and
every bound: all properties of all passing runs, except those that need
fairness. They are in eight modules, each of which extends the specification
it is about.

| module | theorems (and the properties they state) |
|---|---|
| `NotificationEngine_proofs` | `TypeCorrect`, `CommitComesFirst` (`NothingBeforeCommit`), `HistoryAlwaysExplainsState` (`HistoryExplainsState`), `SentStaysSent` (`SentIsFinal`), `NobodyIsOrphaned` (`NoOrphan`), `HistoryStaysBacked` (`HistoryIsBacked`), `CarriersStayBounded` (`CarriersBounded`), `DuplicatesStayBounded` (`DuplicatesAreBounded`), `FailedStaysFailed` (`FailedIsFinal`), `EngineImplementsLedger` (`ImplementsLedger`) |
| `NotificationSubmission_proofs` | `KeysHaveOneNotification` (`OneNotificationPerKey`), `SubmissionImplementsOperation` (`ImplementsOperation`) |
| `RetrySchedule_proofs` | `ClaimsAreInTurn` (`InTurn`), `NobodyElseIsStranded` (`OnlyTheseAreStranded`), `VerdictsStayTrue` (`VerdictsAreTrue`) |
| `Sessions_proofs` | `TokensOpenTheirOwn` (about `AccessTokens`: `KindsApart`), `OutdatedTokensStayDead` (`SupersededIsDead`), `ExactlyOneLogout` (`OneLogoutSucceeds`), `LogoutIsFinal` (`RevokedIsFinal`), `LogoutEndsAccess` (`AccessEndsAfterLogout`) |
| `Otp_proofs` | of `OtpFlows`: `SignInOncePerCode` (`OneSignInPerCode`), `SignInConsumesItsOwn` (`SignInBurnsOwnCode`), `GrantsNeverExceedCodes` (`GrantsHaveCodes`), `ConflictsAreRecent` (`LoginConflictIsRecent`); of `OtpRateLimiter`: `LimitsHold` (`OverrunBounded`), `AdmittedStaysCounted` (`AdmittedIsCounted`), `KeysExpire` (`EveryKeyExpires`) |
| `AccountCreation_proofs` | `AccountsAllOrNothing` (`AccountsAreWhole`), `NewTokensWork` (`GivenTokensWork`), `RostersNameTheOwner` (`RosterIsComplete`), `WaitsEnd` (`NobodyWaitsForever`) |
| `Migrations_proofs` | `FilesRunOnce` (`RecordedIsRun`), `ImagesRunInOrder` (`NothingSkipped`) |
| `ApiKeys_proofs` | `KeysAreRevokedOnce` (`RevokedOnceByItsOwner`), `DeadKeysStayShut` (`DeadKeysOpenNothing`) |

Each module also proves its component's type invariant, which everything else
rests on.

### The arguments

**The engine.** Types, `NothingBeforeCommit` and `HistoryExplainsState` are
inductive together (`Inv`). `HistoryExplainsState` alone is not, because
`Submit` resets a row and is harmless only if nobody has seen it yet, which is
`NothingBeforeCommit`. The lemmas go from the statements (each maps a row to a
row) to what a committed `persist_delivery_result` writes, to the history it
leaves: it may run against any row, also one another worker has finished, and
keeps the history because it commits as a whole and PostgreSQL tests its CHECK
constraints on the way. `SentIsFinal` then needs one step per action.

For `NoOrphan` each step keeps a carrier or hands the notification on
(`CarriedStep`), or counts a fault and strands one notification, or of a dying
scheduler the rest of a batch of at most `ClaimLimit`. That the row tells which
fault needs two facts more (`OrphanInv`): a row still `created` after its
request has ended is a failed request's (`AbandonedByApi`), and what a scheduler
has claimed was tried before, so it is not `created` (`ClaimsAreRetries`).

The bounds on duplicates are a matter of book-keeping (`Counts`). None is
inductive: a worker that holds a notification is about to add an attempt or to
lose a result. So the recorded successes are counted together with the carriers
that may still add one (`Paid`), the calls missing from the history together
with those that may still lose theirs (`LossesPaid`), and as long as nothing was
duplicated a carrier is alone and the row unfinished (`AloneUntilDone`), which
is why failed is final. The sets of workers and schedulers need not be finite;
that those at work on one notification are is part of the invariant.

The refinement of `DeliveryLedger` goes action by action: `Submit` is `Accept`,
a committed transaction of `persist_delivery_result` is `Enter`, `Claim` is
`Retry`, and every other step leaves the ledger alone. The mapping reads the
history off `delivery_attempts` by number, so it rests on attempts being
numbered without gaps, which is a part of `HistoryExplainsState`.

**Submission.** A transaction that has inserted a key is alone with it and
there is no committed row for it (`HoldersAreAlone`), so a commit never
replaces a row, and what a request read of one stays true (`Remembered`). With
that, `Commit` is the abstract `Decide`, the answers are `Confirm`, `Repeat` or
`Fail`, and the other statements stutter.

**Retries.** A notification is at one place at a time (`Places`): in the
broker, due, locked by one open claim, in the batch of one committed claim, or
finished. So a result is recorded once, on a row without a retry time; what is
in no place was refused or lost its retry (`Stranding`); the latest exchange
explains the verdict (`VerdictsHold`); and a retry time lies at
most `Skew` before the delivery it follows (`RetriesFollow`), which together
with ORDER BY and LIMIT gives `InTurn`.

**Sessions.** Whoever has updated the row holds its lock, and the row is not
revoked while it does (`RowIsHeld`). So no refresh commits after a logout, the
access tokens in circulation were minted before the logout committed, though
not always before its `revoked_at` (`MintedInTime`), and
`TokensOpenTheirOwn` says when they expire.

**One-time codes.** A verification that has consumed a code holds the row until
it ends (`HolderIsReady`), so grants and the open row are never more than the
codes issued, in either flow. For sign-in, that the row is still the one whose
code was presented is a fact about time. A code that is gone was deleted by some
request (`IssuedIsThere`). If that is the request whose row is there now, its
INSERT started after the code had been found, hence after the verification began
(`MatchedBefore`), and `chk_consumed_after_creation` refuses it. So only a third
request's DELETE leaves a way, which is what `TookNewerCode` says.

**The limiter.** A call may trim and count by an old clock, but that removes no
entry that still counts and overlooks none (`ClocksPast`, `EntriesPast`), and
each `expire` outlasts every entry there is (`TtlOutlasts`). What was let through
in a window with its entry kept is therefore in the set that `Count` looks at.
Those let through beyond the limit were counted together with calls that have
been counted and are not answered yet, of which there are at most `Concurrency`
(`OverrunOf`). Entries that go before their `expire` go together with their key,
and the next time to live ends after the window (`LossOf`), so they are entries
of calls that ran at one time.

**Accounts.** A call that has inserted its user is alone with the email, and
no committed user has it; the same holds for the slug (`EmailsAreHeld`,
`SlugsAreHeld`). So commits overwrite nothing, and the tables hold exactly what
the successful calls put there (`TablesMatch`). Holders of one value being alone
is also what bounds the waits: a call waits for one email holder, which waits for
one slug holder, which waits for nobody.

**Migrations.** The images agree as far as both go, so the file a process runs
next is the next version for all of them. What is recorded has no gaps and a
largest version, which is what `SELECT MAX(version)` returns, and a process
about to commit is the only one with its version (`CommitsAreAlone`).

**API keys.** A row a revocation has updated and not committed is active and
updated by nobody else (`UpdatesAreAlone`); a key dead on arrival stays dead
(`DeadOnArrival`).

### What the proofs assume

The ASSUMEs of the modules, which TLC evaluates for every run's instance:

* `MaxAttempts` and `ClaimLimit` are positive (the column's CHECK, the query's
  parameter); budgets, delays, skew, times to live and clocks are naturals.
* The different kinds of calls are different, and `None` (in the limiter,
  `NoCall`) is none of the values it stands beside.
* `OtpRateLimiter`: there is a window, limits, lengths and `Concurrency` are
  positive.
* `AccountCreation`: a forged token is not one the service mints; this is what
  the signature is for, and it is external to this code.
* `Migrations`: the two facts about file names and images in section 6.

### Only model-checked

* Everything with fairness, which the prover does not reach: `Settles`,
  `EveryCallEnds`, `EveryRequestIsAnswered`, `EveryProcessServes`. For delivery
  the safety side of it is proved: that somebody still has the work
  (`NobodyIsOrphaned`, `NobodyElseIsStranded`).
* What `slugify` returns (`SlugifyIsRight`, `CleaningKeepsSlug`), since it is
  computed over sequences of any length: that needs induction over data. TLC
  compares all names of up to `MaxNameLength` characters.

## 5. Where the code and the documents part

Two disagreements have a run that ends in a counterexample.

* **A registration that can no longer be completed**
  (`finding_registration_stuck`, `CanVerifyAgain`). After a code was verified
  and its registration token expired unused, `request_registration_otp` does not
  see the consumed row (`get_registration_otp_by_email` selects unconsumed
  ones), does not delete it, and its INSERT violates `uq_email`: every later
  request for that address gets 409.
* **Accepted and not queued** (`finding_accepted_not_queued`,
  `AcceptedIsQueued`). If enqueuing fails after the commit, the client is told
  to retry; the retry finds the idempotency row and is answered 200 without
  enqueuing. The notification stays `created`. In TLC's trace the repetition
  comes even earlier, between the commit and the failing enqueue.

The models also show, without a run of their own, that other sentences of the
documents hold only in the weaker form the properties state:

* duplicate queue messages *can* produce duplicate deliveries and reopen a
  failed notification (docs/WORKERS.md says they cannot): `DuplicatesAreBounded`
  and `FailedIsFinal` say how far. A first delivery goes from `queued` straight
  to `sent`, never through `processing`;
* a provider call may leave no delivery attempt (docs/DATA_MODEL.md: exactly
  one): after a crash, or when `chk_attempt_bounds` rejects a late result;
* a scheduler that stops after its claim strands the rows it claimed
  (docs/RETRY_ENGINE.md: "A process restart does not lose pending retries"):
  `NoOrphan` says that it loses no more than that batch, and `Settles` that all
  others still end. The same two say what a task that raises and a failing
  enqueue cost: one notification each;
* two refreshes that read the session before either updated it both succeed
  with the same token; `SupersededIsDead` still holds, so only the last one's
  token works afterwards;
* two verifications of one registration code are both granted if a request
  replaces the code in between; `GrantsHaveCodes` says each still used up a code;
* the same can happen in sign-in (docs/AUTH.md: "A consumed OTP can never be
  used again."): a verification has consumed a code and not committed; the
  INSERT of a second code starts and waits for it; another verification of the
  first code begins and still finds it; the first one commits and a third
  request deletes the row; the INSERT goes through with its early `created_at`;
  the other verification uses up the second code and is granted as well.
  `OneSignInPerCode` and `SignInBurnsOwnCode` say that this takes a third
  request and an INSERT that started before the verification;
* an access token may outlive its session's `revoked_at` by more than its time
  to live, by as long as the logout took, waits for the row included:
  `AccessEndsAfterLogout` counts from the logout's answer;
* a redirect whose body looks like a receipt marks an email as sent, and a server
  error outside the retryable ones ends it as a permanent failure although the
  provider may have taken it (`VerdictsAreTrue` allows both and nothing else);
* SMS and webhook requests are accepted and queued (routes.py:57: "Accepts
  email, SMS, or webhook notifications"; docs/PRD.md has these channels among
  the non-goals), but `compose.yaml` starts workers for the queue `email` only,
  and `deliver_notification` reads every payload as an email: their messages
  stay unread, or a worker that reads them raises, and the rows stay `queued`:
  the first case of `OnlyTheseAreStranded`. The properties of
  `NotificationEngine`, `Settles` among them, are about emails;
* a worker whose clock is behind the database's can lose the result of an early
  first attempt to `chk_next_retry_at`, and the notification with it:
  `OnlyTheseAreStranded` says when;
* a worker process whose `init_db` failed while warming up its pool serves with
  that pool from its next task on; `NothingSkipped` shows that its schema is
  complete all the same;
* an expired code's DELETE is rolled back by the exception that follows it;
* overlapping calls exceed a rate limit, and a request is forgotten when the
  key's earlier time to live ends between its `zadd` and its `expire`
  (`OverrunBounded` says how far both go), a request denied by a later window
  has used up the earlier ones, a key may be left without time to live by a
  crash, and the cooldown is 30 seconds where docs/AUTH.md says 60;
* nothing reads `idempotency_keys.expires_at`, and nothing calls
  `update_api_key_last_used`.

## 6. Not modelled

Abstractions of what is modelled:

* `NotificationEngine` has no clock: a retry is "later or due at once", and the
  provider's answer a choice among its outcomes. Both are made precise in
  `RetrySchedule` and `MailProvider`, where nothing is delivered twice.
* All API hosts share one clock in `Sessions` and `AccountCreation`. A host that
  lags would refuse a token another has just minted (`iat`), as
  `decode_access_token` shows by itself.
* Equal random values (codes, tokens, key prefixes) and equal timestamps.
* The API processes that share a limiter have one clock in `OtpRateLimiter`,
  Redis's, although each call reads it once and may use it late.
* `NotificationStore.ConstraintsHold` leaves out `chk_next_retry_at`, which
  compares times; it is modelled in `RetrySchedule`.
* `Migrations` assumes that file names are padded, so that `sorted()` orders
  them by version, and that an older image has a prefix of the newer one's
  files. There are no migration files yet.
* A commit whose answer is lost on the way to its caller (the connection breaks
  after COMMIT): in `AccountCreation`, `ApiKeys` and the other models of one
  transaction, who asked is answered by what the transaction did. In
  `NotificationEngine` a client may repeat a request that was never answered.
* Emails, names and keys are values without structure, except for the names of
  workspaces; a bad signature, an unreadable body and a malformed header are
  one value each.

Left out, and why:

* The fake provider: `submit_notification` stores `mailrelay` with every
  notification, so the registry never selects it.
* What SMS and webhook payloads contain: no provider delivers them
  (`RetrySchedule` has what becomes of such a request).
* `idempotency_keys.expires_at`, which nothing reads; promises nobody makes about
  an expired code's row, or about the counts of a request that a later limiter
  denies.
* Queries nobody calls: `update_workspace_name`, `update_api_key_last_used`,
  `count_active_api_keys`, `get_api_key` and the like. The reads of API keys and
  notifications that are called return committed rows by one statement each and
  change nothing; no property here is about them.
* Request and response schemas other than the workspace name's: one field at a
  time, checked by pydantic, with no state to get wrong.
* The HTTP layer (exception handlers, request ids, logging, configuration):
  formatting of answers. Error answers appear as outcomes of the handlers.
* The health routes: a constant.

## 7. Plan

The order of work was: the engine, since every other part serves it; the
submission in front of it; the account flows; start-up and keys; then time and
order in retries, the provider, the tokens and the names; then the proofs, in
the same order. What could still be added:

1. The lemmas about operators that say something by themselves (what
   `calculate_next_retry_time` and `MailProvider` return) as theorems, like
   `TokensOpenTheirOwn`, and more of them for the statements of the tables.
2. Induction over the length of a name, should the provers come to support it,
   for what `slugify` returns.
