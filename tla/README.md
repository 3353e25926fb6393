# EasySmart IIoT Core: a verification development

TLA+ models of the EasySmart IIoT Core, model-checked with TLC and proved about
with TLAPS. Paths below are relative to the repository (`src/`); line numbers
are those of the commit this development was written from.

## 1. The system

Devices in the field talk MQTT to EMQX; EMQX calls the HTTP API (`go-api`) for
authentication and hands it every telemetry message through a webhook; users and
their dashboards call the same API. The API keeps devices, users, tenants and
quotas in PostgreSQL, samples in TimescaleDB, and short-lived values in Redis.
Every HTTP request runs in a goroutine of its own, statements go to three
external stores with no common transaction, and most errors after the first
write are ignored or logged. That is where the hard behaviours are.

| Component | Code | State | Operations | Interacts with |
|---|---|---|---|---|
| Device lifecycle | `go-api/handlers/devices.go`, `database/migrations/002_*.sql` | `devices` rows; Redis `claim:<id>:secret` (5 min) | provision, claim, bootstrap, get secret, reset, list | users (JWT), devices (HMAC), the webhook, which sets `status = 'active'` |
| Quotas | `go-api/handlers/quota.go`, `go-api/handlers/tenant_admin.go` | `tenants.quota_*`; Redis `quota:tenant:<tenant>:device:<id>:m`; usage snapshots | enforce device, message and storage quota; read and patch quotas | claim, provision, webhook |
| Telemetry | `go-api/handlers/telemetry.go` | `telemetry` rows; Redis `latest:device:<id>:slot:<n>` | webhook, latest value, active slots | EMQX, device rows, limiters |
| Authentication | `go-api/handlers/auth.go`, `go-api/utils/jwt.go` | users; Redis `jwt:blacklist:<jti>` | register, login, refresh | everything with a JWT |
| Auth limiter | `go-api/middleware/ratelimit_auth.go` | Redis `rl:auth:<ip>` | count, refuse | the authentication endpoints |
| Webhook limiter | `go-api/handlers/telemetry.go` 429-484 | three Redis counters per message, in one Lua script | count, refuse | webhook |
| API keys | `go-api/middleware/apikey.go` | `api_keys` rows; Redis copy (1 h) | check, cache | webhook and service calls |
| Pool and tenant context | `go-api/database/database.go`, `go-api/middleware/tenant.go` | connections, one open transaction per request | begin, commit | `GET devices` |
| Migrations | `database/migrate.sh`, `database/migrations/*` | `schema_migrations` | apply, record | every store |
| Retention | `database/timescale/migrations/003_*.sql`, `timescale/maintenance/*.sh` | telemetry chunks, archive files | export, prune | telemetry rows |
| EMQX reconciler | `docker/emqx-bootstrap.sh` | EMQX connectors, rules, authorisation | create or replace | EMQX HTTP API |
| Deployment | `scripts/ops/deploy_core.sh`, `rollback_core.sh` | image tags, containers, `last_images.env` | deploy, roll back | Docker |
| Backups | `database/backup_restore.sh`, `scripts/ops/*backup*`, `scripts/ops/run_restore_drill_weekly.sh` | directories of dumps, the remote copy, two status files, two temporary databases | back up, copy offsite, verify, drill | the databases, systemd timers |
| Telegram bot | `monitoring/telegram_bot/bot.py` | last seen counts and timestamps of users and devices | poll, announce | users and devices tables |
| Edge contract | `edge/include/*.h` | states, transitions | (headers only: `edge/core/*.c` is empty) | firmware |

### What is hard, and what makes each component correct

- **Device lifecycle.** A claim commits in PostgreSQL and then writes Redis; the
  device fetches the secret by GETDEL and the row is marked afterwards; a
  telemetry webhook read the row long before it updates it; resets come in
  between, and the Redis client sends a SET again when no answer comes. Correct
  means: no secret is delivered twice, no secret circulates
  that was not committed for that device, an owner never replaces another one
  without a reset, tenant/owner/hash come and go together, row locks come back.
- **Quotas.** The limit is read, the rows are counted and the row is written in
  three statements. Correct would mean: never above the quota. What the code
  gives: exceeded by less than the number of concurrent requests.
- **Refresh tokens.** Blacklist check and blacklist write are far apart and time
  passes in between. Correct means: an answered token is never usable again.
- **Telemetry.** Commit, cache, touch, with devices changing hands meanwhile.
  Correct means: nothing is acknowledged, cached or shown that is not a row, and
  tenants do not see each other's samples.
- **Limiters.** INCR and EXPIRE are two commands, the client library repeats a
  command whose answer was lost, and the quota changes between its reading and
  the decision. Correct means: a window never admits more than the limit, and
  every block ends.
- **Registration.** The first user is the super_admin; the count, the tenant and
  the user are separate statements, and the answer can fail after the COMMIT.
  Correct means: one first user, nobody with half an account, and a failing
  request never keeps the lock.
- **Webhook access.** The key is written to PostgreSQL and to two objects of EMQX
  by a loop whose steps fail one by one, and is cached in Redis meanwhile.
  Correct means: the configuration converges, replaced keys die, and EMQX is
  let through in the end.
- **Retention.** An archive is written and then rows are pruned, by two statements
  with a clock of their own each, while samples come in. Correct would mean: only
  old rows of the tenant go, and only what is in an archive. What the code gives:
  three ways in which a row can be lost, and no other. Pruning all tenants reads a
  policy in one statement and deletes in the next.
- **Migrations.** A file is executed by one psql, statement by statement, and
  recorded by another; files are not all idempotent. Correct means: a run that
  ends well has executed and recorded everything, and nothing has its effects
  twice.
- **Deployment.** The images to return to are tags that every deployment moves,
  and a deployment can stop between tags, file, build and containers. Correct
  means: a rollback brings back what ran before.
- **Backups.** The newest directory stands for the backup just written, and all
  verifications share two databases; a copy to the remote takes time, and two of one
  directory can overlap. Correct means: an `ok` names a whole backup, and a
  verification judges the backup it was asked about.
- **Telegram bot.** It compares counts, fetches by timestamp in another
  transaction, and the timestamps are those of the BEGIN; a fetch returns 20 rows and a
  message lists 5. Correct would mean: every user is announced.
- **Pool.** A request holding a connection waits for a second one. Correct would
  mean: connections are conserved and everybody is served. What the code gives: that,
  until as many listings as there are connections have got one each.

The complete list of hazards, each at its line and with the properties that
watch it, is in `PROJECT.json`.

## 2. Modules

`X.tla` is a component, `MCX.tla` its instances for TLC (`*.cfg`), `XProofs.tla`
its theorems; `ResourceProofs` holds those of `ConnPool` and `DeviceQuota`,
`OperationsProofs` those of `Releases` (with `Migrations` and `Images`), `Backups` and
`WebhookAccess`, `RegistrationProofs` those of `EntityWatcher` too. Specifications proved
about in one module have names of their own (`PoolSpec`, `BSpec`, `AccessSpec`, `WSpec`).
A step is one statement that reaches a store, with the tests that
precede the next statement; a process is one goroutine serving one request, and
it becomes idle again when the request ends. Definitions called *mutants* (they
carry a comment that says so) are plausible bugs; they are used by no
specification and serve to show that each property notices such a bug.

| Module | Models |
|---|---|
| `DeviceCustody` | abstract: who has custody of a device, under which secret, and that each secret is given out once |
| `DeviceLifecycle` | `ProvisionDevice`, `ClaimDevice`, `GetSecret`, `ResetDevice`, and the device-row share of `Webhook` |
| `DeviceQuota` | `enforceDeviceQuota` between the callers that write rows, and `PatchTenantQuotas` |
| `RefreshRotation` | `Login`, `Refresh`, `ValidateJWT`, `IsTokenBlacklisted`, `BlacklistToken` |
| `TelemetryIngest` | `Webhook` from the device lookup to the response, `cacheLatest`, `GetLatest`, against claims and resets |
| `RateLimits` | `RateLimitAuth.Limit`, `RateLimiter.Allow` with its script, `enforceTelemetryQuota` |
| `Accounts` | abstract: who is registered, in which role and tenant |
| `Registration` | `Register`, and `promote_super_admin.sql` |
| `EntityWatcher` | extends `Registration` by the watcher of the Telegram bot over the users |
| `Retention` | the prune functions of migration 003, the archive script, the retention of the hypertable, policies |
| `WebhookKeys` | abstract: which key is valid, and which are accepted without a look at the table |
| `WebhookAccess` | the loop of `emqx-bootstrap.sh` and `validateAPIKey`, with EMQX's connector, action and rule |
| `ConnPool` | the pgx pool as `SetContext`, `ListDevices` and all other requests use it |
| `Migrations` | `migrate.sh` over the Postgres migrations 002 to 006 |
| `Images` | `deploy_core.sh` and `rollback_core.sh` |
| `Releases` | composes `Migrations` and `Images`: an operator who starts one script after the other |
| `Backups` | `backup_restore.sh`, `run_backup_daily.sh`, `sync_backup_offsite.sh`, `run_restore_drill_weekly.sh` |

### How state and actions correspond to the code

**DeviceLifecycle.** `row[d]` holds the columns the handlers read: status,
tenant_id, owner, secret_hash (represented by the secret it is the bcrypt hash
of), `secret_delivered_at IS NOT NULL`, `claim_code_hash IS NOT NULL`. `cache[d]`
is the Redis key, `lock[d]` the row lock a claim's transaction holds.
`ClaimLock` is BEGIN and SELECT FOR UPDATE, `ClaimUpdate` the tests, the new
secret and the UPDATE, `ClaimCommit` the COMMIT, `ClaimRollback` every early
return and failing statement, `ClaimCache` the SET in Redis, which may fail.
go-redis sends a command again when its answer does not come (`MaxRetries` 3, which
`database.go:32` leaves as it is): `ClaimCacheUnanswered` and `SecretTakeUnanswered`
are commands that Redis executed and that will be sent again, `MaxLost` of them in a run.
`SecretRead`/`SecretTake`/`SecretMark`/`SecretReply` are SELECT, GETDEL, the
UPDATE of `secret_delivered_at` and the response; `SecretFail` their errors.
`HookRead` and `HookTouch` are the first and last statement of the webhook.
`Expire` is the five minutes of the key, `Crash` the end of the API process:
PostgreSQL rolls its transactions back, Redis keeps its keys. An UPDATE waits for
the row lock (`lock[d] = None` in its guard). A row the CHECK constraints refuse
(`RowCheck`) is not written. `generated`, `issued`, `handed`, `lost`, `restored` (secrets
that a SET put back after they were taken), `provisioned` and `wasReset` are history
variables.

**DeviceQuota.** `ReadQuota` is `fetchTenantQuota`, `CountDevices` the COUNT and
the comparison, `WriteDevice` the row of the caller (INSERT of a provisioning,
COMMIT of a claim), `FailRequest` any path that ends without a row.

**RefreshRotation.** Time is a counter of ticks. `exp[t]` is the claim of a
token a client holds, `black[t]` the moment the blacklist key of `t` expires.
`Legacy` tokens have no jti and cannot be blacklisted. `Validate`,
`CheckBlacklist`, `Sign`, `Blacklist`, `Reply` are the stages of `Refresh`,
`Refuse` every other way out, a crash and a Redis error included;
`BlacklistUnanswered` is the SET executed and about to be repeated.

**TelemetryIngest.** A sample carries the tenant of the row it was accepted
under, as `Webhook` does; the cache key and value carry no tenant, as
`cacheLatest` does. `Accept`, `Store`, `CacheLatest`, `Touch` are the stages of
the webhook, `StoreUnconfirmed` a COMMIT whose answer is lost, `CacheLatestUnanswered`
a SET that will be repeated, `Abandon` a failed statement or crash. `FindDevice` and
`GetCached` are `GetLatest`. `newest` and `behind`
are history: the row committed last, and the devices where two webhooks met between
COMMIT and SET or one did not reach its SET.

**RateLimits.** One client: an address that logs in, or a device that sends
telemetry. `val[k]` and `ttl[k]` are the Redis keys. `Attempt`, `SetExpire`, `Decide`
are the three steps of `Limit`; `CountMessage`, `SetExpire`, `Decide` those of the
message quota, after `ReadQuota` has taken the limit from the tenant's row, which
`PatchQuota` changes. `Allow` is the script with its verdict: it counts a message
under three keys and keeps the count when it refuses. `Repeated` and `AllowFails` are
commands that Redis executed and whose answer never came; go-redis sends them
again. A message whose script brings no answer is refused (503, or 429 with
`RATE_LIMIT_FAIL_OPEN=true`). `Tick` is a second, with the keys that end by then; `Crash` stops all requests.
A request counted in a window that has ended (`old`) takes nothing of the next one.

**Registration.** `lock` is `pg_advisory_xact_lock(1001)`. What a transaction has
inserted stays in `reg[r]` until `Commit` or `CommitUnconfirmed` writes it
(`Write`); every statement reads what is committed. `Fail` is every error path
with its deferred Rollback; after the COMMIT (`pc = "reply"`) it stands for
`getPermissions` or `GenerateJWT` failing, where the client sees 500 and the
account exists. `Init` has the users an earlier release may have left in the
default tenant.

**EntityWatcher.** `known` is the remembered `state`: the rows of the last count and
the youngest `created_at`. `Poll` is `get_counters` with the comparison, `Fetch`
`get_new_users` with its LIMIT (`Fetched`), `Message` the text with the oldest `Listed`
rows and a number for the others, `Send` that and the update of the state, `Raise` an
exception in between, `Restart` a new process, which only remembers its first count. Every
action of `Registration` takes its part in the clock: `created_at` is the time of the
BEGIN (`BeginAt`), the row appears at the COMMIT (`CommitAt`).

**WebhookAccess.** `step` is the reconciler's place in `reconcile`, `env` the key it
was started with. `reconcile` is the condition of an `if`, where the shell ignores
`set -e`; so each step has a failing variant that goes on to the next step, and a
round always counts as successful. `Rotate` replaces the container with one that
has another key, `Wipe` is an EMQX that lost its configuration. `Hit`, `Miss`,
`Verify`, `Refuse`, `Store` are the statements of `validateAPIKey`, `StoreUnanswered` its
SET executed and about to be repeated; `ttl[k]` is what is
left of the cached copy; `Client` are holders of a key other than EMQX, who may go
on using an old one.

**Retention.** The hypertable's chunks are time intervals, `place` is the ctid, which is
unique within a chunk only. `Old` is the condition on tenant and timestamp,
`SamePlace` what the DELETE removes for the rows it selected: its join is on ctid
alone. `Start`, `Export`, `Count`/`CountNone`, `PruneTenant` are the steps of the
archive script, `ExportFails` and `Stop` its ends under `set -e`; a script is one run.
A batch size is represented by the choice of some of the old rows.
`prune_telemetry_all_tenants` is one transaction of several statements, each with a
snapshot of its own: `PruneBegin` is the call with the tenants of its loop,
`PrunePolicy` the SELECT of the next tenant's policy, `PruneRows` the DELETE by the days
that were read, `PruneCommit` the end, at which the rows are gone for everybody
(`PruneRollback`: none is). Another DELETE waits for the rows it has deleted (`Free`).
`SetPolicy` comes in between anywhere; `outdated` (history) are the tenants whose policy
changed after the loop had read it. `DropChunk` is TimescaleDB's own retention.

**Migrations.** `Look` is the SELECT of the checksum, `Apply` one statement of the file,
`RecordFile` the INSERT, `StopMigrate` a failing psql or a killed script anywhere.
A file is split into the statements whose repetition can be told apart (003 and 006
have two). The data are the quota of one tenant and the claim code of one device,
the two things a repeated file damages; `UseApi` is an admin and a user at work
between two runs, `EditFile` a file that is changed after it was applied.

**Images.** `TagImages`, `Save`, `Build`, `Up` and `UpDone` are the lines of
`deploy_core.sh`; `Rollback` and `RollbackBot` retag one service after the other, and
`Up` follows. An image is named by the deployment that built it. `StopScript` ends
either script anywhere, but `Save` writes `last_images.env` in one step: a file broken off
in the middle, for which `rollback_core.sh:16,22` test `-n`, is left out.

**Backups.** `stage[d]` says how much of a backup is on disk, `newest` is the directory
`ls -1dt | head -n1` prints. `StartBackup`, `WriteNext` write it, `Latest`, `Sync`, `Record`
are the daily run after that, `StartOffsite` is the timer of the copy. A copy begins with
`Sync` and ends with `SyncDone` or `SyncStop`; `sent[s]` is what it found in the directory,
and what copies of the same directory found that were under way beside it. The remote
then holds what it found, and anything between the stages found if copies overlapped
or the copy broke off; until then `offsite[d]` is what the copy before left. (All scripts
work on `backups/db`: `run_backup_daily.sh:31` names it, whatever `BACKUP_ROOT` says, so
that variable is taken to be unset.) `StartVerify`, `RequireFiles`,
`Restore`, `CheckTables` a verification by hand or by the drill, which ends with
`Report`. `Stop` ends any script anywhere, or lets the drill go on to its report,
because `set -e` does not act in the condition of an `if`. `alone` and `sure` are history:
whether a script that could disturb it ran beside it, and for the daily run whether a
copy began on its unfinished directory.

**ConnPool.** A listing goes `begin -> query -> rows -> commit`: it waits for the
transaction's connection, waits for a second one with the first in hand, holds
two, gives them back one after the other. Any other request waits for and holds
one. `Stuck` is the state in which every connection is held by a listing that waits
for another one.

## 3. What the runs check

Passing runs; in each, every action fires.

| Run | Instance | Shows |
|---|---|---|
| `lifecycle` | 1 device, 2 claims, 2 secret requests, 1 webhook, 2 users of 2 tenants, 2 secrets, 1 lost answer of Redis | one delivery per secret unless a repeated SET put it back; only committed secrets circulate; consistent rows; no stale secret on a device that was never reset; no change of hands without a reset; a device of the factory can be claimed after every reset, a provisioned one never; refinement of `DeviceCustody`; locks are released and secret requests end |
| `quota_bound` | 2 tenants, 3 requests, quotas 0..2 changed at any time | the overshoot is below the number of concurrent requests |
| `refresh_safety` | 2 refreshes, 2 tokens and a legacy one, life 2, time 0..4 | an answered token stays dead: its key never runs out before it; reuse is bounded |
| `ingest_safety` | 1 device, 2 tenants, 2 webhooks, 1 reader | acknowledged, cached and shown samples are rows; tenants are apart until the device moves; the cache holds the newest row until two webhooks overlap or a SET fails |
| `limits` | 2 requests, 1 slot, limits 1 and 2, quotas 0..2, a minute of 2 seconds | a window admits at most the limit its requests were held to; a counter without an expiration has lost its EXPIRE; otherwise every window ends |
| `registration` | 2 addresses, 2 requests, the default tenant and 2 new ones, time 0..2, the watcher with fetches of 2 rows and messages that list 1 | what a transaction has read still holds when it writes; accounts are complete; refinement of `Accounts`; every registration ends; the bot passes over a user only when a message was full or a younger transaction overtook it |
| `webhook_access` | 2 keys (one rotation), 1 call of EMQX, 1 other caller, entries of 2 ticks, 1 loss of configuration | only issued keys are cached; refinement of `WebhookKeys`; the configuration converges; old keys die although used; EMQX's calls are accepted in the end |
| `retention_safety` | 2 samples, 2 tenants, 2 places, 2 archive runs or 1 beside a prune of all tenants, chunks of one tick, 1 day for the script, policies of 2 | a run loses only late, just aged or dragged-along samples; archives stay unless two runs begin in the same second; a prune of all tenants keeps the policies unless one changed after it was read |
| `pool_serves` | 3 listings, 2 others, 3 connections | no connection lost; only listings that hold all connections use up the pool; until they do, everybody is answered |
| `releases` | at most 4 runs of the three scripts, 3 of them deployments, 5 migration files, 1 edit | a run that ends well has recorded and executed every file, `--baseline` apart; a file has its effects twice only after a stop before its record; a rollback restores what ran, unless a script stopped in the middle |
| `backups` | 2 directories, 5 scripts, 2 at a time | the status names a backup that is and stays whole, here and at the remote, unless another one was taken beside it or the timer began to copy it half finished; a verification looks at its own backup unless another one ran beside it |

One run finds a violation; `PROJECT.json` quotes the sentence under `findings`.

| Run | The sentence | What happens |
|---|---|---|
| `retention_one_tenant` | pruning is for one tenant | a row of another tenant in another chunk has the ctid of a doomed row and is deleted with it |

What the models show beside that, each with the property that draws the line:

- *Device secret.* `docs/openapi.yaml:603` promises "one-time", but a SET whose answer is
  lost is sent again: if that is after the device took the secret, it is in Redis once
  more, and a second request that has passed the test of `secret_delivered_at`, or
  comes after a reset and claim, is sent it again. `OneTimeDelivery`: nothing else does
  that. `ResetDevice` leaves `claim:<id>:secret`; a device claimed again
  within five minutes, before or without the new SET, is answered with the old
  secret, which its row's hash rejects, and is marked delivered
  (`docs/openapi.yaml:605`). `StaleOnlyAfterReset`: it takes a reset. A device that was
  provisioned directly has no claim code, so after a reset it can never be claimed
  again (`devices.go` 101-111, 213, 441-464), although `devices.go:400` tells it to do
  that. `ClaimableAgain`: only provisioned devices are lost so, and they are lost for good.
- *Quotas.* `docs/BILLING_QUOTAS.md:25-26` promises 429 above the device quota, but
  concurrent requests count before any of them writes. `OvershootBound`: by how much.
- *Refresh tokens.* `docs/openapi.yaml:381` promises one-time use, but concurrent
  refreshes pass the blacklist check together. `BoundedReuse`: how often.
- *Latest values.* The cached value survives reset and claim, so the next tenant is
  shown the last one's sample (`README.md:60` promises isolation). `ApartUntilMoved`: only
  then. Two webhooks of one slot can write the cache in the other order than the
  table. `CacheIsNewest`: only while they overlap.
- *Limiters.* A stop or error between INCR and EXPIRE, and an INCR whose lost answer
  go-redis repeats, leave a key without expiration, and the address is refused for
  ever (`main.go:52`: "10 attempts per minute"); the message quota has the same two
  commands. `KeyTimed` and `WindowEnds`: nothing else does, and the script of the
  webhook never. `WindowBound` speaks of what a counter let through: attempts that pass
  because INCR fails are in no window. An error of the script comes with
  `allowed = false`, so `RATE_LIMIT_FAIL_OPEN=true`, which is the default
  (`.env.example:33`, `docker-compose.yml:112`, `docs/openapi.yaml:749`), has no effect: the
  message is refused with 429.
- *Pool.* As many device listings as there are connections each hold one and wait
  for another for ever, and so does everybody else (`Stuck`, which the run reaches), although
  `docs/openapi.yaml:426` promises the list without condition. `NeverAllWaiting` and
  `AllAnswered`: nothing but that uses up the pool, and until then everybody is answered.
- *Registration and bot.* A user whose transaction waited for the lock while a younger
  one committed is never announced, and of the users of one round beyond the fifth a
  message has no more than their number, even beyond the 20 that are fetched.
  `CountedWereTold`: nobody else is passed over. What Telegram answers is not looked at
  (`send_message`), so a message that was sent counts as told.
- *Retention.* `prune_telemetry_all_tenants` never reads `archive_before_delete`, and the
  archive script takes its days from the caller, whatever the tenant's policy says.
  A policy prolonged while all tenants are pruned comes too late for a tenant the loop has
  read. `PolicyKept`: apart from these, chunks and ctids nothing breaks a policy.
- *Reconciler.* The branch "reconcile failed, retrying in 5s" (`emqx-bootstrap.sh:270`)
  is never taken, and "reconcile ok" is logged after a failed step as well. `Converges`:
  the loop gets there all the same, only later.
- *Migrations.* After a stop between a file and its record, 002 fails in every later
  run, 003 gives a provisioned device its label for a claim code, 006 takes a quota
  of 1000 an admin chose for the old default. `--baseline` after such a stop records
  what was never executed. `RepeatsOnlyAfterStop`, `OkMeansApplied`. The UPDATE of 004
  (existing users become verified) matches no row, for the column it looks at was
  just added with a default.
- *Deployment.* A second deployment after a bad one records the bad images over the
  good ones; after a stopped one it records images that never ran.
  `RollbackRestores`: the second case is the only one in which a rollback does not
  bring back what ran when the last deployment began.
- *Backups.* A backup by hand beside the daily one may be taken for it, incomplete; and
  a copy that the timer began on the daily run's unfinished directory may end after
  the daily run's own copy, and leave the remote with less under `status=ok`.
  `StatusTrue`: nothing else makes the status untrue; `VerifiesItsOwn`. After a failed
  run the file still says `ok` of an earlier backup (`docs/DATA_RESILIENCE.md:16`), and the
  drill reports `ok` whatever the verification found, because `set -e` does not act in
  the condition of an `if`.

A run that checks such a sentence as it stands would fail as `retention_one_tenant` does.
The properties above state instead exactly when the sentence does not hold, which the
theorems then show for every instance: `docs/openapi.yaml:603` (`OneTimeDelivery`),
`devices.go:400` (`ClaimableAgain`), `docs/BILLING_QUOTAS.md:25` (`OvershootBound`),
`docs/openapi.yaml:381` (`BoundedReuse`), `docs/openapi.yaml:426` (`AllAnswered`).

### Bounds, and why they are enough

- Two requests of a kind give every pairwise race, the form all races found
  here have. The quota has three, so that a third request meets the effects of a
  finished race. `ingest_safety` has one reader, as readers change no state that
  another request reads, and one payload: rows of the two tenants differ all the
  same, and the theorems hold for any payloads.
- One device: handlers touch one row and one Redis key; devices meet only in
  secrets and in the users, and the theorems hold for any number.
- Two secrets: one claim, a reset and a second claim, with the first secret
  still around: the shortest history with a stale secret. The number of claims
  is bounded by the number of secrets. One lost answer is what it takes to put a secret
  back, and the second delivery is reached. A user of each tenant, one of them an admin,
  make resets by an admin and by an owner, and claims by the other tenant.
- Time 0..4 with token life 2: a token can be issued, expire and be followed by
  a second one, and a check can fall before, at and after the expiry.
- Registration: two requests that begin again and again give every race of two
  transactions for one address or for two; with two new tenants every account can
  get one. A clock of three values orders two transactions and a count before them;
  at its bound it stands still, which is transactions of one time. Two new
  users overfill a message that lists one; the fetch is met exactly by its LIMIT of
  two. The theorems hold for any limits and any number of
  requests.
- Retention: `MaxBegun` 2 lets two archive runs meet, or one and a prune of all tenants
  (which may be called again once it has ended). Two samples suffice for one to drag the other along, two places for
  one that must not; three ticks are an export, a prune and a sample that becomes
  old in between.
- Webhook access: one rotation is one old and one new key; an entry of two ticks
  distinguishes an entry that ages from one that is renewed.
- Limiters: limits of 1 and 2 with two requests that begin again and again have full
  windows, refusals and requests of an ended window; a counter is not told apart
  beyond one above its limit. A minute of two seconds has a second that ends inside
  it. `MaxDevices` 6 is above every quota plus the overshoot.
- Releases: four scripts are a stop, a repetition, an edit or use of the API between
  them, and a run after that; three deployments are a good one, one that goes wrong
  and one on top. Scripts do not run at the same time: one operator starts them.
- Backups: two directories are the daily one and one beside it; a name is used once.
  Disturbances are pairwise, so two scripts at a time show all of them.
- Pool: three listings on three connections get stuck, and two other requests meet
  every state on the way.
- `CHECK_DEADLOCK FALSE` is set where a bound on time or on scripts stops the model
  (`refresh_safety`, `releases`), and in `pool_serves`, where the code itself stops: once
  the pool is stuck and everybody waits, no step is left.

### Fairness

Handlers: `net/http` runs each accepted request and each statement returns or
fails, so every step of a started request is weakly fair (as a disjunction where
the outcome is open). Steps that wait for a PostgreSQL row lock or a pool
connection are strongly fair, because both keep their waiters in a queue; so is
the advisory lock of `Registration`. In `WebhookAccess` the reconciler's loop goes on
(weak), and each of its steps, being repeated for ever, succeeds some time
(strong): EMQX and PostgreSQL are up again and again, with a tenant in the table.
In `RateLimits` a counted request goes on to its EXPIRE and its decision, and time
passes (weak fairness of `SetExpire`, `Decide`, `Tick`), with which Redis removes expired
keys. Nothing is assumed of clients, failures, repeated commands, crashes, the bot,
expiry of the secret's key, and of the SET and the webhook in `DeviceLifecycle`, on which
no liveness property depends.

## 4. What is proved

All theorems hold for every value of the constants that meets the named
assumptions in the modules (finite sets of requests, `None` outside the other
sets, `TenantOf` a function from users to tenants, a message that lists no more rows than a
fetch returns, and the like).

- **`DeviceLifecycleProofs`.** `IInv` is inductive: types; the row lock of a claim
  and what it read of the row (`LockInv`); every secret that no SET put back is in at
  most one place, that is with its claim or in Redis, then with one secret request,
  then in one response (`PlaceInv`, without which nothing can be said of deliveries); a
  secret is issued by the COMMIT, to its device (`IssueInv`); a row lacks the claim code
  exactly if `ProvisionDevice` wrote it, and no claim gets past its tests on such a row
  (`CodeInv`); what circulates of a device never reset is what its row accepts
  (`StaleInv`). From it: `TypeCorrect`, `OneTime`, `Committed`, `Consistent`,
  `NoStaleWithoutReset`, the action property `NoDirectTransfer`, `ClaimableOrNever`, and
  `CustodyRefinement`: every step is a step of `DeviceCustody` or leaves its variables
  alone; a SET that puts a taken secret back is the abstract `Slip`. The refinement needs
  the invariant for `Assign` (the device is free because the claim holds its lock) and
  for `Give` (the secret was not handed out yet, or slipped back).
- **`ResourceProofs`.** `OvershootBound` from `ReservedBound`: rows plus requests past
  the count stay below the highest quota plus the number of requests. `Conserved`,
  and from it `NeverAllWaiting` by counting: the connections nobody else has are all with
  listings that wait. `FewListings`: fewer listings than connections never get the pool
  stuck. `StuckForGood`: once it is stuck no step changes that.
- **`TelemetryIngestProofs`.** `NothingInvented` and `ApartUntilMoved`, with the
  claim that requests in flight carry what the row held (`InFlight`); `CacheIsNewest`,
  with the claim that unless the cache is behind at most one webhook is between its
  COMMIT and its SET, and carries the newest row (`CacheInv`).
- **`RateLimitsProofs`.** `KeyTimed` is inductive with the types. `WindowBound` from
  `BoundInv`: the answers of INCR that requests of the present window hold differ, so
  that those decided or to be decided within the limit are no more than it
  (`AnswersDiffer`, `StepwiseInv`), and the script never lets through more than its
  counter says (`ScriptedInv`). It needs no bound on requests, slots or limits.
  `Unprolonged` is the safety half of `WindowEnds`: only an EXPIRE of a request that found
  the key new gives it more time (`NotProlonged`), with the claim that only a key that
  is there has a time to live (`OfKeys`).
- **`RetentionProofs`.** `IInv` is inductive: types, with at most one row per place of a
  chunk; a run's file is named after its beginning and it has removed nothing before
  it ends (`RunInv`); an export is complete for the rows that were there and old
  (`ExportInv`); what a run exported or removed is in its file or a twin of that
  second replaced it (`FileInv`). From it `ArchiveKept`, and, with the lemma that a
  removed row was chosen or had the place of a chosen one in another chunk
  (`DraggedAlong`), `ScriptLosses`. `PolicyKept` needs `PruneInv` as well, of the transaction
  of prune-all while it is under way: the days a DELETE is about to use are the
  tenant's policy, or that changed after it was read; and every row deleted so far is one
  whose tenant has no policy, or a changed one, or keeps it no longer, or one that had
  the place of another deleted row. Policies and the clock may move on until the COMMIT.
- **`RefreshRotationProofs`.** `AnsweredStaysDead` from `KeyCovers`: a blacklist key
  lives at least as long as its token, and a request that is about to answer has
  set it or the token has expired. `BoundedReuse` from `ReuseInv`, by counting the
  requests that use a token and those of them past the check.
- **`RegistrationProofs`.** `IInv` is inductive: types, `ReadsHold` (a request in its
  transaction has the lock, so what it read stays true) and `AccountsComplete`.
  From it `Implements`, the refinement of `Accounts`: a COMMIT is the registration
  of the first user or of a next one with a fresh tenant, for which `ReadsHold` is
  needed; everything else but the promotion leaves the accounts alone.
  The watcher only reads, so registration with the bot beside it is registration
  (`WatcherReadsOnly`, fairness included) and `IInv` holds with it too. `NoUserMissed`
  needs `WatchIInv`: a count that is remembered, by the process or by a round under way,
  is of users who are there, and those it did not find are younger than all it found,
  so that the next fetch finds them, or were overtaken (`CountStands`); and whom a fetch
  has left out while the message is still to go was beyond its LIMIT, so that the
  message is full and its number counts him. For `Poll` to
  keep that, the count and the youngest `created_at` must come from one moment.
  `InTime` (a transaction begins after the initial users) is what makes a new row
  younger than those.
- **`OperationsProofs`, releases.** `IInv` of `Releases` joins the invariants of the two
  components, which share no variable: a step of one leaves the other's alone.
  `MIInv`: before the file a run is at every file is recorded with its text, a record
  stands for a file executed or assumed (`RecordsTrue`), and a file executed without
  a record was cut, unless this run is just about to record it (`AppliedRecorded`,
  without which `RepeatsOnlyAfterStop` is not inductive: nothing else links the
  effects of a file to its record). `IIInv`: unless a script stopped half-way, `:latest`
  is what runs, and the tags of the saved deployment are what ran when it began
  (`TagsTrue`); a rollback has retagged the services it has passed (`Rolling`). From
  them `OkApplied`, `NoRepeat`, `Restores`, for any number of runs, deployments and edits.
- **`OperationsProofs`, backups.** `BIInv`: every script works on a directory that is its
  own while it writes (`AtWork`); a script that is alone has nobody beside it that
  disturbs it (`Undisturbed`, which is what makes `alone` usable at all); the daily
  run's directory is the newest as long as it is alone, then whole, then copied
  whole, and nothing less is on its way to the remote (`DailyOwn`, `WholeComes`), which stays
  so after its status was written (`StatusStays`, without which a copy that ends late
  could spoil it); a verification that is alone finds in each temporary database
  what it loaded (`Loaded`). From it `StatusStands` and `Verifies`, for any number of
  directories and any number of scripts at once.
- **`OperationsProofs`, webhook access.** `AccessIInv`: types, `OnlyIssued`, and the row is
  among the keys it ever held. A call between its verification and its SET has a key
  that was in the row, and keys never leave `issued`; so `AcceptsIssued` needs no
  bound on rotations, wipes, calls or the life of an entry. `AccessTypes` holds the
  claim that a row once written keeps a key. `Settled` and `Fading` are what the liveness
  properties rest on and safety can say: failing steps do not undo a configuration
  (`StaysConfigured`), and the entry of a replaced key ages but for the SETs of calls
  that had verified it before (`OldKeysFade`). `KeysRefinement`: the code implements
  `WebhookKeys`, where a key is honoured while it is in Redis or while a call that
  verified it may still put it there. Verification is the abstract `Admit`, for it
  compares with the row of that very moment; a SET, an expiry or a crash at most
  lets a key lapse; no step of a round empties the row.

One assumption on a constant is more than a type: `MaxTime > 0` (`WatchAssumption`),
because a transaction begins later than those of the users already there.

Only model-checked, of all properties of the runs: the liveness properties `RequestsEnd`,
`WindowEnds`, `AllAnswered`, `RegisterEnds`, `Converges`, `OldKeysDie`, `EventuallyServed`, because
fairness and ENABLED are beyond the prover; of three of them the safety half is proved
(`StaysConfigured`, `OldKeysFade`, `NotProlonged`, which TLC finds true in the same instances).
`PrunesOneTenant` is violated, and so neither. The inductive invariants that the
component modules state (`IInv`, `WatchIInv`,
`BIInv`, `AccessIInv`, `ReservedBound`, `CacheInv`) hold in the instances of the runs as well;
they are proved, and not listed there.

## 5. What is not modelled, and the plan

Left out for good: HTTP, JSON, logging, metrics and CORS; the cryptography
(bcrypt, HMAC, JWT signatures: a signature is valid or the request has no
action); validation of single fields and the parsers, which have unit tests;
`Bootstrap`, `ListDevices` and `GetActiveSlots` beyond what they hold or read, as they
change nothing; the notifications of operators (a goroutine whose outcome nothing
reads; its message and its audit entry share five seconds); the commands of the
Telegram bot, which read and send; the Timescale migrations, which are
idempotent; the edge contract, whose transition table nothing in the repository
executes; the monitoring configuration; loss of Redis data in a Redis restart
(persistence is a setting of the deployment); deleted users and tenants (no
handler does it); two runs of `migrate.sh` or of the deployment scripts at once.

Left out for now: the storage quota, a SUM read before the INSERT, which is
overshot as the device quota is; the usage snapshot, three counts and one upsert
of a month.

Planned, in this order:

1. Abstract specifications of the other components, with their refinement proved:
   what a refresh token, a cached sample, a limiter's window and a backup's status
   promise to a caller who sees no step in between.
2. The safety halves of the other liveness properties: what a waiting request waits for.
3. The storage quota and the usage snapshot.
