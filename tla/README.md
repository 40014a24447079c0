# Verification of basic-infra

TLA+ models of the platform services in this repository: the LLM gateway with
its tenancy, the outbox dispatcher, the blob stores, the control planes of
Postgres and Redis, and the SDKs that client projects use them with. TLC checks the models on small instances; TLAPS proves what
matters most for every instance. `PROJECT.json` maps each definition to the
lines it models and lists the runs, the hazards and the theorems.

## 1. The system

| component | state | operations | what makes it correct |
|---|---|---|---|
| Outbox dispatcher (`outbox/`) | the outbox table, a LISTEN session, a doorbell event | scan, deliver, mark, listen, wait, stop | at-least-once delivery, no lost wakeup, progress |
| Tenant store and CLI (`llm/gateway/app/tenancy/store.py`, `cli.py`) | SQLite tables `tenants`, `api_key_grace` | create, rotate, delete, authenticate | a good key is accepted, a deleted tenant is not, concurrent CLIs do no harm |
| Authenticator (`auth.py`) | TTL cache of verified keys | authenticate, invalidate | bounded staleness |
| Rate limiter (`ratelimit.py`) | window counters in Redis | enforce | no window beyond its limit, no 429 without a reason |
| Routes, router, registry (`api/`, `routing/`) | the registry built at start | six `/v1` routes | only entitled requests reach a backend |
| Adapters and health checker (`backends/`, `health.py`, `main.py`) | health, failure streaks, HTTP clients | probe, reconnect, deferred close, shutdown | verdicts converge, clients are neither lost nor closed under a young request |
| Filesystem blob store (`storage/adapters/filesystem.py`) | blob, `.tmp` and `.meta.json` files | put, get, head, delete | whole contents, metadata that fit, tenants apart |
| S3 blob store (`_s3_compatible.py`) | one lazily made client, its exit stack | the same, and aclose | one client, closed in the end; conditional puts overwrite nothing |
| Storage port and client SDK (`storage/ports`, `sdk/basic_infra_storage_client`) | the chosen adapter; an event loop per synchronous call | the same, asynchronous or synchronous | both adapters keep the port's contract, also across event loops |
| LLM client SDK (`client-sdks/python`) | a provider, SQLite embedding cache | chat, embeddings, rerank | every text gets the vector of its own provider |
| Postgres client SDK (`sdk/basic_infra_postgres_client`) | engines cached by URL, their pools | session scopes, health check | a session ends as its block did, connections come back, nobody waits for ever |
| Observability client SDK (`sdk/basic_infra_observability_client`) | context variables, root handlers, metrics server, tracer provider | scopes, setup of logging, metrics and tracing | records name the job they belong to, setup is idempotent |
| Postgres control plane (`postgres/`) | database, extension, role, grants | provision, grant, deprovision | re-running converges, the role reaches what it should |
| Redis control plane (`redis_shared/`) | ACL user, ACL file, the tenant's keys | provision, deprovision, purge | durable commands, nothing left by a purge |

How they interact. A gateway request is authenticated (cache, then store),
counted (Redis), routed (registry, permission, capability, health) and sent to
an adapter; the health checker's verdicts decide what the router refuses and,
on a recovery, swap the adapter's client. The tenants CLI changes the store
underneath a running gateway through the same SQLite file. The SDK calls the
gateway or a cloud provider and shares a cache file with other processes. A
client project sets observability up once per worker, opens scopes and database
sessions inside one another, and reaches its blobs through the storage client,
which owns one of the two adapters. The dispatcher reads
what producers commit in a tenant's database, which the Postgres control plane
provisioned.

What is hard here: awaits between a test and its use (limiter, S3 client, file
operations, doorbell); several processes on one SQLite file, one Postgres or
one Redis; commands made of several statements that may be cut anywhere;
background tasks that close things others use; blocks left by exceptions and
cancellation; caches that outlive the event loop or the password they were made
with. `PROJECT.json` lists the hazards
with their lines.

## 2. Modules

| module | models | composed of |
|---|---|---|
| `OutboxDelivery` | what an outbox promises (abstract) | |
| `Outbox` | dispatcher, producers, session | refines `OutboxDelivery` |
| `OutboxProofs` | its theorems | |
| `TenantStore` | tenant store and CLI processes | |
| `Authenticator` | authenticator over the store | extends `TenantStore` |
| `AuthenticatorProofs` | its theorems | |
| `RateLimiter`, `RateLimiterProofs` | rate limiter and Redis counters, theorems | |
| `HealthChecker` | probe loop, health state, lifespan | |
| `BackendClient` | an adapter's clients and requests | |
| `Backends`, `BackendsProofs` | checker and adapters together, theorems | instances of both |
| `Gateway` | a request's way through the gateway | |
| `LlmClient` | SDK in front of the gateway | extends `Gateway` |
| `Rerank` | how rerank scores are clamped, sorted and cut | |
| `SdkProofs` | theorems about the gateway's requests, the LLM SDK, reranking, and a client project | extends `LlmClient`, `Rerank` and `ClientApp` |
| `BlobStore` | what the storage port promises at one key (abstract) | |
| `FilesystemStore` | filesystem adapter at one key | |
| `S3Client` | S3 adapter, client life cycle, one key | |
| `StorageClient`, `StorageClientProofs` | the storage client over either adapter, theorems | instances of both; refines `BlobStore` |
| `StorageKeys` | object keys and paths (theorems in `StorageClientProofs`) | |
| `PgProvision`, `PgProvisionProofs` | Postgres provisioning of one tenant, theorems | |
| `RedisProvision`, `RedisProvisionProofs` | Redis provisioning of several tenants, theorems | |
| `TenantNames` | database names, Redis namespaces and keys (theorems in `PgProvisionProofs`) | |
| `PgClient` | engines, sessions, pools | |
| `Observability` | scopes, records, setup | |
| `ClientApp` | a client project's workers and jobs | extends `PgClient`, instance of `Observability` |
| `MC*` | instances for TLC | |

### How code becomes steps

A step reaches from one await (or statement, or SQLite transaction) to the
next; what lies between cannot be interrupted on one event loop, or is one
transaction. Where processes share files or servers, each statement is a step;
the SDK's embedding cache is the exception (below).

* **Outbox.** `pc` is the await `run` is suspended at: `fetch`, `deliver` and
  `mark` in `deliver_backlog`, `listen` for `add_listener`, `wait` for the
  doorbell. `Notified` is the listener's callback. A producer's row goes from
  `absent` over `open` to `unprocessed` or `aborted`; ids are given in order,
  commits come in any order. `SinkFails`, `StatementFails` and `Crash` leave
  through `Exit`. A session that is not listening gets no NOTIFY.
  `delivered`, `sent`, `snapshot` and `rung` are history, read by no guard.
* **TenantStore, Authenticator.** `create` is two steps, the SELECT and the write
  transaction, and `rotate_key` three: `RotateRead` (the SELECT), `RotateClock`
  (the expiry, `now + grace`, before Argon2 and the wait for the write lock) and
  `RotateCommit`; the `RLock` reaches no other process, so commands of two CLIs
  come between each other's steps. `began` and `known` are history: the time and
  the generated keys when a command began. `authenticate` reads the clock, the cache, the active keys, the clock
  again and the grace keys, one step each. A key stands for its hash. A cache
  entry is stamped with the first clock reading. The gateway's monotonic clock
  and the store's wall clock are one clock here.
* **RateLimiter.** `Begin`, `Incr` and `Expire` are what lies between the awaits
  of `enforce`; `RedisFails` and `Abandon` apply the command at the server or
  not. `Tick` expires keys.
* **HealthChecker, BackendClient, Backends.** `Wake` and `ProbeDone` are the loop
  with `record_health`; `Shutdown`, `Unwind` and `CloseAdapter` are the end of
  the lifespan. `Backends` joins a recovery's `ProbeDone` with `Reconnect`, and
  `CloseAdapter` with the client's end, as `check_once` and `registry.aclose`
  call them. A request remembers the client it was sent on.
* **Gateway, LlmClient.** One action per outcome of the dependency, one per
  route, `Enforce` for the limiter's answer together with the router and the
  adapter up to its HTTP request (nothing is awaited in between), and one per
  kind of answer. Exceptions are kept as the status they are mapped to. A
  process of the SDK is named by the request it may make, and has the provider
  its environment built. `Embed` resolves the cache hits up to the provider's
  request; `Receive` stores the items and puts the answer together. Each is one
  step although it makes one SQLite statement per text. Rows are never deleted and
  each is written with the vector of its key, so rows another process writes
  between the statements only turn misses into hits; that a repeated text is a miss
  first and a hit afterwards is the one case this leaves out. A request
  of a cloud provider does not pass the gateway; its answer is `FromCloud`.
* **FilesystemStore.** Files are inodes, so a handle keeps writing to what it
  opened after a rename. A put goes through `mkdir`, `open`, its chunks, the
  rename, and the opening (truncation) and writing of the metadata file. A get
  loads metadata, then opens the blob when its stream is first read.
* **S3Client.** A client is named after the operation that creates it.
  `AsyncExitStack.aclose` pops one exit at a time, so a client pushed meanwhile
  is closed as well; if an exit raised, the cache is not cleared. A request may
  be carried out and its answer lost; the library then sends it again
  (`Resent`), or the operation raises. `ReadBody` is the stream of a get. All
  exceptions but `BlobAlreadyExists` and `BlobNotFound` are one outcome,
  `raised`; `dead` is one whose client was closed or belongs to a loop that is
  over.
* **BlobStore, StorageClient.** A call of the port takes effect in one step
  between its beginning and its return. The refinement maps the inode at the key
  to the put that wrote it, the filesystem's `rename` and `unlink` and S3's
  carrying out of a request to the effect, and every call that raised to one that
  is still pending. `StorageClient` chooses the adapter from the settings and, for
  the synchronous client, lets one call at a time run in a loop that ends with it
  (`RunBegins`, `RunStep`, `RunEnds`); a client that is still open is then
  `orphaned`. `ValidSettingsBuild`, an assumption TLC evaluates, states that the
  validator leaves no assertion of `_build_backend` to fail.
* **PgClient, Observability, ClientApp.** A worker is a task or a thread. Tasks
  give way at an await only, so looking an engine up and making it are one step;
  for threads they are two. A worker's job is a stack of blocks; `leaving` says
  how control leaves the innermost one, and each block's exit is what the SDK does
  then: `Exit` (reset with the token), `Commit`, `Rollback`, `Close`. `Catch` is
  the job's own `except` between two blocks. Request ids and spans are values of
  their own, and nested blocks of one worker may have different ones; what
  `set_request_id` sets becomes the id of the innermost request block.
  `StatementFails` is a statement that fails and whose exception the block's code
  catches: PostgreSQL's transaction is then aborted, and a COMMIT is answered with
  ROLLBACK and no error (`Outcomes`). The workers first go through the
  three setup calls, in all interleavings; jobs start after a setup in which no
  two calls overlapped and the metrics port was free (`SetUp`), since the state of
  the setup makes no difference to sessions and names.
* **PgProvision.** One step per statement; `AssertRole` is one, for it is a
  transaction. Default privileges act on an object when it is created.
* **RedisProvision.** One step per command. Namespaces and keys are sequences of
  characters, and the pattern of SCAN is a prefix. `Scan` may return any page; the cursor
  ends only when every key present throughout has been returned.

## 3. Runs

Distinct states are TLC's, after symmetry.

| run | instance | states | shows |
|---|---|---|---|
| `outbox` | 4 rows, one refused | 79 k | safety, refinement, progress of the dispatcher |
| `auth` | 1 tenant, 3 keys, 2 CLIs, grace 1, TTL 2 | 978 k | acceptance, staleness, create races |
| `ratelimit` | 3 requests, 2 tenants, 2 windows | 1.5 M | limits under failure |
| `backends` | 2 adapters, 1 request, 3 clients | 199 k | health, client swap, shutdown |
| `storage` | filesystem: 2 puts, a delete, a head, a get; S3: 3 operations, 2 closes | 830 k | the port's contract, contents across crashes, client life cycle |
| `postgres` | 2 administrators, 2 schemas, 2 objects | 4.8 M | convergence and coverage |
| `redis` | 2 administrators, 2 secrets, 2 tenants with 2 keys each | 548 k | durability and purge |
| `gateway` | 2 processes, 3 providers, 4 configurations | 548 k | entitlement, listing, vectors |
| `app` | 2 workers, 5 programs, 2 settings | 313 k | names, sessions, engines, setup, progress of jobs |
| `auth_deleted` | | | violated, see below |
| `filesystem_shared_tmp` | | | violated, see below |
| `postgres_alembic` | | | violated, see below |

### Properties, run by run

* **outbox.** `AtLeastOnce` (refinement of `OutboxDelivery`: nothing is marked
  that was not delivered, nothing marked is delivered again), `NoLostWakeup`,
  `StopFinishesBatch`, `NoRepeatInOneLife`, `InIdOrder`, and under fairness
  `EveryRowProcessed` and `StopEnds`.
* **auth.** `NoSpuriousReject`: it is the order of the two SELECTs that makes it
  hold. `StaleForLessThanTTL`: an entry is stamped before the lookup and expires
  at exactly TTL. `CreateNeverReplaces`. `OldKeysKeepTheirGrace`: a key that was
  there when the rotation that replaces it began gets a grace period counted from
  then or later. What overlapping rotations can still do is said as narrowly: only
  a key issued after a rotation began can be dropped by it without a row, and a row
  is shortened only by a rotation that read the same key and comes second, to no
  less than its own beginning allows.
* **ratelimit.** `WindowWithinLimit` (for requests whose INCR arrives in its own
  window), `LimitedOnlyOverLimit`, `NoTTLOnlyAfterFailure`.
* **backends.** `UnhealthyIffStreak`, `HealthConverges`, `NoProbeOnClosedClient`,
  `ShutdownEnds`, `ClientsAccounted`, `CutOnlyPastReadCap`.
* **storage.** `ImplementsBlobStore` is the refinement: effects are atomic,
  `if_none_match` overwrites nothing, a get returns the content of one put that
  was there during the call, and a call that returned had its effect. On the
  filesystem this holds for one writer at a time. `SettledConsistent` (blob and
  metadata fit once a writer has returned), `NoClientLeaks`, `NoStaleClient`, and
  `LoopOutlivesCall` (a synchronous call that made its client is served by it to
  the last byte).
* **postgres.** `ProvisionConverges`, `RuntimeCoverage`.
* **redis.** `CommandsSettle`, `AclFileCurrent`, `PurgeLeavesNothing`,
  `PurgeSparesOthers`.
* **app.** `RecordsNameTheJob` (records and samples carry the names of the
  innermost blocks, or of the code that created the task; an id set by
  `set_request_id` counts until its request block ends, and not beyond),
  `SessionsSettle` (a block that is left without an exception is committed, unless
  it caught a failed statement, after which nothing of it is; one left by an
  exception has no transaction open), `EnginesAccounted` (an engine has the password of the
  settings, connections out are those of open sessions, no URL gets a second
  engine once it had one), `SetupsSettle`, and under fairness `JobsEnd`.
* **gateway.** `ForwardedIsEntitled`, `ListedNotRefused`, `EachTextItsVector`.

Pure algorithms are evaluated by TLC over bounded inputs, as assumptions of the
`MC` modules, and most of them are proved for all inputs as well (section 4): `RetryReachesNextWindow` (retry-after over ten windows), the
reranking of up to three documents against its specification (`BestOnTop`,
`BackendOrderKept`), database names, namespaces and key spaces of names of up to
four characters, object keys and paths of up to two segments, and the listings of
both adapters (`ListsWhatWasPut`, `ListsFilesPut`, with the two exceptions
`ListsBelow` and `DotListsAll`).

### Bounds

* Four rows let a batch hold a row before, at and after the refused one, and let
  one be committed late with a smaller id.
* Two CLI processes are the least that race; three keys let a tenant be created
  and rotated twice, by rotations that overlap. One tenant: commands on different
  tenants touch no row in common, and the theorems are about any number.
  `CacheMax` 1 makes eviction happen;
  a grace of 1 within two ticks makes a rotated key expire.
* Windows of two seconds and a clock up to 3 give two windows and a TTL that ends
  in the second; limits of 1 and 2 are reached by three requests.
* Two adapters: probed before and after the other, and the second is the watched
  one. A request may run for 2 with a read cap of 1, so that a close can overtake
  it; three clients let a recovery fall into another's grace. `FailureCap` equals
  the threshold: beyond it the streak only grows.
* Two chunks make a partial content. `MaxActive` 1 in the storage run keeps the
  filesystem's writers apart, which is the condition under which the store's
  comment is true; `filesystem_shared_tmp` drops it. One of the two puts is
  exclusive, and either may come first, after the delete or before it. A
  storage client has one backend, so each behaviour uses one adapter.
* Three S3 operations are one that creates the client, one that waits for the lock,
  and one that comes after a close. Two closes can overlap.
* Postgres: two schemas for the loop, a sequence in the second, `alembic_version`
  in `public`. One secret: passwords are overwritten, never compared.
* Redis: the namespaces `a` and `a_a`, of which one begins with the other; two keys
  each make pages of different sizes. Two administrators, each with any number of
  commands, can save between each other's steps.
* Gateway: a valid registry with two kinds of backend, one with a stub and a
  reranker, and the two the registry must refuse (a model twice, an unknown kind).
* Client project: five programs, so that the combinations that matter stay small:
  requests and tenants with tasks that inherit them, requests with
  `set_request_id` and tasks, requests with spans and `set_request_id`, sessions and health checks of two settings inside a request, and sessions inside
  sessions of both workers on a pool of one connection, where all can wait for
  each other. Two ids and two spans let nested blocks differ. The two settings are one database before and after a rotation of its
  password, with pools of one and of two.

`CHECK_DEADLOCK FALSE` stands where the calls of a run are finitely many and all
end: the rate limiter, the blob stores, the gateway (whose startup may fail) and
the client project (whose setup may leave no port, after which no job starts).

### Fairness

`Outbox!Fairness`: the event loop runs what is ready (weak fairness of the
callback, of `Woken`, of `PollTimeout`, for `wait_for` has a timeout), statements
and sink answer, and a process that went down is started again, as the service's
`restart: unless-stopped` does (not one that was stopped). Dropped connections,
crashes and accidental failures of the sink may happen at any time but not
infinitely often; a row the sink always refuses may bring the process down for
ever, and `EveryRowProcessed` then exempts the rows behind it. No strong fairness
is used.

`Backends!Spec`: weak fairness of the checker's loop, of timers and of each
answer: sleeps end, each probe has a timeout, each request too. Nothing is
assumed of backends, of shutdowns or of restarts.

`ClientApp!AppSpec`: weak fairness of `JobStep` for each worker: the code of a job
comes to an end, statements are answered or fail, and a wait for a connection
ends by the pool's timeout if not by a connection. Nothing makes a connection come
free, a job start or the setup finish.

### Where code and text disagree

Three violated runs, each with a finding:

* `auth_deleted`: "Soft-deleted tenants never authenticate" (`store.py:143`). The
  grace table is searched without a look at `deleted_at`, so a tenant that was
  rotated and then deleted authenticates with its old key until it expires.
* `filesystem_shared_tmp`: "Пишем атомарно" (`filesystem.py:157`). Two puts of a
  key use one temporary file; the result may be neither content.
* `postgres_alembic`: "nothing on `alembic_version`" (`_local.py:103`, ADR-0016).
  The default privileges are database-wide, so a table made after provisioning,
  `alembic_version` among them, is covered.

Met on the way, without a run:

* Two CLI processes rotating one tenant read the same old key; the new key the
  first one printed is lost without a grace period (`store.py:219`). The expiry is
  computed before the write lock is had (`store.py:220`), so the second one to
  commit can replace the old key's row with an earlier expiry.
* `session_scope` promises "commit при успехе" (`session.py:49`), but after a block
  that caught the failure of a statement `commit()` (`session.py:53`, `session.py:69`)
  returns normally with nothing committed.
* `list` of the S3 adapter with its default prefix checks no tenant id
  (`_s3_compatible.py:276`): the tenant `a/b` lists the keys of `a` below `b/`
  (`ListsBelow`). The filesystem's "Sanity check на tenant_id" (`filesystem.py:235`)
  is `if False`, so that the tenant `.` lists every tenant's files (`DotListsAll`).
  Neither can put anything.
* The pattern for tenant ids ends in `$`, which also accepts a newline at the end;
  `TenantNames` takes ids without one.
* ADR-0003 speaks of a token bucket; `ratelimit.py:82` is a fixed window, with
  the usual burst at the boundary.
* The deferred close's grace is called the longest a request can run
  (`base.py:156`), but connect and pool waits come on top, and a slow body has no
  total limit; `CutOnlyPastReadCap` states what does hold. Deferred closes still
  asleep at shutdown are never run.
* Two filesystem puts with `if_none_match` can both succeed (`filesystem.py:152`).
  After a crash between rename and metadata the ETag is the old content's.
* The synchronous storage client has "the same semantics" as the asynchronous one
  (`client.py:29`), but the second call on an S3 backend finds the client of the
  first call's event loop, which is over; only a call after `aclose` works again.
* Engines are cached so that repeated calls do not multiply pools (`engine.py:3-5`);
  two threads whose first calls overlap still make two, and the later one stays in
  the cache. The pool's settings are not in
  the key.
* `setup_logging`: "a repeated call overwrites the configuration"
  (`logging_setup.py:91`), but loggers used before keep their processors
  (`cache_logger_on_first_use`), the old tenant among them; and two overlapping
  calls can leave two handlers, so that each line is written twice.
* `setup_tracing` sets `_configured` before `_provider` (`tracing.py:168`): a call in
  between gets None instead of "the active TracerProvider". Providers made by
  overlapping calls export their own spans, and OpenTelemetry keeps the first.
* Standard labels are filled in "immutably" (`metrics.py:53`), but `labels()` lets its
  caller override `service`, `env` and `tenant` (`metrics.py:103`).
* `TraceContextFilter` on the root logger does not see records of child loggers, for
  filters of a logger are not applied to records handed up to its handlers.
* The S3 adapter maps `ClientError` only; connection errors pass through although
  the port promises `BlobStoreUnavailable` (`blob_store.py:128`).
* Two hyphens in a row are one underscore in the Redis namespace and two in the
  database name (`LayersDisagree`), so `a-b` and `a--b` share a Redis namespace.
* On the filesystem the key `a.meta.json` is the metadata file of `a`, `./a` is
  `a` (`KeysMeet`), the empty key is the tenant's directory, and `list` shows the
  `.tmp` files of running puts.
* The comment in `backends.yaml` about SIGHUP has no counterpart in the code.

## 4. Proofs

All proofs are checked by TLAPS from nothing; no step is assumed. The
assumptions on constants are those in the modules.

**OutboxProofs** (any finite set of ids, any refused rows). None of the
properties is inductive: that a row is marked only after delivery needs to know
that the row at `mark` was delivered, that a stop finishes its batch needs to
know which rows of the scan are still in the batch. `IInv` adds to `TypeOK`:
`TableInv` (no rows before the table), `BatchInv` (a batch exists only while
delivering, and holds unprocessed rows), `DeliveryInv` (processed rows, and the
row at `mark`, were delivered), `SentInv` (what this process has sent and not
marked is the row at `mark`), `SnapshotInv` (the scan's rows are marked or in the
batch) and `WakeupInv` (unless a scan is about to start, a notified row that is
unprocessed is in the batch or has a ring pending). From it: `TypeCorrect`, `WakeupsAreKept`,
`StopAtBatchEnd`, `RedeliveryNeedsRestart`, `ScanOrder`,
`MarkedOnlyAfterDelivery`, and `Refinement`, which maps every step of the
dispatcher to a step of `OutboxDelivery` or to a stutter.

**AuthenticatorProofs** (any tenants, keys, CLIs, TTL, grace, cache size). `IInv`
adds `KeyInv` (every key in the database, or read by a rotation in progress, was
generated before, so a fresh key is new to it), `ClockInv` (a call's clock
readings are in order and not in the future), `SteadyInv` (the key of a call it
calls steady is acceptable now, and past the first SELECT it is no tenant's
current key, so that it must be in the grace table), `ValidInv` (a grace row
was acceptable until it expired; a cache entry is stamped no later than its key
was last acceptable) and `CommandInv` (the expiry a rotation carries is at least a
grace period from its beginning, and the tenant's current key, if it is not the one
the rotation read, was generated since). The lemma that carries the proof is
`StoreStepHolds`: no step of the store makes a key that was generated before a
current one again. From `IInv`: `TypeCorrect`,
`CacheStaleness`, `SteadyKeysAccepted`, `CreateIsOnce` (the check of `create` is in
another transaction than its INSERT, and the INSERT's conflict saves it) and
`GraceIsKept`.

**RateLimiterProofs** (any tenants, endpoints, limits, window and clock bound).
`WindowWithinLimit` counts a set, so the induction is about each request:
`DistinctInv` says that requests counted in one window by that window's key got
different numbers, each at most the counter while the window lasts. That needs
`ExpiryInv` (no key expires before its window is over, so a counter never restarts
inside it), and with `VerdictInv` (an admitted request's number is within the limit)
the numbers are an injection of the requests into `1..limit`. `CountInv` (neither
the counter nor an answer exceeds the INCRs applied) gives `LimitedForAReason`;
`NoTTLOnlyAfterFailure` is itself inductive with the rest. `RetryReaches` is about
the arithmetic of windows, for every time and window size. The lemmas on `%` and
`\div` that TLAPS needs (`InWindow`, `OnlyWindow`, `BucketMonotone`) come first.

**BackendsProofs** (any number of adapters, requests and clients, any threshold and
read cap). `StreakInv` ties `failures` to the trailing failures among the probes
remembered, which the counter's cap must not spoil; `StopInv` says that adapters
are closed only after the checker's task is gone; `DrainInv` says that a request on
a replaced client is at least as old as the time since the replacement. From them
`HealthIsStreak`, `ProbesEndFirst`, `CutLate`; `ClientsAccounted` is inductive with
`TypeOK` and gives `NoClientLost`.

**StorageClientProofs.** The S3 side needs no assumption on the schedule: `LockInv`
(the creator of a client holds the lock and nothing is cached meanwhile),
`OriginInv` (the cached client's creator is past its creation), `OwnLoopInv` (under
the synchronous client, who created its client has it open and runs) and `BodyInv`
give `NoneLeaks`, `NoneStale` and `OwnClientServes` for any number of operations
and closes. The filesystem side has the hypothesis `MaxActive = 1`: writers of one
key do not overlap. It cannot be dropped, as `filesystem_shared_tmp` shows; readers
overlap the writer and each other freely, and a writer may crash anywhere. `FreshInv`,
`WriteInv` and `SealedInv` say that only the writer's inode changes and that the
inode at the key, and every inode a reader has open, is sealed; `ProgressInv` and
`SettleInv` say what each call may conclude from where it is. From them `Settled`
and `Refinement`: the mapping takes the object to be the put whose inode is at the
key (filesystem) or the bucket's object (S3), the operation's effect to happen at
`os.replace`, at the unlink, or when S3 applies it (also when the answer is lost),
and the result to appear when the call ends; every other step is a stutter of
`BlobStore`. `NoneAssumption` says that the value for "no object" is no call.
`Atomic` adds what the port leaves out, the bytes: `StreamInv` says that what a get
has read so far is how its inode begins, and since that inode is sealed, what it has
read to the end is the whole content of one put. This is `AtomicContent`, the
property that two overlapping puts violate.

About the keys, `ObjectKeysDistinct`, `KeysListedAsPut` and `TenantFilesDisjoint`
hold for tenants and keys of any length; the second is about every id a client may
list with, one with separators included. In the last, `Proper(key)` leaves out keys
that normalise to nothing, such as `.`, which name the tenant's directory itself.
That what PurePosixPath leaves is a path again (`NormalIsPath`) rests on
`CountedUp`: the kept segments are numbered by counting, and a count that gives
different numbers to different segments reaches every number up to the last.

**RedisProvisionProofs** (any administrators, names, secrets, and namespaces over
any characters without the colon, which is what `derive_namespace` leaves:
`NamespaceAssumption`). `AloneInv` (a command alone with its tenant finds the user as
it left it), `PageInv` (a page of a purge holds keys of its namespace), `PurgeInv`
(what a purge alone with its tenant has not deleted, the cursor still owes or the
page holds) and `SettledInv` carry `Settles`, `FileCurrent`, `PurgeComplete` and the
action property `PurgeScoped`, which rests on the lemma that a key matches one
namespace's pattern only.

**PgProvisionProofs** (any administrators, secrets, schemas and objects; schemas and
objects are different things, which `SchemaAssumption` says). `RuntimeCoverage` is far from
inductive. `LoopInv` says how far `grant_runtime_role` has got with what its run
found: it is granted, or in a schema still to do, or in the one at hand and of a
kind not yet granted. `CommandInv` says that what a run found is still there, that a
connected run has its database (DROP ... WITH (FORCE) ends it otherwise) and that
default privileges on tables precede those on sequences. `FirstInv` says that until a first run has
returned, every run under way has found all that is not missed, and `ReadyInv` that
afterwards the defaults cover both kinds. `AloneInv` and `SettledInv` carry
`Converges`. About the names: `DatabasesDistinct` (if the underscore is neither
letter nor digit), `SdkDatabaseFound` (the name the Postgres client SDK derives is
that of the database the control plane made, for every tenant it accepts) and
`KeySpacesDisjoint` (if the colon is no word character). `NamespacesAreWords` shows that
`derive_namespace` leaves word characters only, for tenants of any name and length, so
that `KeySpacesDisjoint` and `NamespaceAssumption` are about what it returns;
`NamespacesStable` that it is a normal form (if no word character is upper case).

**SdkProofs, gateway and LLM SDK** (any requests, tenants, configurations, models,
providers, aliases and texts). A request's entitlement is decided in one step and
used in a later one, so `GateInv` carries it: a request with a backend was found
entitled, one that is authenticated has a tenant. That needs no more of the
constants than `TenantsAssumption` (the mark of an unauthenticated request is no
tenant) and `AllowedAssumption`. `ListedHolds` compares the two readings of a tenant's permission,
in `models_for` and in `_resolve`, for every configuration. For `VectorsRight`,
`CacheInv` says that a row of the shared cache has the vector of the provider, model
and text it is the key of, and `CallInv` that a call under way asked for the texts it
missed, in the order it will put the answer together in; a request on its way through
the gateway keeps what it asks (`AboutKept`), and the items that come back, all of
them or the first few, are the vectors of the first misses. `NoKeyError` states the converse of the one failure that is left: a
list with an item for each miss is always merged, with texts repeated or not. `Misses`
is written with a count in place of `SelectSeq`, which the prover cannot expand.

**SdkProofs, reranking** (any answer that names no document twice, any integer scores,
any `top_n`). The sort is stated by ranks: an item's rank is one more than the number
of items before it. `RankLess` makes ranks different, a count of them makes them a
permutation (`RanksTaken`), and from it follow `RerankBest` and `RerankStable`.
`ScaleAssumption`: the top of the scale is a natural number, the mark for no `top_n` is
not.

**SdkProofs, client project** (any workers, programs, settings and pools;
`AppAssumption` gives pools at least one connection, and keeps the mark for "no name"
apart from tenants, workers, request ids and spans).
`SetupInv` is about the setup calls alone: `ServerInv` (who holds the lock is the one
that may start the server, and the flag says whether it runs),
`AloneInv` and `ProviderInv` (what calls that met no other have left behind). It gives
`SetupsSettled`. `NamesInv` is about scopes: a context variable holds the value of the
innermost block of its kind, and the tokens on a worker's stack match its open blocks
one to one and in order (`Nested`), each with the value the block found, so that the
reset of any block, wherever it is left from, restores what was in force before, also
when `set_request_id` has changed the variable in between. It gives
`RecordsNamed`. `PgInv` is about sessions: `LocalInv` (the sessions of a worker match
its blocks, and where in the SDK a worker is says what its transaction has come to;
only a transaction that was begun can be aborted),
`UrlsInv`, `OnceInv` and `CountInv` (each engine's count is the cardinality of
`Holding`, the set of sessions with a connection of it). It gives `EnginesCounted`
and `SessionsSettled`.

Proving showed four places where the model said less than it meant: CASE arms that
overlapped in `S3Client`, `StorageClient` and `Observability`, for which TLA+ lets
any arm be taken while TLC takes the first. They are disjoint now.

Model-checked only:

* liveness (`EveryRowProcessed`, `StopEnds`, `HealthConverges`, `ShutdownEnds`,
  `JobsEnd`), which the prover does not reach;
* that two layers derive different names (`LayersDisagree`), two keys one file
  (`KeysMeet`), and what a tenant id with a separator or `.` lists (`ListsBelow`,
  `DotListsAll`): single examples, which TLC evaluates; the filesystem's listing
  (`ListsFilesPut`), over short paths.

Every safety invariant and every action property of a passing run is stated by a
theorem. The filesystem's are under the condition `MaxActive = 1`; the other theorems
have no condition but the assumptions named.

## 5. Not modelled

* Storage: an error of `stat()` for a blob deleted after its metadata was read
  (`filesystem.py:301`), threads that share one synchronous client, the effects of a filesystem
  step that was cancelled but still runs in its executor thread, the content of
  presigned URLs, the distinction between `BlobStoreUnavailable` and botocore's
  exceptions.
* LLM SDK: the translation of payloads by the providers, which keeps no state, and
  `close`.
* Postgres SDK: what the health check reports about PostGIS; savepoints, and commits
  or rollbacks the block's code calls itself.
* Observability: rendering, the creation of instruments and their check of label
  names (one test on constants), `TraceContextFilter`, `force`, the `instrument_*`
  wrappers of optional libraries.
* Gateway: `/health` and `/ready` (they read only), parsing of limits and YAML, logs
  and metrics.
* Configuration and compose files, and the managed adapters (stubs that raise).
* The Redis client SDK beyond its names: building a client keeps no state.

## 6. Plan

Done, in this order: outbox with its refinement and proofs; tenancy with its
proofs; rate limiter; health checker and clients, and their composition; gateway
and SDK; blob stores; control planes; names and keys with their proofs; the port's
contract refined by both adapters; the storage, Postgres and observability SDKs
and a client project that uses them; two tenants of the Redis control plane.

Proved since: `CreateNeverReplaces` and `OldKeysKeepTheirGrace`; the rate limiter;
checker and clients; both blob stores and their refinement of the port; both control
planes; the gateway's requests and the LLM SDK's embeddings; a client project's
setup, names, sessions and engines; reranking, namespaces and listings; the
filesystem's contents with one writer.

Left: liveness, which this prover does not reach. The parts of section 5 keep little
state; of them the shared synchronous storage client and cancelled filesystem steps
that go on in their threads would be worth a model first.
