# A TLA+ model of SynergyPlus

SynergyPlus runs EnergyPlus simulations for a lab: clients submit simulations
and batches to an API server, Runners pull queued rows out of Postgres, run the
engine, and write results into a content-addressed cache. There is no message
broker and no coordinator. The queue, the leases, the rollups and the cache are
rows of one database, and correctness rests on a few guarded SQL statements
issued by processes that crash, stall and come back. These modules model those
statements and the processes around them.

## 1. The system

| Part | State | Operations | Talks to |
|---|---|---|---|
| Run queue (`db/migrations/0006`, `0007`) | `app.simulations`: state, runner_id, lease, attempts | `eligible_simulations`, `claim_simulation`, `renew_lease`, `finish_simulation`, `reap_expired_leases` | called by the Runners and the Reaper |
| Runner (`runner/synergy_runner/loop.py`, `db.py`, `heartbeat.py`) | one claimed row, a heartbeat thread | claim, process, back-fill hashes, upsert result, finish | Postgres, object storage, the engine |
| Pipeline (`loop.py`, `engine.py`, `parse_err.py`, `storage.py`) | a workspace, the bytes it fetched, a verdict | fetch, hash, run, classify, upload, upsert | object storage, `app.results` |
| Reaper (`internal/queue/reaper.go`) | none; a 15-second tick | sweep, resync | the SQL functions, `ResyncStuckBatches` |
| Batch rollup (`0003`, `0004`, `store.go`) | `app.batches`: state, succeeded, failed, total; which trigger is installed | trigger `sync_batch_counts`, `ResyncStuckBatches`, `Migrate` at boot | fired by every insert and state change of a child |
| Expander (`internal/queue/queue.go`) | position in the list of variants | `Expand`, `ExpandAsync` | cache lookup, inserts |
| Result cache (`store.go`, `queue.go`, `handlers.go`) | `app.results` by content hash | `HasResult`, `upsert_result` | submissions and Runners |
| Batch submission (`handlers.go`, `0005`) | idempotency keys | `handleCreateBatch` | store, Expander |
| Uploads and downloads (`uploads.go`, `presign.go`) | objects | mint a key and a URL, list a result's artifacts | object storage |
| Reads (`handlers.go`, `store.go`) | none | simulation, result, batch, pages of a batch's simulations | Postgres; every request authenticates first |
| API keys (`auth.go`, portal `api-keys.ts`) | `app.api_keys` | create, revoke, look up | portal and apiserver |
| Operator (`runnerpool_controller.go`) | Deployment, ScaledObject | `Reconcile` | Kubernetes, KEDA |
| SDK (`client.py`, `storage.py`) | where a call of it is | submit, `wait`, `download_results`, list a batch | API server, object storage |
| Portal pages, metrics | none of their own that matters here | pages, reading SQLite | |

What makes each part correct:

* **Run queue and Runners.** A user never exceeds the cap; a row is started at
  most `max_attempts` times; a row leaves the running phase by its current
  attempt or by the Reaper; a settled row is final; every queued row is settled
  in the end.
* **Batch rollup.** The batch row lags behind its children at worst; `done` is
  exact and final; a batch whose rows exist gets there.
* **Result cache.** A result stands under the hash of the inputs it came from;
  a succeeded row has a result.
* **Batch submission.** One batch per user and key, named by every answer; no
  variant inserted twice; nobody failed by somebody else's submission; a batch
  that was answered gets its rows.
* **Reads.** What `wait()` returned stays true; a succeeded simulation shows its
  result; a download is whole; only the owner is served, under a key that is not
  revoked; the pages of a batch that is still growing neither skip nor repeat a
  row, and a batch seen done is listed whole.
* **Operator.** At rest it has left the Deployment and the ScaledObject as the
  pool asks; it never takes back KEDA's replicas; a deleted pool leaves nothing.

What is hard: a claim decides on a count that other transactions change; a
Runner that has lost its row keeps computing and keeps writing; replies get lost
after their COMMIT took effect; a trigger counts in one snapshot and writes over
a newer row; the sweep and a finish take the same two locks in opposite orders;
an expansion stops half way; a boot brings an old trigger back for a moment;
an answer is put together from statements that see different states, and a
download from several requests; a retry meets the first try still at work; the
operator acts on a cache that lags behind edits, deletions and KEDA's writes.
`PROJECT.json` lists these hazards line by line.

## 2. Modules

| Module | Models | Used by |
|---|---|---|
| `SimQueue` | the abstract run queue: insert, start under a cap, settle, give up | refined by `Lifecycle` |
| `Lifecycle` | rows, advisory lock, claims as transactions, Runners, heartbeats, Reaper, time | `MCLifecycle`, `LifecycleProofs` |
| `BatchRows` | the abstract batch: rows appear in order, settle for good, `done` with the last of them or later | refined by `BatchRollup`, read by `BatchReads` |
| `BatchRollup` | one batch, its children, the trigger and its snapshots, the Reaper's tick, the expander, the migrations of a boot | `MCBatchRollup`, `BatchRollupProofs` |
| `ResultCache` | uploads, cache lookup, the pipeline of `process_simulation`, `app.results` | `MCResultCache`, `ResultCacheProofs` |
| `BatchSubmission` | clients that retry, `handleCreateBatch`, the unique index, both kinds of expansion | `MCBatchSubmission`, `BatchSubmissionProofs` |
| `ResultReads` | the Runner's tail file by file, the read handlers statement by statement, API keys, the SDK's `wait` and `download_results` | `MCResultReads`, `ResultReadsProofs` |
| `BatchReads` | a client that pages through a batch of `BatchRows` | `MCBatchReads`, `BatchReadsProofs` |
| `RunnerPool` | one RunnerPool, its Deployment and ScaledObject, the operator and its cache, KEDA, the collector | `MCRunnerPool`, `RunnerPoolProofs` |
| `LifecycleProofs`, `BatchRollupProofs`, `ResultCacheProofs`, `BatchSubmissionProofs`, `BatchReadsProofs`, `ResultReadsProofs`, `RunnerPoolProofs` | TLAPS proofs | |

The modules share the database but not their variables. `Lifecycle`,
`BatchRollup` and `ResultCache` are three views of `app.simulations` (who runs a
row, how it is counted, what it computes); each leaves open what the others
decide, as any choice: `BatchRollup` lets any running row be swept, `ResultCache`
lets any running row be taken away. `ResultReads` looks at the same rows from the
client's side and shows what the others guarantee as far as a client can see it;
`BatchReads` takes of the rollup only what `BatchRows` says, which `BatchRollup`
implements. `BatchSubmission` ends where the rows are
inserted, and `RunnerPool` where the ScaledObject is written; its query counts
the rows that `Lifecycle` calls `eligible_simulations`.

### Lifecycle

Each column of `app.simulations` that the lifecycle functions read or write is a
variable (`state`, `req`, `runner_id`, `lease`, `attempts`); `lock` is
`pg_advisory_xact_lock(42)`; each Runner has a program counter `pc`, the row in
its hands `cur`, the attempt number its claim returned `att`, and the rows its
heartbeat threads renew `hb` (more than one when a join timed out).

* A claim is two steps. `ClaimBegin` takes the lock and evaluates the subquery;
  `ClaimCommit` makes the UPDATE visible and releases the lock. Between them
  anything else may happen. `ClaimNothing`, `ClaimRollback` and `ClaimReplyLost`
  are the other ends: no row, an error before COMMIT, an error after it.
* `renew_lease`, `finish_simulation` and `reap_expired_leases` are UPDATEs whose
  WHERE clause Postgres evaluates again under the row lock, so each is a step.
* SKIP LOCKED may skip a row only when its former owner, still computing, can be
  holding its lock (the unfenced back-fill of the hashes).
* `process_simulation` is `StartWork`, then `Finish` or `WorkRaises`, then
  `HandleFailure`, then `StopHeartbeat`. `Finish` may land in the except clause
  with the row already settled (the reply was lost); `HandleFailure` may fail
  too. `Die` is possible everywhere; `Restart` keeps the id, as a container
  restart in one pod does.
* Time is `LeaseExpires`, possible for any live lease at any moment: a Runner
  that is slow or partitioned loses its row just as a dead one does.

### BatchRollup

One batch with a fixed `total`. A statement that inserts a child or changes its
state writes the row and its trigger counts the children in its own snapshot
(`Write`); later it gets the batch row, writes what it counted, and the
transaction commits (`Commit`). If it had to wait for the batch row Postgres
re-reads that row and not the counts, which is why the two steps are apart. The
Reaper's tick is one transaction of two UPDATEs (`SweepBegin`, `SweepRow`,
`SweepTrigger`, `SweepRoll`, `SweepSecond`, `SweepCommit`), which keeps the batch
row locked from its first trigger on, followed by `ResyncStuckBatches`. A
deadlock with a finish is possible and is resolved by `Rollback` or
`SweepFails`. Whose lease has expired is left open: any set of running rows may
be swept.

`Store.Migrate` applies every file again at every boot, each in a transaction of
its own: `Migrate3` brings back the trigger of 0003, which takes the rows it
finds for all there are and leaves `expanding` alone, and `Migrate4` replaces it.
A boot may die between the two. `DROP TRIGGER` locks the table against every
writer, so `TableFree` is what a migration waits for: a transaction that has
fired its trigger ends under the function it began with. Another apiserver and
the Runners are at work meanwhile.

### ResultCache

An input's bytes are a model value and its digest is itself. A ref is either
content-addressed (the SDK's uploads, named by their digest) or a name a later
upload replaces (`uploads/<user>/<basename>`, the key of an upload without a
digest). A submission looks the cache up (`Lookup`) and then inserts its row. A
Runner fetches, back-fills the hash without a fence, runs the engine, classifies
the `.err`, upserts the result, finishes. `Reap` takes any running row away from
its Runner, which goes on. `ErrOf` gives the `.err` files a run of the given
bytes may leave: one for a deterministic engine, several for one that may be cut
short (its exit code is ignored by `run_engine`).

### ResultReads

A row's `ref` is either addressed by the bytes of its input (a member of
`Contents`, which is also their hash) or `Named`, an upload that may be replaced
and holds any bytes whenever it is fetched. Rows of equal inputs share one
`content_hash`, one row of `app.results` and one prefix of objects, and earlier
rows may have left results; a row submitted without digests has the placeholder
`NoDigest` until it is back-filled. A Runner fetches (`Fetched`), back-fills the
hash of what it fetched without a fence, uploads one file per step, upserts and
finishes; an upload that raises leaves the rest of the files out and the artifact
URI NULL, and the run goes on. `Reap` makes zombies of Runners, which keep
writing: the hash columns of a settled row too, so that a zombie of a replaced
upload re-points the row, and its owner is told "no result yet".

A request of the client is one record `req`: `authMiddleware`, `GetSimulation`,
`GetResult` and `List` are its statements, and anything may happen between them.
The three handlers share the first two and differ in what they make of the
result; that the apiserver may have no presigner is one more answer (503) of the
listing. The SDK is `sdk`: `Connect` picks a key (or none), an id (anybody's) and
a backend; `Wait` and `Polled` are `wait()`, `DownloadResults` to `Returned` are
`download_results()` with direct S3 access or through presigned URLs; after an
exception (`Raised`) the caller may go on with the client. Requests
only read, and clients do not see each other, so one client stands for all.
`live` in `req` records whether the key was live when the request began and is
there for the property only.

### BatchReads

Rows are named by their place in the order of insertion, which is the order of
`created_at` (one expander inserts them one after the other) and so of the
listing. What happens to them meanwhile is a step of `BatchRows`: a row is
inserted, rows settle, and the trigger of that transaction calls a complete batch
done or, with counts that are too old, leaves it to the resync. A request is two steps, `CountRows` and `ReadPage`, after the ownership
test that `ResultReads` has. `pageParams` replaces a limit outside 1..500 by 50.
The client moves on by the rows it `received`, or by the limit it `asked` for, be
it one the server uses or not (`InRange` says which); it repeats a failed request, may come back later for
what was added (`Resume`), or start again.

### BatchSubmission

A handler is named by its client and the number of the client's try, and a batch
by the handler that created it. Every call of `handleCreateBatch` to the database
is a step: `Validate`, `Lookup`, `CreateBatch` or `CreateViolatesIndex`,
`Refetch`, then one `InsertSimulation` per variant and `ExpandReturns`. A batch
up to `SyncExpandThreshold` is expanded under the request's context and answered
after it (`"expand"`); a larger one is answered first and expanded by a goroutine
(`"async"`). `CreateFails`, `LookupFails` and `ExpandFails` are the error paths;
an insert that fails may have taken effect. `GiveUp` is the client's timeout,
after which the handler goes on until `Cancel` tells it; `Crash` ends all of them
at once. Validation is two things, a size and whether everything else is allowed.

### RunnerPool

One pool name. `pool`, `dep` and `so` are the objects in the API server;
`cpool`, `cdep` the informer cache (`WatchPool`, `WatchDep` bring it up to date
and put the name in the work queue); `rpool`, `rdep` the copies of the reconcile
under way. A write is refused when its copy is out of date; instead of counting
resource versions the model keeps the set `current` of copies no write has
outdated. `Reconcile` is one step per call: `Begin`, `Build`, then `GetDep` with
`CreateDep`, `UpdateDep` or `UpdateDepRefused` (`RetryOnConflict`), then
`GetScaler` and `PutScaler`, then the status. ScaledObjects are unstructured, so
they are read from the API server. `CallFails` returns an error, which requeues;
a failed write of the status is only logged. `Restart` may bring another
environment. KEDA, the Deployment controller, the garbage collector, the resync
of controller-runtime and users are external and act at any time. With
`OthersDelete` somebody may also delete the ScaledObject (`DeleteScaler`), of
which no watch tells the operator; the history variable `taken` remembers it
until the next `PutScaler`.

## 3. What TLC checks

| Run | Instance | Checks |
|---|---|---|
| `lifecycle` | 2 rows, 1 user, 2 Runners, cap 1, 2 attempts, 2 priorities | types, hard cap, attempt bound, inductive invariant, fence, finality, refinement of `SimQueue`, every queued row is settled |
| `rollup` | 2 children, 2 attempts, both triggers | types, inductive invariant, counts never overstate, `done` exact, `done` final, refinement of `BatchRows`, a complete batch reaches `done` |
| `cache` | 2 rows, 2 Runners, 2 inputs, 1 replaceable name, flaky engine | inductive invariant with the types, results under their own inputs' hash, no placeholder left, a succeeded row has its result |
| `submit` | 2 clients, 2 users, 1 key or none, 2 tries each, sizes 1 to 3 of which 3 is too large, threshold 1 | the inductive invariant, one batch per key, one expander, complete answers, no answered batch left behind, no failure without a fault |
| `pool` | 2 specs, 2 pools one after the other, 2 attempts per update, 0 or 1 replicas | inductive invariant with the types, an operator at rest is settled, replicas are KEDA's |
| `pool_live` | 1 pool, a good and an unparsable spec, 2 environments, others delete the ScaledObject | convergence, nothing outlives its pool |
| `reads` | 1 row with an addressed or a replaceable input, 2 inputs, 2 attempts, 2 Runners, 2 files, 2 users with a key each | inductive invariant with the types; the state `wait()` returned stays; for addressed inputs a succeeded answer shows its result, no 404 follows it, and downloads are whole; owners only |
| `paging` | 5 rows, default 2, maximum 3, limits from -1 to 4 and none | inductive invariant, contiguous pages and a done batch listed whole (clients that move on by an out-of-range limit excepted), listed rows of a done batch are final, passes end |
| `lost_count` | 2 children | refutes that concurrent rollups lose nothing |
| `stuck_expanding` | 2 children, fair | refutes that a batch leaves `expanding` |
| `cached_failure` | content-addressed refs | refutes that `succeeded` means a good verdict |
| `lost_insert` | 1 client, 2 tries | refutes that a small batch is expanded when it is answered |

**Bounds.** Two Runners and two rows are what a zombie, its successor and a
competing claim need; two attempts let a row be lost, claimed again (by the same
Runner too) and exhausted; a cap of 1 is reached by the first claim. Two
children let one transaction's snapshot miss the other's write, in either order,
next to a sweep that requeues one and fails the other; more children are left to
the proofs. In `reads` two attempts give a settled row a zombie that fetched the same bytes
or others; the results that rows of other users leave are in the initial state,
and the second user's key asks for the first one's row; one of the two keys
is created per behaviour (`OneKey`), since a client has one key anyway. Two files let an upload
fail half way and a listing meet it. The engine's verdict is always good there:
that a run fails or loses its row comes from `Raise` and `Reap`, and bad verdicts
and several rows are left to the proofs. Five rows against pages of two or three make passes of
several pages with a short one at the end, and leave room for rows inserted
between any two statements. Two
inputs are one that always succeeds and one that is cut short or fails, next to
a name that holds either in turn. Two clients with two tries each are a handler,
its retry and a competitor under the same key or another user's; size 1 is
expanded in the request, size 2 by a goroutine, and each size has its user, so
that two submissions of one key and different sizes are left to the proofs. Two pools one after the other
let objects of a deleted pool meet their successor, two attempts per update let
a retry succeed and give up. Clients are interchangeable, and so are Runners
where the symmetry is declared (same version, same cap) and the rows of `cache`. Nothing else is
bounded in the run queue: attempts are bounded by `MaxAttempts`, which the code
enforces. `MaxTries`, `MaxUid` and `MaxReplicas` are bounds of the model.
`cached_failure` turns deadlock checking off because a fixed set of submissions
is finished at some point; elsewhere it is on.

**Fairness.** `Lifecycle`: the Reaper ticks; an unattended lease runs out; a
live process takes its next step (the engine returns: it has no timeout, so this
is an assumption on EnergyPlus); a dead container is restarted by Kubernetes and
is not killed for ever; a Runner that polls gets the advisory lock (Postgres
queues waiters in order) and not every claim of it fails. A Runner that is
interrupted between claim and finish needs no fairness: the lease covers it.
`BatchRollup`: the expander and the Reaper go on; among the claims and finishes
that Runners keep trying some get through, and so do some of the transactions
that wait for the batch row, though no particular one need; waiters for a row are served
in order; nothing is assumed of boots, so that 0003's trigger may stay for ever; Postgres breaks deadlocks; operations that are retried (a finish by
the except clause or the next attempt, the resync by the next tick) do not fail
every time, and sweeps do not for ever fail with rows already written. An
expander that failed has no fairness, since nothing resumes it.
`BatchReads`: a client that has begun goes on, and its statements do not fail
every time; the batch itself needs no fairness.
`RunnerPool`: watch events arrive, the operator takes its next step, the
collector runs; users, scaling and faults come to rest, since nothing bounds the
conflicts a reconcile may lose while KEDA keeps writing. The ten-hourly resync of
controller-runtime may come at any time and is relied on only while a deleted
ScaledObject is missing.

## 4. What the runs show

The fence, the cap, the attempt bound and the finality of settled rows hold in
every interleaving, including the ones a test cannot stage. Comparing only
runner ids in the fence is enough because a process has one row in its hands at
a time and loses it when it dies. The rollup loses updates but never overstates
and never ends wrong, because a child's state and the rollup of it commit
together and the resync repairs what the last trigger missed. The superseded
trigger of 0003 does no harm in its window, for a reason that is not in its code:
it would call a batch done that is still being expanded, but it leaves
`expanding` batches alone, 0004 lets a batch out of `expanding` only with all its
rows there, and the migrations' table lock keeps a snapshot of one trigger from
being written by the other (with `TableFree` weakened, TLC finds a batch that is
done too early). The state a client was told stays true because a settled row is
final. That its result stays with it is true of inputs addressed by their digest
only: results are overwritten but never removed, and a back-fill of such a row
changes nothing. For them the client's download is whole although the
URI may be taken back under it, because the fallback of `resultPrefix` leads to
the same objects and a URI is only stored after the last file of a run. Pages are
contiguous because rows are only ever added at the end of their order; a limit
that the server replaces does no harm to a client that moves on by what it
received, and makes one that moves on by what it asked for skip rows. The idempotency
key needs the lookup, the index and the re-fetch together: the lookup makes
retries cheap, the index decides between concurrent submits, and the re-fetch
turns the loser's error into the winner's answer. The operator's reads may be
arbitrarily old and its reconciles may overlap with anything: the resource
version on every write and the watch on what it wrote are what make it converge.

Four statements of the repository do not hold:

1. **Rollups of concurrent transactions overwrite each other**
   (`lost_count`). Migration 0003 says that recomputing means "concurrent
   Runners can't race/lose updates". A trigger that waited for the batch row
   writes counts from before the wait. A poller can see counts go down and a
   complete batch return to `expanding`; the resync ends it when all children
   are terminal.
2. **A failed expansion is for ever** (`stuck_expanding`). CONTEXT.md says a
   batch is "briefly Expanding". After an error in `Expand`, or the apiserver's
   death, its missing rows are never inserted, and the resync asks for them.
3. **A cached failure is a success** (`cached_failure`). CONTEXT.md says severe
   and fatal do not count as success. `HasResult` ignores the verdict, so
   resubmitting inputs that failed yields a `succeeded` row.
4. **A lost reply makes an orphan batch** (`lost_insert`). The re-fetch in
   `handleCreateBatch` follows any error, and its comment says it is a
   concurrent submit's unique violation. If the insert took effect the handler
   answers with its own batch and expands nothing.

Behaviour met while modelling that no document of the repository excludes, and
that the properties step around: the unfenced back-fill of a zombie can re-point
a settled row whose upload was replaced (`db.py:163`) to a hash without a result.
`ResultCache` and `ResultReads` both do it, so `SucceededHasResult`,
`SucceededShowsResult`, and what `WaitedStaysTrue` and `DownloadIsWhole` say of
the apiserver's later answers, speak of content-addressed uploads only (without
that scope TLC finds a 404 after "succeeded" in `reads`);
the scaler's query counts every queued row of a user who has one slot free
(`runnerpool_controller.go:204`); a page limit above 500 becomes 50 where its
comment says it is clamped (`handlers.go:421`), and a client that moves on by the
limit it asked for then skips rows: `StartPass` lets it, and
`PagesAreContiguous` and the length in `DoneBatchListsWhole` exempt it by
`InRange`; a run whose upload fails overwrites with NULL the
artifact URI that an earlier run of the same inputs stored (`loop.py:123`,
`db.py:194`), after which the SDK's direct S3 backend finds no artifacts though
they are there; two Runners of the same inputs write into one prefix, and
with outputs that differ it holds a mix; a ScaledObject deleted by
somebody else stays away until another event or the resync, because only the
Deployment is watched (`runnerpool_controller.go:256`); `Converges` needs the
resync for it.

## 5. What is proved

`LifecycleProofs`, for all finite sets of rows and all sets of users, versions,
priorities and Runners, all caps and every `MaxAttempts > 0`:

* `TypeCorrect`, `UserCapIsHard`, `AttemptsAreBounded` (invariants),
  `TerminalFinality`, `CurrentAttemptSettles` (action properties), and
  `Refinement`: `Lifecycle` implements `SimQueue`.

They rest on `Invariance`, whose invariant `IInv` adds to the types:

* `LockInv`: the open claim transaction is the lock holder's, so there is one;
* `PickInv`: the row an open claim picked is still queued and its user is still
  below the cap. The cap itself is not inductive: it is this standing promise
  that makes `ClaimCommit` safe. It survives because only the lock holder can
  start a row, and every other step leaves a user's set of running rows alone or
  shrinks it;
* `RowInv`: a row that exists has its request; a running one has an owner and a
  lease;
* `EpochInv`: a Runner that passes the fence for the row in its hands holds that
  row's newest attempt. It turns a fence on ids into a fence on attempts.

The steps go through two lemmas: `StepEffect`, what any step can do to the rows
(insert, start, settle, give up, or nothing the queue can see), and the counting
lemmas `RunningFinite`, `RunningShrinks`, `RunningGrows`. The refinement maps the
columns to themselves; `ClaimCommit` and `ClaimReplyLost` are the `Start`.

`BatchRollupProofs`, for every batch size and every `MaxAttempts > 0`, any number
of overlapping transactions and boots: `RollupTypeCorrect`, `CountsAreNeverAhead`,
`DoneBatchesAreExact` and the action property `DoneBatchesAreFinal`, from
`RollupInvariance`. The invariant says that every view a trigger has counted is a
`Past` of the children (rows are not removed, settled ones do not change), so
that its counts are at most theirs and a full, settled view equals them
(`TxInv` for the one-row transactions, `ReaperInv` for the sweep, whose view has
its own writes on top); that the batch row `Lags` behind the committed children,
and the sweep's uncommitted batch row behind what the sweep will commit; that a
row neither running nor settled has an attempt left (`RowInv`); and that under
0003's trigger a view counted for a batch out of `expanding` is full
(`OldCounts`), which is where the table lock of the migrations is needed.
Counting is done once, in lemmas on `Past`, `Full` and `Settled` views.

`RollupRefinesRows` shows that `BatchRollup` implements `BatchRows`, with the
inserted rows for `rows`, the terminal ones for `settled` and the batch row's
state for `done`. `StepEffect` says what any step does to the committed children:
it appends the next row or moves rows that exist, settled ones excepted. That the
row appended is the next one is `OrderInv` (`RowsAreInOrder`), kept apart from
`IInv` because nothing else needs it; that `done` is never early is
`DoneIsComplete` in the new state, and that it is never taken back is
`DoneStays`. What `BatchReadsProofs` shows of a batch of `BatchRows` therefore
holds of the batch the transactions make.

`BatchReadsProofs`, for every batch size, default, maximum and set of limits:
`PagingTypeCorrect`, `PagesNeverSkip` and `DoneBatchesAreListedWhole`, from
`PagingInvariance`. Its invariant adds `PassInv`: until a pass ends the offset is
the number of rows received, or more if the client moves on by an out-of-range
limit. A client that moves on by a limit in range keeps it, because a page shorter than the limit is the last one of the count
before it.

`ResultCacheProofs`, for all sets of rows, Runners, inputs and names and every
engine `ErrOf`: `ResultsAreOfTheirInputs`, `SucceededRowsHaveRealHashes`,
`SucceededRowsHaveResults` and `CacheTypeCorrect`, from `CacheInvariance`. Its
invariant adds `JobInv` (what a Runner has established at each point of its run, true whether or not it still
owns the row, because no step of another makes a row absent again or puts the
placeholder back) and `SubmissionInv` (a submission that hit did so under a real
hash; a queued row has an attempt left, which bounds `attempts`). For
`SucceededRowsHaveResults` it adds `AddressInv` (the hash of a row whose input is
named by its digest is that digest or the placeholder, and a Runner of it has
fetched those bytes, so that the back-fill of a zombie changes nothing) and
`ShownInv` (a submission that hit, a Runner at its finish and a succeeded row find
a result, and a succeeded row that was run had a run of its input with a good
verdict); results are overwritten and never removed, and by runs of the same
bytes only.

`ResultReadsProofs`, for any number of rows, Runners, users, keys, files and
attempts, any inputs and verdicts: `SucceededIsShownWithResult`, `WaitTellsTheTruth`,
`DownloadsAreWhole`, `ServesOnlyOwners` and `ReadsTypeCorrect`, from
`ReadsInvariance`. The invariant has two halves. Rows, Runners and results keep
theirs whatever clients do (`RowInv`, `JobInv`, `ResultInv`: the hash of a row
with an addressed input is that of its bytes or the placeholder, a Runner of it
has fetched those bytes, and once it succeeded its hash has a result; a Runner
past its upload has stored every file it is past; a URI stands for a whole run of
files). Of them a client uses only the
invariant itself, which speaks of every later state, and what no step takes back
(`Stable`): settled states, refs, and a whole set of files. Requests and the client keep theirs under any
such step (`OthersStep`): a request past its checks is the owner's, under a key
that was live when it began (`CallInv`); what it has read of a settled row is
still so (`ReadInv`); what the client holds is a past of that (`GivenInv`). The
URI itself is not stable, which is why `DownloadsAreWhole` goes through the files
and the fallback of `resultPrefix`.

`RunnerPoolProofs`, for all specs, environments, defaults and bounds, with and
without others that delete the ScaledObject: `RestingMeansSettled`,
`ReplicasAreKedas` (an action property) and `PoolTypeCorrect`, from
`PoolInvariance`. The invariant adds `CopyInv` (a copy that no write has outdated
equals its object, which is what the resource version checks) and `ProgressInv`:
while the work queue is empty and the cache is current, a reconcile works from
current copies and everything it is past is as the pool asks. `QuietMeansSettled`
is its last case. It survives edits, deletions, conflicts and restarts because
each of them either makes a cached object out of date, and its watch event will
put the name into the queue, or puts it there itself.

`BatchSubmissionProofs`, for any number of clients, users, keys, sizes and tries:
`OneBatchPerKey`, `RowsAreInsertedOnce`, `SyncAnswersAreComplete`,
`AnsweredBatchesAreExpanded`, `SubmissionTypeCorrect`, and the action property `FailuresAreFaults`, from
`SubmissionInvariance`. Its invariant says what a handler's place in the code
means: `BatchInv` (a batch bears its creator's request, and its creator is past
the insert), `TryInv` (a try not made has no handler), `KeyInv` (one batch per
user and key: the index), `ExpandInv` (a handler expands its own batch or none;
one that created a batch and does not expand it, or stopped before the last row,
met a fault) and `AnswerInv`
(what an accepted client was told). `Answers` and `Moves` show once what a step
that answers, or that moves on without writing, preserves; `Inserts` and `Adds`
what the two kinds of write do. `FailuresAreFaults` needs in addition that a
handler which lost the insert still finds the winner's batch (`RefetchInv`),
because batches are never removed and keep their key.

**Assumptions.** The theorems rest on the named assumptions of the modules, which
TLC evaluates in the runs: constants have their kinds (bounds are positive
numbers, owners are users), and the values that stand for "nothing" (`None`,
`NoResult`, `Absent`) are none of the things they stand in for
(`NoneAssumption`, `ResultAssumption`, `SentinelAssumption`, `AbsentAssumption`);
and the key of an upload without a digest is never that of a content-addressed
one (`NamesAssumption`; `uploads.go` gives them keys of different shapes).
Nothing is assumed of the engine, of the order of messages, or of time.

**Only model-checked:** the liveness properties `EventuallySettled`,
`EventuallyDone`, `PassesEnd`, `Converges` and `NothingOutlivesItsPool` (fairness
is out of the prover's reach), and the four refutations. Every invariant, action
property and refinement of a passing run is also a theorem.

## 6. Not modelled

What makes a request valid in detail, and the signing and expiry of URLs but for
a download that fails (stateless); metrics extraction; the portal's pages, mail
and auth library; configuration; the bytes of an upload (the SDK hashes a file
and then reads it again, `storage.py:276`; a digest is the upload's here).
Two operators at once (the manager runs with leader election and one replica),
and two Reapers at once: a rolling update of the apiserver overlaps two of them
for a moment, whose sweeps exclude each other row by row as a sweep and a finish
do. `created_at` is taken to grow from insert to insert: a clock that steps back
between two inserts changes the order of a listing. An engine that never returns
(`engine.py:35`) is excluded by fairness, and others delete
the ScaledObject but do not edit it (`runnerpool_controller.go:256`); its
deletion is one step, so that KEDA's finalizer, and an update that meets an object
waiting for it (`runnerpool_controller.go:247`), are left out. A reconcile that
for ever loses its conflicts to KEDA is excluded by fairness. Durations (lease 90 s,
heartbeat 30 s, tick 15 s) are abstracted to "may expire at any time", which
covers every configuration. The finishing of one row under two batches cannot
happen (a row has one batch), so batches are modelled one at a time; the sweep's
locks on the rows of several batches are therefore not.

## 7. Plan

Done: every module of section 2 with its runs and proofs. Next, in this order:

1. An abstract result store that `ResultCache` implements and `ResultReads`
   reads, as `BatchRows` is for the rollup, so that the Runner's tail is modelled
   once for both.
2. Heartbeat and lease periods as clocks: when a healthy run is never reaped.
3. The locks of a sweep over several batches.
