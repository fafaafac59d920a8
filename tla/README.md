# Verification of seedance-console

TLA+ models of the task pipeline of this repository: modules translated from the
source, TLC configurations that check them on small instances, and TLAPS proofs
for every value of the constants. Paths are relative to the repository root;
`PROJECT.json` maps every definition to the lines it models.

## 1. The system

A local console makes videos with an external Provider. A browser uploads a reference
to the **API** and posts a task; the row goes to the database and a job to Redis
(BullMQ). The
**worker** takes the task through three phases, one job type each: submit (publish
the reference image on EOS, create the Provider's task through the **bridge**),
poll (until the Provider has ended), download (store the video). The bridge is a
small Python HTTP server around the Provider's SDK; it remembers which
`clientRequestId` has been sent. An operator's script resolves submissions whose
outcome nobody knows.

### Components

| Component | State it keeps | Operations | Talks to |
|---|---|---|---|
| Task store (`apps/worker/src/task-store.ts`) | the `VideoTask` row, `ProviderSubmission`, `PublishedProviderAsset`, `VideoOutput`, usage | conditional updates (`updateMany` with a predicate), some in a transaction with a second row | called by the three processors, the coordinator, the cleanup timer |
| Submit processor (`task-processor.ts`) | one job per slot | load, claim, publish, record, create, recover, accept, fail, clean up | store, EOS, bridge, queue |
| Poll processor (`task-processor.ts`) | one job per slot: version, claim, answer | claim with a lease, query, write the result, schedule the next job | store, bridge, queue |
| Download processor (`download-processor.ts`) | one job per slot; the file under the task's key | claim, look for a file to take over, fetch, rename, record, retry or stop | store, bridge, storage, queue |
| Queue, scheduler, coordinator (`index.ts`, `job-scheduler.ts`, `poll-coordinator.ts`) | jobs with deterministic ids | deliver, redeliver stalled jobs, enqueue what the database shows as due | Redis, store |
| API, tasks (`apps/api/src/mvp-routes.ts`) | one run of the handler per request | post (first and repeated), read, cancel | database, queue |
| API, assets (`apps/api/src/mvp-routes.ts`, `packages/storage`) | the `Asset` row and its file | upload, check of a task's references, serving under a signed URL | database, storage |
| Asset publishers and cleanup (`packages/storage/src/*asset-publisher.ts`, `task-processor.ts`, `index.ts`) | objects on EOS, `PublishedProviderAsset` | inspect, upload, verify, record, discard; delete by a processor or the timer | storage, EOS, store |
| Configuration (`packages/config/src/index.ts`, `apps/*/src/index.ts`) | the environment, read once | acceptance, publisher, delays, leases, lifetimes | all processes |
| Web console (`apps/web/src/app/page.tsx`) | the task on the page, the button, `lastTaskId` in localStorage | create, load every second and a half, reload, follow a link | API |
| Reconciliation script (`apps/worker/scripts/reconcile-submission.mts`) | none of its own | bind, confirm-not-created, force-cleanup | bridge registry, store, EOS |
| Bridge registry and handlers (`registry.py`, `app.py`) | one SQLite row per `clientRequestId` | create, recover, reconcile | SDK runtime |
| SDK runtime (`sdk_runtime.py`) | one SDK client, `requests.get`, one lock | create_task, query_task, download_output | the Provider |
| Bridge client and adapter (`packages/seedance-provider`) | none | classification of replies and errors | bridge |
| Local storage (`packages/storage/src/index.ts`) | files | put atomically, inspect, delete | disk |

### What is hard in it

* Between any two awaits of a job the other slot, the cancel route, the
  coordinator, the timer or the operator may write the same row; the only guard is
  the predicate of the next update (status, identifier, version, lease).
* BullMQ redelivers: a job that looks stalled runs twice, a process that dies
  leaves its job to the next one, and Redis may lose jobs.
* A create must not be sent twice and cannot be asked about reliably: every failure
  after sending leaves "unknown" as the only honest verdict, and the reference
  object must not be deleted while the Provider may still read it.
* Leases are taken at `startedAt` and compared with other slots' clocks; a slot may
  outlive its lease. The row is protected from it, the file on disk is not.
* Bridge threads share functions they replace in place (monkey patches), read
  before the lock and restored after it.
* Requests with one `clientRequestId` overlap and are repeated after failures at any
  statement; the lookup, the insert and the enqueue are three steps.
* A reference is read three times, by its upload, by the inspection and by the upload
  to EOS; the disk may change it in between. Two cleanups of one object overlap, and
  the timer takes batches in no stated order.
* The page's loads overtake each other, and it may be left or reloaded while the
  handler goes on.

### What makes each component correct

* Store, poll and download processors: at most one outstanding claim can write; a
  late result changes nothing; finished rows stay; usage is recorded once; the
  row's end is the Provider's end; the output row and `SUCCEEDED` appear together.
* Coordinator: what it finds, a slot can claim; polling and downloading end.
* Submit processor, script and cleanup: one create per task; a task is written off
  only when the Provider has none and nobody can still make one; the object is
  kept as long as the Provider has a task.
* Bridge: one call per `clientRequestId`; all answers for it agree and are true.
* SDK runtime: a verdict is that of the request's own call; nobody waits for ever.
* API: one task per `clientRequestId`, replies that agree, at most one of them "new";
  what was answered has been enqueued; asking for a task gets it started.
* Assets: what passes the upload passes the publication; the Provider gets the bytes
  that the upload stored; a deletion that is recorded is true; what is released is deleted;
  a URL outlives the request it is for.
* Configuration: delays are positive, a lease covers the calls made under it, a
  heartbeat survives a missed write.
* Console: the button comes back; the end of the task on the page is shown.

`PROJECT.json` lists under "hazards" where each of these can go wrong, at its line,
and which property would show it.

## 2. Modules

| Module | Models | Notes |
|---|---|---|
| `TaskLifecycle` | the abstract promise: which transitions `status`, `providerTaskId` and the cleanup gate may make together | refined by `Submission` (whole specification), `Polling` and `Download` (step by step) |
| `TaskStore` | the task row: every predicate (`...Where`, `...Readable`) and every update as a pure operator | extended by the three phases; no variables |
| `Submission` | phase 1 with the job, the object, the cleanup, the cancel route and the operator | composes `Bridge` (`INSTANCE`) and implements it; threads and worker slots interleave |
| `Polling` | phase 2 with queue, coordinator, cancel and the Provider's progress | has a clock |
| `Download` | phase 3 with queue, coordinator, cancel, the file and the output row | has a clock |
| `Bridge` | the registry row of one `clientRequestId`, its handler threads, restarts, the operator's endpoint | |
| `CreateOutcome` | one create in `sdk_runtime.py`: what the SDK ran into, the code raised, the reply built from it | extended by `Bridge`; pure |
| `BridgeClient` | the replies of `app.py` and the errors `bridge-client.ts` makes of them, which may be retried, which prove that nothing was created | extended by `Submission`, `Polling` and `Download`; pure |
| `BridgeRuntime` | the closures over `send` and `requests.get` and the lock | |
| `TaskService` | the abstract promise of the task routes: one task per `clientRequestId` | refined by `TaskApi`, extended by `Console` |
| `TaskApi` | the handler of POST /api/tasks step by step, several requests at a time, with the queue and the worker that takes the job | |
| `Console` | one tab of the web console | on top of `TaskService`, so on any handler that implements it |
| `AssetRules` | what uploads, tasks, publishers and the asset route accept; lifetimes of signed URLs | pure |
| `Assets` | upload, publication and cleanup over several tasks, with the disk and EOS | extends `AssetRules` |
| `Settings` | the environments the processes accept; the publisher, delays, leases and lifetimes made of them | pure; gives `MCPolling` its delays |
| `MC*` | instances for TLC | |
| `*_proofs` (of `Polling` and `Download`, each with its part of `TaskStore`, `Submission`, `Bridge` with `CreateOutcome`, `BridgeRuntime`, `TaskApi`, `Console` with `TaskService`, `Assets` with `AssetRules` and `Settings`) | theorems and proofs | |

### State and code

* **Row.** `TaskRow` has the columns some predicate or update decides by. `Never`
  stands for SQL NULL in a time column, `NoId` in `providerTaskId`. A `...Where`
  operator is the `where` of an `updateMany`; its update is applied only where the
  predicate holds, which is what the database does atomically. A transaction over two
  tables is one action. A read followed by an update in separate statements
  (`claimPoll`, `claimDownload`) is two actions.
* **Slots.** `slot[w].step` says at which await the job stands. `owner` says whether
  BullMQ still counts the job as this slot's: a stalled job is handed to the other
  slot while the first runs on with `owner = FALSE`. `startedAt` is the `new Date()`
  at the start of a job, which the code uses for the claim and the lease.
* **Jobs.** A job id is fixed by task and version, so the queue is a set of versions
  and adding an existing one does nothing. In `Submission` there is one job per task;
  a failed job keeps its id, so adding it again does nothing, until a hundred jobs have
  failed after it (`removeOnFail: 100`) and it is evicted (`Evict`). Jobs of the other
  two kinds go at once when they fail (`removeOnFail: true`). `TaskApi` calls a job
  "lost" that was in the queue and went undone; to the handler it is like "none".
* **Faults.** `Abort`/`Crash` (the process dies, or a database call outside a `try`
  throws), `Stall`, `LoseJob` (in every module with a queue), `WriteFails`/`JobFails`/`StepFails`/`SnapshotWriteFails`
  (database errors, at the places the code treats differently), `Timeout`,
  `BridgeRestarts`, `SpoilFile`, an enqueue that is refused (`ScheduleJob`, `Init`).
* **Bridge.** A statement under the registry's lock is one action. `mark_not_created`
  takes the lock twice and is two actions. The generic `except` that follows an
  accepted create is `AcceptFails`.
* **Errors.** A create's verdict passes four places: the exception or answer the SDK
  sees (`SdkOutcome`), the code `create_task` raises (`CreateCode`), the reply of the
  handler (`CreateReplies`) and the client's error with `isConfirmedNotCreatedError`
  (`ErrorOf`, `ConfirmedNotCreated`). `Bridge` takes any outcome and lets the Provider
  do what is possible with it (`After`); `Submission` acts on the client's verdict.
  That an answer other than 200 and below 500 turns the create down is the one thing
  assumed of the Provider; the code assumes it in the same place. Of the SDK it is assumed
  that it calls `send` once for a create, whatever it then makes of the result. Errors of
  queries and downloads decide in `Polling` and `Download` whether to try again.
* **Runtime.** A patched function is the sequence of requests whose closures wrap the
  original, outermost first. `ReadSend`/`ReadGet` read it before the lock,
  `PatchSend`/`PatchGet` replace it under the lock.
* **File.** In `Download` a file is absent, damaged (what `validateMp4Candidate`
  rejects) or one of `Contents`. `putAtomic` renames a validated candidate into place.
* **Requests.** In `TaskApi` a request stands before one of its statements: `find`,
  `create`, `enqueue`, `read`. A task is named by the request that created it and a
  `clientRequestId` by the request that first used it, so `Requests` serves for all
  three. `Fail` is a statement that throws, `ApiDies` takes all open requests, and
  `Interrupted` is a submit job whose processor throws (BullMQ keeps the failed job)
  or whose worker dies. `SeenOutside` hides the steps: it is the refinement mapping.
* **Assets.** `file[a]` and `row[a]` are the two halves of an asset, `object[t]` and
  `record[t]` those of a published one; each task draws a key of its own. A file is
  what the checks see of it: a checksum, a size, the type its first bytes tell,
  ffprobe's verdict. `Received` is what comes through of one that is sent: the multipart
  parser cuts a video off at its limit (`Streamed`), as any file of that size. `Attempt` is a call that works, `Breaks` one that fails before or
  after it did its work. `Damage` is the disk, once per file. `Undeletable` are tasks
  published under a bucket or prefix the configuration no longer names.
* **Page.** `loads` are the GETs on their way with the status read for each,
  `pending` the POSTs whose answer may still come; a page that is left drops its timer
  but not its requests. `Ghost` is a remembered id the database no longer has.
* **Environment.** Times are milliseconds, 0 is a variable that is not set, the jitter
  ratio is in thousandths, and a jittered delay is any of the interval it is drawn from.

## 3. Runs

Passing runs (`tlc -config <cfg> <module>`):

| Run | Shows | Bounds |
|---|---|---|
| `Polling` | Two slots under crashes, stalls, lost jobs, database errors and cancels: the inductive invariant, one valid claim, usage once, ends match the Provider, what the coordinator finds is claimable, results need the latest lease, lifecycle steps; polling ends | 2 slots, lease 2, delays 1 and 2 (those of an accepted environment), duration 4, faults until 3, clock to 8 |
| `Bridge` | One call to the Provider per `clientRequestId`, true replies, agreeing answers, over repeated creates, restarts and reconciliations | 3 threads, 2 identifiers, statuses 200, 400, 499, 500 |
| `BridgeRuntime` | One request is inside the SDK at a time, with its own closure outermost; exceptions are judged by the request's own outcome; a wrong "not created" was wrapped by another create, and a download breaks exactly for having read another's closure; no request waits for ever for the lock | 2 creates, 2 downloads |
| `Submission` | One create per task, the two rows agree, "not created" is true, the object is kept, the whole is an implementation of `TaskLifecycle`, a submission under way is settled | 2 slots, 2 identifiers, 4 statuses, 2 faults of 4 kinds |
| `Download` | One valid claim, bounded attempts, claimable pending rows, lifecycle steps (a finished row and its output stay), the recorded file changes only by the disk or a slot past its lease; downloading ends | 2 slots, 2 contents, lease 2, 2 attempts, duration 3, faults until 4, clock to 7 |
| `TaskApi` | One task per `clientRequestId`, agreeing replies, enqueued before answered, the handler implements `TaskService`; a task that is asked for is started, though its job was lost or evicted before | 3 requests, stages QUEUED, SUBMITTING, CANCELLED, 1 fault |
| `Console` | What the page shows of a task is a status it has or had, an end is its end, whatever answers overtook each other; what it remembers was acknowledged; the button comes back; an end is shown | 2 requests, 4 stages, 2 loads at a time, a remembered id that is gone |
| `Assets` | What is handed to the Provider is what the upload stored and is recorded, deletions are true, no stray object without a failure; a released object is deleted | 1 upload of 4 kinds (one is longer than the limits), 3 tasks (1 undeletable), 2 cleaners, batches of 2, 1 slot, 1 fault, the file damaged once |

Runs that find a disagreement with the repository's own documents:

| Run | What the code does | Where |
|---|---|---|
| `BridgeMapping` | a client that is gone when its reply is written makes the bridge overwrite an accepted mapping with OUTCOME_UNKNOWN and no identifier | `app.py:253`, `registry.py:191` |
| `BridgeRuntimeVerdict` | a create that succeeded is answered "not created": another request's rejection was noted in its diagnostic between unlock and classification | `sdk_runtime.py:116,136` |
| `SubmissionConfirm` | the script writes a task off although the bridge answered `updated: false` because it has an accepted mapping | `reconcile-submission.mts:330` |
| `DownloadLate` | a slot past its lease replaces or deletes the file of a task another slot has completed | `download-processor.ts:213` |

In `SubmissionConfirm` the operator confirms while a create is still under way
(`OperatorWaits = FALSE`); in the passing run he waits for it to end. Neither the
script nor any other code asks that of him or checks it: `OperatorWaits` is an assumption
about the operator. `BridgeRuntimeVerdict` needs two creates. How far
each disagreement reaches is proved: `MappingsAreOnlyForgotten`,
`WrongVerdictsNeedAWrapper`, `ConfirmationsAreHeeded` and `PunctualSlotsServe` (section 4)
say that nothing else leads to it.

Met while modelling, and recorded here without a run:

* `TASK_STATE_MACHINE.md:78` says a task under way is cancelled only after the
  Provider confirms; the cancel route (`mvp-routes.ts:366`) sets CANCELLED at once.
  `EndMatchesRemote` therefore speaks of CANCELLED only with an open cleanup gate.
* `POLLING_SCHEDULING.md:58` says the local deadline ends in EXPIRED; the code
  (`task-store.ts:820`) and `TASK_STATE_MACHINE.md:42` say RECONCILIATION_REQUIRED.
  The script then refuses the task, because its `providerTaskId` is set
  (`reconcile-submission.mts:302`).
* `TASK_STATE_MACHINE.md:20` says a download that has used up its retries ends in FAILED.
  The code (`stopDownload`, `task-store.ts:1106`) and `DOWNLOAD_SAFETY.md:79` leave the task
  PROCESSING, with an error code and no next download; so does `StopDownload`.
* `POLLING_SCHEDULING.md:57` lists the errors that stop polling; a database error while
  a snapshot is stored stops it too (`task-processor.ts:182`, `SnapshotWriteFails`).
* `PROVIDER_BRIDGE_CONTRACT.md:238` says any non-200 create is kept as unknown; a status
  below 500 is answered as not created (`sdk_runtime.py:137`).
* The same document, line 235, and a test (`bridge-client.test.ts:107`) take a 401 for
  an authentication error. The bridge answers 401 for operation HEALTH (`app.py:400`),
  and the client compares the operation first, so every other call sees a protocol
  error: a create refused for its token counts as unknown, not as never created.
* `POLLING_SCHEDULING.md:57` and `DOWNLOAD_SAFETY.md:77` stop on protocol errors and on
  invalid output. The bridge answers both with 502 and retry NEVER (`app.py:341`,
  `app.py:380`); the client does not read `retry` and takes any 5xx for transient
  (`bridge-client.ts:348`), so polling goes on to its deadline and the download is tried again.
* `ARCHITECTURE.md:57` and `:86` let a coordinator enqueue what Redis did not take. Its
  queries (`poll-coordinator.ts:17`) find PROCESSING tasks and downloads, never QUEUED.
  A submit job that Redis loses, or that fails and is evicted, leaves an acknowledged
  task QUEUED for good, unless its POST is repeated; and that is ignored as long as the
  queue keeps the failed job under its id (`mvp-routes.ts:318`). `AskedForIsStarted`
  therefore promises a start to a request under way, not to a task that was
  acknowledged, and excepts one whose job the queue keeps as failed.
* Two overlapping downloads may leave `requests.get` patched by a closure of one that
  is over (`sdk_runtime.py:353`), for everything else in the bridge's process that uses it.
  Of downloads it spoils only those that read it so (`DownloadsBreakOnlyIfWrapped`).
* `ASSET_PUBLISHING.md:129` opens the cleanup gate at once when the Provider has refused.
  If the task was cancelled meanwhile, `markSubmissionFailed` finds no row to update
  (`task-store.ts:448`) and the gate stays closed: the second half of `End` in `Assets`.
* A repeated `clientRequestId` with another body gets the old task (`mvp-routes.ts:215`).
* `MOCK_E2E_ACCEPTANCE.md:60` restores the latest task on a refresh. On `/?task=X` the page
  restores X (`page.tsx:97`), also after another task was created there. A load that
  is late may replace the task just created on the page, and a late 404 clears
  `lastTaskId` whatever is remembered by then; `ConsoleInv` therefore lets the page show
  any status the task had before, except that an end shown is its end.
* The page stops loading at RECONCILIATION_REQUIRED (`page.tsx:106`), although the
  operator may still bring the task on; `EndIsShown` excepts it.
* With as many undeletable objects as the batch limit, the timer may take those for
  ever (`task-store.ts:515` states no order). `ReleasedIsDeleted` holds in the run
  because the limit is larger; with `Limit = 1` it does not.
* A row of an asset that is committed but reported as failed loses its file
  (`mvp-routes.ts:132`), and a PutObject that fails after storing leaves an object no
  row knows of: `NoStrays` is stated up to failures.
* The upload does not look at an image's bytes and takes WebP and any size up to the
  multipart limit; the worker refuses those. `UploadedImagesArePublishableIf` gives the
  exact condition. For videos there is no such gap: what came through can be published.
* What came through need not be what was sent. With `APP_VIDEO_MAX_BYTES` not below
  `UPLOAD_MAX_BYTES` (the default) a longer video is cut off by the multipart parser
  at the very limit `putAtomic` is given, and the handler does not look at `truncated`
  (`mvp-routes.ts:416`): if ffprobe takes what is left, it is stored and answered with 201.
  `HandedOver` and `ProviderGetsTheUpload` therefore speak of what the upload stored.
* An asset URL is refused while the API's clock is behind the worker's
  (`UrlsAreHonouredWhileAlive`), since its remaining life then exceeds a full one.
* A download whose unusable recorded file cannot be deleted makes four timed
  calls; the lease is sized for three (`LeaseCoversTheDownload` assumes the deletion).
* In `Download`, `Invalidate` never finds an output row to invalidate: the row is only
  written together with SUCCEEDED, after which no slot gets a claim. The action is
  modelled as it is written; its success branch is not reached.

### Why the bounds are enough

* Two slots are what the worker's concurrency gives, and the properties about
  claims are about pairs; `Polling_proofs` removes the bound.
* Lease 2 leaves room for a slot to reach the end of its lease, another to claim the
  same version and ask, and the first to come back with its answer; in `Polling` this
  needs duration 4 (with 3 the second slot finds the deadline passed and never asks).
  The deadline falls inside, at and after a lease; delays 1 and 2 fall before and at
  the lease's end.
* `FaultsUntil` bounds when faults happen in the runs that also check liveness: in
  them every kind of fault occurs, in any number, at every step before that time.
* Two identifiers let a second Provider task be told from the first. Two faults
  allow "a crash, then a stall of the rerun"; three were checked too, with the same
  result.
* Two creates give every nesting of closures around one other request; two downloads
  the wrong restore. `Bridge` has three threads: one that called, one that repeats,
  one that arrives after.
* Two attempts reach the last one, its failure, and the stop.
* Three requests are two that race and one that repeats after both; or two tasks and a
  repetition. One fault is enough to lose an answer or an enqueue at each place, and
  more only stop more requests; `TaskApi_proofs` removes both bounds for safety.
* Three tasks and batches of two let an undeletable object be in every batch and leave
  two others to compete for the rest; two cleaners give the slow and the fast one. The
  two contents that are stored have one size, so that only the checksum tells them apart;
  the third is longer than the limits, and the disk may put it in their place.
* Two loads are one overtaken by another. The four stages of `Console` are one of each
  kind the page tells apart.

None of the passing configurations uses symmetry where it checks liveness; `Bridge`
uses it on threads and identifiers only.

### Fairness

* `Polling`, `Download`: weak fairness of the clock, of each slot's delivery and its
  next step (an awaited call answers or throws by its timeout) and of the
  coordinator's two halves (a timer in `index.ts`). Nothing is assumed of users, the
  Provider or faults. After `FaultsUntil` slots finish within their lease, which the
  code sizes from its own timeouts (`requestTimeoutMs + 1000`, `timeoutMs * 3 + 5000`).
  The clock stops at `MaxTime`, late enough for the deadline to have passed.
* `Submission`: weak fairness of delivery and of the slots' own steps only: no repost,
  no operator, no answer of the bridge is promised. `SubmittingSettles` is stated per
  number of faults: with no further fault, what is under way is decided or handed over.
* `TaskApi`: weak fairness of each request's next statement and of the worker for each
  task. No client repeats, and nothing promises that a task moves on or that a failed job
  is evicted.
* `Console`: weak fairness of the API's answer to each request, of the arrival of an
  answer or an error (fetch settles), of the timer, and of the API's reading the row;
  strong fairness of `Loaded`, since loads may fail again and again but not all of them.
* `Assets`: weak fairness of the timer and of each cleanup's next step; none of uploads
  and tasks.
* `BridgeRuntime`: threads go on; a lock free again and again is given to each that
  waits (strong fairness of the two acquiring steps).

## 4. Theorems

For every set of slots, every set of delays, every lease length, duration and bound
(`PollingAssumption`), every number of attempts and set of contents
(`DownloadAssumption`), every set of threads and identifiers
(`BridgeAssumption`), every set of HTTP statuses (`CreateOutcomeAssumption`), every
number of requests and failures (`TaskApiAssumption`), all limits of sizes
(`AssetRulesAssumption`), any kinds and number of faults of a submission
(`SubmissionAssumption`), any number of uploads, tasks, cleaners and failures over
real files a checksum tells apart (`AssetsAssumption`, `NoRowAssumption`), any sets of
creates and downloads (`BridgeRuntimeAssumption`), and any number of loads and posts of
the page (`ConsoleAssumption`, `TaskServiceAssumption`):

| Theorem | States |
|---|---|
| `Polling_proofs!PollingInvariant` | `Spec => []PollingInv` (type correctness included) |
| `OneClaimIsValid`, `UsageIsRecordedOnce`, `EndsMatchRemote`, `RecoverablePollsAreClaimable` | the safety invariants of the `Polling` run |
| `FinalStaysFinal`, `ResultsNeedTheLease`, `FollowsLifecycle` | its action properties; the last is the step part of the refinement of `TaskLifecycle` |
| `Download_proofs!DownloadInvariant` | `Spec => []DownloadInv` (type correctness included) |
| `OneClaimIsValid`, `AttemptsStayBounded`, `PendingDownloadsAreClaimable` | the safety invariants of the `Download` run |
| `LeaseKeepsTheFile`, `FollowsLifecycle` | its action properties |
| `PunctualSlotsServe` | `Spec /\ []Punctual => []SucceededIsServable`: what `DownloadLate` refutes holds if every job is done with the file before its lease ends and the disk keeps recorded files |
| `Bridge_proofs!BridgeInvariant` | `Spec => []BridgeInv` |
| `VerdictsAgree` | for every outcome of a create, the worker takes the bridge's reply for a proof that nothing was created exactly when the bridge has registered it so |
| `WriteOffIsCertain` | it does so only for outcomes with which the Provider cannot have made a task |
| `TheProviderIsCalledOnce`, `TheRepliesAreTrue`, `TheAnswersAgree` | the safety invariants of the `Bridge` run |
| `MappingsAreOnlyForgotten` | an accepted mapping changes only to OUTCOME_UNKNOWN, by a thread whose accept or reply failed: the one exception to what `BridgeMapping` refutes |
| `Submission_proofs!SubmissionInvariant`, `OneRequestIsSent` | `Spec => []SubmissionInv` (the bridge's invariant included), and one create request per task, whatever the operator does |
| `TheRowsAgree`, `WriteOffsAreTrue`, `TheObjectIsKept` | the other safety invariants of the `Submission` run, for an operator who waits (`OperatorWaits`); `SubmissionConfirm` shows what happens if he does not |
| `Submission_proofs!FollowsLifecycle` | `Spec => LifecycleSpec`: the submit path with the operator implements `TaskLifecycle`, initial state included |
| `ServesAsBridge` | `Spec => B!Spec`: the submit path implements `Bridge`, so the worker, its faults and the script are among the clients and operators the theorems about `Bridge` are for |
| `TasksKeepTheirEnds` | a task's identifier is never taken away or exchanged and its end stays; follows from `TaskLifecycle` alone |
| `TasksAreBoundToTheOnlyOne` | the task a row names is the only one the Provider has for it, and the bridge answers with no other |
| `ConfirmationsAreHeeded` | what `SubmissionConfirm` refutes, for an operator who waits |
| `PollingBeginsFresh` | a task the operator binds has the row acceptSubmission would have left, though the script clears fewer columns: this is the row `Polling` starts from (there due a polling delay after the accept; a bound task's first poll is due at once) |
| `TaskApi_proofs!ApiInvariant`, `TheRepliesAgree` | the invariants of the `TaskApi` run |
| `ApiImplementsService` | `Spec => ServiceSpec`: the whole refinement, initial state and steps |
| `BridgeRuntime_proofs!RuntimeInvariant`, `FailuresAreJudgedByTheirOwn` | the invariants of the `BridgeRuntime` run |
| `WrongVerdictsNeedAWrapper`, `DownloadsBreakOnlyIfWrapped`, `OneRequestIsInside` | what overlapping requests can and cannot spoil: a wrong "not created" needs a second create that took the first one's closure; a download breaks exactly if it took another's; one request at a time is inside the SDK |
| `Console_proofs!ConsoleInvariant`, `ShownEndsAreTrue` | the invariant of the `Console` run, and that an end on the page is the task's end |
| `ConsoleFitsService`, `ServiceRepliesAgree` | the page's steps are the service's or leave it alone; every implementation of `TaskService` keeps `RepliesAgree` |
| `Assets_proofs!AssetsInvariant`, `ProviderGetsTheUpload`, `DeletedIsTrue` | the invariants of the `Assets` run |
| `UploadedVideosArePublishable`, `UploadedImagesArePublishableIf` | what the upload's checks mean for the publisher's, rounding of durations included |
| `AcceptedReferencesFitTheWorker` | a task has at most one reference, which the publisher takes in its role |
| `UrlsOutliveTheCreate`, `UrlsAreHonouredWhileAlive` | the lifetime of signed URLs |
| `ErrorDelaysAreBounded`, `PollDelaysArePositive` | delays after errors and of polling, for every backoff, jitter and retry-after; the second is what `PollingAssumption` asks of `Delays` |
| `HeartbeatOutlivesTwoMisses`, `LeaseCoversTheDownload`, `ReferencesCanBePublished` | the durations and the publisher of an accepted environment |

**The argument for `Polling`.** `OneValidClaim` is not inductive: that two claims do
not both match the row follows from three facts carried along. `ClaimsAreRecorded`: a
claim's version is its job's and not newer than the row's, its lease is
`startedAt + LeaseLength`. `LeaseIsLatest`: while the row can be claimed, no
outstanding claim of its version outlives the row's lease. `LeasesAreDistinct`:
two claims of one version carry different leases, since the second is only
granted at a `startedAt` not before the end of the first. A claim matches only if its lease *is*
the row's, so two matching claims are one. `UsageRecordedOnce` needs
`UsageWithOutput` (usage was written exactly when the row awaits its download, which
no claim can then match). `EndMatchesRemote` needs `AnswersAreFinal`: an ended
answer a slot still holds is what the Provider says, because an ended task stays
ended. Each action has a lemma of its own (`...Keeps`); the row's updates enter
through the field lemmas at the head of `Polling_proofs`.

**The argument for `Download`.** Its claims obey the same three facts (`TheHolder`: a
claim that matches is the only one), with `JobsAreRecent`: a lease is counted from a
reading of the clock, so a lease another slot could be granted after is over. The
attempts are bounded by `AttemptsAreCounted`: while the download is under way the version
is one more than the attempt and each claim of that version carries the row's attempt,
so the comparison in `handleDownloadError` is made with the true number.
`OutputIffSucceeded` follows from the transaction; with it the holder of the lease never
finds a recorded output to invalidate (`InvalidateKeeps`). The file is not under the
lease: `HoldersOrLate` says that a slot which may still touch it holds the row's
lease or has outlived its own, and `LeaseKeepsTheFile` is what remains true of the file.
The steps are of three kinds, each with a lemma: no column changes (`SlotMoves`), a
result is written (`RowIsWritten`), a lease is taken (`TakeLeaseKeeps`).
`PunctualSlotsServe` adds to the invariant that what the holder is about to record is
what is stored (`RecordsTheFile`), which `FileChanges` keeps: only the disk or a late slot
changes a file that is to be recorded, the disk not between check and use. Its premise
`Punctual` is not of the code's making alone; `LeaseCoversTheDownload` says that the
lease covers every call with a timeout and leaves a margin for the rest.

**The argument for `Bridge`.** `BeganOnce`: while there is no row nobody has been to
the Provider, and at most one thread is between its insert and its call, with no
call before it. `RejectionIsCertain`: the codes that lead to "not created" are raised
only for outcomes that leave no task. So at most one call is made and at most one task
exists (`OneTask`).
`ThreadsKnow`: what a thread is about to write down is true, in particular that a
"not created" was the one call and made nothing. The replies and answers follow.
`MappingsAreOnlyForgotten` goes through the writers of the row: with one task an accept
writes what is there, and a "not created" is not under way once a task exists.

**The argument for `BridgeRuntime`.** `HolderIsOutermost`: whoever is between lock and
unlock holds the lock, and the function in use is his closure over what he had read. The
outcome of his call is therefore noted in his own diagnostic, and in those whose closures
he took over. `DiagnosticIsOwn`: until he gives the lock up his diagnostic is his
own outcome, since nobody else sends meanwhile; afterwards only a request that has his
closure among its own (`Wrapped`) can have changed it. An exception is judged before the
unlock, hence `FailuresAreTheirOwn`; a returned answer after it, hence only
`WrongOnlyIfWrapped`. `NotYetWrapped` gives that nobody wraps a request that has not
had the lock.

**The argument for `Submission`.** The bridge's steps keep `BridgeInv` with the worker's
slots as its threads (`BridgeKeeps`). `CreatorIsAlone`: a slot between the claim and the
create is the only one (`OneCreator`; `QueuedIsUntouched` gives it when the claim is
made), nothing was sent before, so the bridge and the Provider know nothing of the task
(`BridgeIsIdle`). Hence one request, one thread that serves it, and always the first
`begin` of its row (`OneThread`). The last point matters: the bridge answers a repeated
create with 409, which `bridge-client.ts:352` turns into a `ProviderRequestError` and
`isConfirmedNotCreatedError` takes for a rejection; only because the worker never repeats
a create is `WriteOffs` true. `FailuresAreCertain` and `VerdictsAreTrue` carry a verdict
from where it is reached to where it is written and acted upon: `NothingComes`, once
true, stays true, since it excludes every slot that could send and every thread that
could still ask. The object is deleted only after such a verdict, and a task exists only
if there is none. Steps that leave the task's rows alone are treated together
(`QuietStep`), and so are those that end its submission (`WriteStep`). For the refinement
of `Bridge`, the worker's create is a request that arrives (`Receive`), the reply it reads
or leaves is a `Close`, and the script's call is one of the operator's, who names only
tasks that exist (`ScriptSends`, from `IdsAreReal`); all other steps leave the bridge alone.

**The argument for `TaskApi`.** `RepliesAgree` speaks of replies, the database of rows.
`RequestsAreTrue` connects them: a request beyond its lookup names a task that exists
under its own key, and its code says 202 exactly for its own task. `KeysAreUnique` is kept
by the unique column, which `Create` meets a second time after `Find` found nothing.
Two good replies to one key then name one task, and two 202s one request.
`NamedAreEnqueued` needs that a job is done with only after its task left QUEUED; that a job
which was lost or evicted counts as enqueued is what "lost" is for. For the
refinement each step is mapped: `Find`, `Enqueue` and the worker's queue steps stutter,
`Read` is `Answer`, a unique violation is `Failed`.

**The argument for `Console`.** What is on its way is kept with what it tells: `LoadFits`
says of each load, and `PostFits` of each answer to a post, that the status it carries is
one the task has or had (`Had`). `Had` is stable under `Moves`: an end is not left, and
QUEUED and SUBMITTING are not come back to. So any order of arrival leaves the page with
such a status. `RepliesFit` ties the answers of the service to the requests of this tab,
each of which has a key of its own. `ServiceRepliesAgree` is about the abstract service
alone: one task exists under a key, because `Create` asks for none.

**The argument for `Assets`.** `HandedOver` follows from the comparison of the fetched
object with the row, if the row stays (`UploadsAreTrue`) and nobody deletes the object
meanwhile: `CleanersFit` says that a cleanup only works where the gate is open,
`RecordsFit` that the gate is closed until the task has ended. `DeletedIsGone` needs that
a cleaner about to mark has nothing left to delete, and that an object is
stored once, before it is recorded.

**Only model-checked.** Every liveness property (`PollingEnds`, `DownloadingEnds`,
`SubmittingSettles`, `RequestsEnd`, `AskedForIsStarted`, `ButtonReturns`,
`EndIsShown`, `ReleasedIsDeleted`): they depend on fairness or ENABLED, which the prover does
not treat. Every safety invariant, action property and refinement of a passing run is a
theorem.

## 5. Not modelled, and why

* Listing, video streaming and the health endpoints read and decide nothing; how often
  the heartbeat is written is in `Settings`.
* Forms, uploads and rendering of the web pages; the history page only lists and links.
* The validation of a task's parameters: a body is refused or is not (`Refuse`).
* ffprobe's output and the bytes of an MP4 or image: a file is what the checks read
  there. The copy ffprobe is given, and temporary files a death leaves behind.
* The schemas of `bridge-contract.ts`: a body fits them or does not. The bridge's own
  environment and its authentication, which reject before any state changes.
* Several tasks in `Submission`, `Polling` and `Download`: rows of different tasks share
  only slots and batch limits; `Assets` and `TaskApi` have several.
* `force-cleanup`, by which the operator deletes one key unconditionally.
* The mock provider, a test double in memory; the scripts `verify-*.mjs`, which drive
  a worker against a real database; migrations.
* In `Bridge` a create is classified by its own outcome; `BridgeRuntime` shows when
  overlapping requests make that untrue.

## 6. Plan

Written in this order, the most important first: `TaskLifecycle` and `TaskStore`;
`Polling` with its proofs; `Bridge` with its proofs; `BridgeRuntime`; `Submission`
over `Bridge`, with its proofs; `Download`; `CreateOutcome` and `BridgeClient`, composed into the
others; `Settings` and its delays in `Polling`; `AssetRules` and `Assets`; `TaskService`
and `TaskApi`; `Console`. All of these exist.

Next, on the model: the three phases in sequence over one row, where the script meets a
task the deadline has stopped; the batches of the coordinator over several tasks.

Next, on the proofs: that `Polling` and `Download` begin where the phase before ends, so that
the three refinements of `TaskLifecycle` make one over a whole task; lemmas that connect
`AssetsInv` with the theorems about `AssetRules`.
