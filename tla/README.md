# Anonify: TLA+ models of its queues, durable runs and shared limits

Anonify takes documents, detects what identifies people in them, lets a person
review the redactions, and exports redacted files. It is a Next.js server in
several processes over PostgreSQL, with long work done in *durable runs*: a
workflow function whose steps are jobs in a queue, each executed at least once
by some worker, retried when it throws, and given to another worker when its
own is lost. Almost everything that is hard about the program is what happens
*between* two database calls of processes that do not know of each other, or
between two turns of one process's event loop. That is what is modelled here;
what a document contains never is.

Paths below are relative to the repository.

## 1. Inventory

### The parts

| Part | State it keeps | Operations | Talks to |
|---|---|---|---|
| Admission queue (`lib/documents/admission.ts`, `batch-config.ts`) | none of its own: a document waits when its row has status `queued`, no `workflowRunId`, and bytes in storage | `admitQueued` (one owner), `admitFairly` (all owners, in turns under a global cap), `admitAfter` (end of a run), `admitStalled` (sweep) | rows of `Document`; starts processing runs |
| Document routes (`app/api/documents/[id]/process`, `retry`, `[id]/route.ts`) | the row | queue a document, queue a failed one again, extend its retention, delete it | admission |
| Processing run (`lib/workflows/process-document.ts`, `ingest.ts`) | its step; the row's status, bytes, metadata | `publishStatus` and the work of four stages, `finish`, `fail`, `admitNext` | admission, storage, external services |
| Recovery (`lib/workflows/recovery.ts`, `start-processing.ts`) | `metadata.recoveries` | find documents at work without a sign of progress, cancel the run, queue the document again or fail it | runner, rows |
| Sweep and scheduler (`lib/workflows/sweep.ts`, `cleanup.ts`, `lib/documents/purge.ts`, `lib/runtime/scheduler.ts`) | an advisory lock, the time of the last sweep | expire, purge, recover documents, recover exports, admit | everything above |
| Expansion (`lib/documents/expand.ts`, `startChildRun`) | children's rows, the batch, the container's metadata | create the batch; for every part: find, remove a half row, check and charge, create, seal, record; mark | admission, quota |
| Quota (`lib/security/usage.ts`, `lib/documents/reserve.ts`) | the day's usage row, `metadata.quotaCharged` | check, charge, mark, reserve an upload | runs, expansion, upload routes |
| Batch export (`app/api/batches/[id]/export`, `lib/workflows/export-batch.ts`, `lib/documents/batch-exports.ts`) | a `BatchExport` row: status, run, one JSON list of documents, a cancel flag | start, stop; plan, waves of documents, settle, finish, fail | runner, export recovery |
| Document export (`app/api/documents/[id]/export`, `lib/workflows/export-document.ts`, `lib/redaction/deliver.ts`, `lib/documents/document-exports.ts`) | a `DocumentExport` row, one `ExportArtifact` row per variant, and its file, report and vault in storage | start, stop; build, seal and store each variant, finish, fail; take a vault | runner, export recovery, browser |
| Collecting an export (`lib/redaction/export-client.ts`) | the export's private key in the browser | ask for every vault, open it, forget the key | document export |
| Export recovery (`lib/workflows/export-recovery.ts`) | `recoveries` on both kinds of export row | find quiet rows, cancel, restart, claim, give up | runner, export rows |
| External services (`lib/services/throttle.ts`, `rate-store*.ts`) | per process a gate: slots, those who wait, the chain for a token, a ceiling; per deployment one lease row per slot | admit, call, answer, retry, release; heartbeat of a lease | detection, OCR, language models |
| Rate limits (`lib/security/rate-limit.ts`, `token-bucket.ts`) | one bucket row per key: tokens and the moment they were counted | spend, defer, prune | routes, external services |
| CPU slots and render threads (`lib/runtime/cpu-slots.ts`, `lib/concurrency.ts`, `lib/documents/pdf/render-pool.ts`, `page-renderer.ts`) | slots and a line of waiters; threads, their sessions, openings and draws | acquire, hand on, open a document, draw a page, crash, time out, stop idle, open anew | runs, exports |
| Recognition threads (`lib/ocr/tesseract-pool.ts`) | threads and jobs | recognize, stop idle | runs |
| Shutdown and health (`lib/runtime/shutdown.ts`, `http-servers.ts`, `lib/health`) | phase, readiness | drain in order within a deadline | servers, scheduler, workers |
| Storage, redaction, formats, detection, assistant, browser client | files, rules, models, pages | bytes, text and I/O | everything |

### Where it is hard

* **Interleaving.** Admissions are made by requests, by the ends of runs, by the
  sweep and (for a container's children) by a step of another run, all on the
  same rows and with no lock: what keeps a document to one run is the condition
  on one `UPDATE` (`admission.ts:184`). Replicas write one bucket row with clocks
  that differ; two pages collect one export.
* **Read, then write.** Several writers write back what they read some calls
  earlier: `process/route.ts:98`, `[id]/route.ts:105`, `batch-exports.ts:339`,
  `expand.ts:613`, `recovery.ts:134`; a render thread is picked before the
  document's first bytes are read, and told to open it after
  (`render-pool.ts:445`).
* **At least once.** A step's write may happen twice, and may happen long after
  the run it belongs to was cancelled: cancelling stops a run before its next
  step and never in the middle of one. A step is repeated from its start, so
  what it has created and charged has to be recognised.
* **Loss.** A worker, a request, a page or the sweep dies between any two calls;
  nothing is undone. What is left must be found again by looking at rows, at
  objects, at leases that expire.
* **Bounds.** Per owner and over all owners, restarts, waves, CPU slots, leases,
  an allowance, a bucket.

What makes each modelled part correct:

* a document, and an export, has one live run; the row knows which;
* limits hold when they are counted alone; no claim, slot or lease is left behind;
* what was lost is found, is still lost when it is dealt with, and is not
  restarted for ever;
* everything handed over is settled in the end, and what is settled stays so;
* what is stored together belongs together, is handed over once, and opens;
* what is created is charged, and charged again only where an attempt was torn
  between its two writes.

`PROJECT.json` lists the hazards one by one with the line each bites at.

## 2. Modules

```
Admission            the queue, its admissions, the processing runs, the document
                     routes, startChildRun, expiry, recovery and the sweep
  AdmissionProofs      types and locals; one live run per document; no claim is
                       left behind
  OneWorker            the abstract queue: reserved, handed over, let go
  AdmissionWork        Admission read as OneWorker (the refinement mapping)
  AdmissionWorkProofs  Admission implements OneWorker (Implements)
Expansion            a message becomes a batch; what it and its parts are charged
  ExpansionProofs      its five properties for all numbers
BatchExport          the export of a batch: both routes, the run, its recovery
  BatchExportProofs    its four safety properties for all numbers
DocumentExport       the export of one document, its vaults and who collects them
  DocumentExportProofs its six safety properties for all numbers
Throttle             calls of an external service: gate, leases, retries
  ThrottleProofs       its three safety properties for all numbers, and the limit counted
TokenBucket          one bucket row and the replicas that share it
  TokenBucketProofs    its promises for all numbers
RenderPool           render threads within the CPU slots of a process
  RenderPoolProofs     its three safety properties for all numbers
MC<module>           small instances of each
```

Six components run beside one another and share little: `Expansion` stands on
`Admission` for the run of a child (`startChildRun` is there), `Throttle` on
`TokenBucket` for the pace. Each is an instance of its own; what one assumes of
another is said below.

### Admission

State. `status`, `runId`, `bytes`, `recoveries`, `life` are the columns of a
document's row that admission looks at (`runId` is `workflowRunId`: null, a
pending claim of an admitter, or a run; `bytes` is whether the upload or the
stored source is there; `life` is `due` once `expiresAt` has passed and `gone`
once the row is purged). `runDoc`, `runPc`, `exec`, `cancelled` are the durable
runs: what each was started on, the step it is at, whether that step waits for a
worker, is executed, or is lost with its worker, and whether it was cancelled.
`adm` holds the locals of every admission in progress (one per request, per
ended run, and the sweep's), `req` those of the request handlers, `sweep` those
of recovery, `child` those of `startChildRun`. `faults` and `retries` are bounds;
`abandoned` and `overlapped` are history, for properties alone.

| Actions | Code |
|---|---|
| `TakeTurn`, `CountOwner`, `CountAll`, `FindWaiting`, `Claim`, `StartRun`/`StartFails`, `RecordRun`, `Unclaim` | one database or runner call each of `admitQueued` and `admitFairly` |
| `BeginStage`, `CompleteStage`, `FailStage`, `BeginEnd`, `CompleteEnd`, `FinishFails`, `AdmitNext`, `RowIsGone` | `processDocument`: the write that publishes a stage, the end of its work, `finish`, `fail`, `admitNext`, and the way every write throws once the row is purged |
| `WorkerDies`, `AdmitNextDies`, `Redeliver` | a worker lost before or after a step's write; its job taken again |
| `ProcessRead`/`ProcessWrite`, `RetryRead`/`RetryWrite`, `ExtendRead`/`ExtendWrite`, `RequestDies` | the routes: what they read, and what they write later with no condition |
| `ChildRead`, `ChildStart`, `ChildRecord` | `startChildRun` |
| `Expire`, `SweepExpired`, `FindLost`, `TakeCandidate`, `SkipMoving`, `CancelLost`/`CancelFails`, `Requeue`, `AdmitStalled`, `EndSweep`, `SweeperDies` | the sweep and recovery, in their order |

Ages are not numbers. A document is `Stalled` when its row claims it is at work
and nothing is going to move it: that is the promise `docs/workflow.md` (section
8) makes of `ANONIFY_STUCK_RUN_MINUTES`, that it is longer than any healthy step
and any wait for a worker. A slow step taken for a lost one appears as a
lost step whose job is taken up again (`Redeliver`) while the sweep is at work.

### OneWorker and AdmissionWork

`OneWorker` is what the queue promises of a document, in one page: somebody
reserves it, hands it to a worker that was never handed anything, and that worker
lets it go before it is reserved again. `AdmissionWork` reads the rows and runs
of `Admission` as that queue: `reserved` are the admissions that are about to
start a run on the document (between the claim and the start), `held` the live
runs on it, `known` every run ever started. `OneWorkerAtATime` is the abstract
specification under this mapping. A cancelled run whose step is still being
executed has let its document go; so has the run of an admission that was lost
between starting and recording it, for nobody wrote down its id.

### Expansion

State. `row` is the message's `Document` row: its status, its run, its error, the
batch it became, and the part of `metadata` that counts (`marked`, the mark of a
finished expansion; `charged`, that of its cost; `recoveries`). `child` is what
each part of the message became: no row, a row without its bytes (`half`), a
sealed document, or a row that says why the part was refused; with the attempt
that created it. `uploads` and `charges` are what the owner's usage row was
increased by. `run` holds the runs, each at a step and a call of it, with what it
has read. `torn` and `overlap` are history: attempts that ended between a charge
and the record of it, and whether the sweep gave the document to another run while
a step of the old one was executed, or had written since the sweep looked.

| Actions | Code |
|---|---|
| `ReadMessage`, `CreateBatch`, `JoinBatch` | `expandContainer` up to its first part, `createBatch` |
| `FindChild`, `RemoveHalf`, `CheckPart`, `RefusePart`, `ClaimPart`, `SealPart`, `RecordPart` | `materialize` and `chargeAndClaim`, a part at a time |
| `MarkExpanded` | `mark`, which writes back the metadata read at first |
| `ReadForCharge`, `ChargeMessage`, `StampCharge`, `EndExtract`, `EndRun` | `extractAndNormalize` with `chargeDocumentUsage`; the ends of the run |
| `CallThrows`, `WorkerDies`, `Redeliver` | a call that fails, a worker lost, before or after any of these |
| `FindLost`, `CancelLost`, `Requeue`, `Retry` | recovery; a person who retries |
| `Reserve`, `ReserveDies` | other uploads of the same owner |

A step is repeated from its start, and knows what an earlier attempt has done by
the rows it finds. `Start` stands for a whole admission. The plan (which parts
there are, which are refused for what they are) is a constant; how a message is
taken apart, and how much each page costs, are not modelled. `reserveDocument`'s
creation of a row is one action with its check of the allowance.

### BatchExport

State. `status`, `runId`, `documents`, `cancelRequested`, `recoveries` are the
row, and `quiet` whether its `updatedAt` is older than
`ANONIFY_STUCK_RUN_MINUTES`; the totals on it are functions of `documents` and are
left out. A run has a
place (`runPc`), the documents of its current wave and of those to come, the
place of each of its steps (0 is the step of the sequence, `d` that of a
document), the list a settling step has read, and whether it was cancelled.
`post`, `stop` and `sweep` are the locals of the routes and of recovery; `strays`
is history, the runs that a sweep started and was lost before it recorded.

| Actions | Code |
|---|---|
| `PostRead`, `PostCreate`, `PostStart`, `PostRecord`, `PostDies` | POST |
| `PlanRead`, `PlanWrite`, `PlanFails` | `runPlan` |
| `BeginWave`, `EndWaves` | the loop of `exportBatch` and its `Promise.all` |
| `StepRead`, `StepMark`, `StepWrite`, `StepThrows` | `runExportDocument`: its checks, the two writes under the row lock, and its failure before or after each |
| `SettleRead`/`SettleWrite`, `FinishRead`, `FailRead`, `FinishWrite`, `SequenceThrows` | `settleRemaining`, `finishExport`, `failExport` |
| `WorkerDies` | a worker lost in any of these steps, before or after its write |
| `StopRead`, `StopFlag`, `StopCancel`, `StopSettleRead`, `StopSettleWrite`, `StopClose`, `StopDies` | DELETE |
| `FindLost`, `NextLost`, `CancelLost`, `CloseLost`, `RestartLost`, `ClaimLost`, `StopSurplus`, `CallFails`, `SweepDies` | `recoverLostExports` |
| `Age` | the time after which a row that nobody writes is older than the cutoff |

The wave's write under `SELECT ... FOR UPDATE` is one action (`Patched`); the
write of `settlePending`, which takes no lock, is two. A lost job is not taken up
again: the runner would do so after hours, when recovery has cancelled the run.

`Stalled` is what the sweep's query asks (`export-recovery.ts:104-116`): a live
status, a run id, an old `updatedAt`. It does not ask whether a run is at work.
Every write of the row makes it young again (`Touched`), and `Age` makes it old
while no run of the export moves and no DELETE holds it: the promise of
`export-recovery.ts:22-23`, that a row changes as a run works and a quiet one has
stopped, which is one about healthy steps, waits for a worker and requests that are
shorter than the configured minutes. The row of a lost run *stays* old until
somebody writes it. So when a sweep is lost after it has started another run
(191) and before it has recorded it (203), and that run has written nothing yet,
the next sweep finds the row again and starts a third. From then on two runs work on
one export. Such a run is one of `strays`; the model has all it does, and so do
the runs of TLC. What is claimed there is less: `OneRunPerExport` is about the runs
that are recorded, and `ReadyIsWhole`, `ReadyIsFinal` and `ExportedOnce` hold as
long as every run is (`Tracked`); `EveryExportSettles` holds in any case.

### DocumentExport

State. One `DocumentExport` row (`status`, `runId`, `cancelRequested`,
`recoveries`, `quiet`); of each variant its `artifact` row and its three objects in
storage, each known by the attempt that wrote it, for every attempt draws a new
value key and what it stores fits nothing of another attempt. Runs, `post`,
`stop` and `sweep` are as above. `key` is the private key in the browser and
`page` the pages that collect the vaults; `handed` is how often each vault was
handed over; `strays` is as above.

| Actions | Code |
|---|---|
| `PostCreate`, `PostStart`, `PostRecord`, `PostDies` | POST |
| `StartRead`/`StartWrite` | `runStart` |
| `VariantRead`, `VariantPut` (file, report, vault), `VariantRow`, `VariantRefused` | `runVariant` with `exportAndStore`: the objects in their order, the row last |
| `Progress` | the progress that `runVariant` writes to the row while it builds and stores |
| `FinishRead`, `FailBegin`, `CloseWrite` | `finishDocumentExport`, `failDocumentExport` |
| `StepThrows`, `WorkerDies` | between any two of these |
| `StopRead`, `StopFlag`, `StopCancel`, `StopClose`, `StopDies` | DELETE |
| `FindLost`, `CancelLost`, `CloseLost`, `RestartLost`, `ClaimLost`, `StopSurplus`, `SweepFails`; `Age` | `recoverLostExports`, the other table; time, as above |
| `PageView`, `PageNext`, `PageDone`, `PageCloses` | `openVaults` |
| `TakeRead`, `TakeClaim`, `TakeGet`, `TakeDrop`, `TakeFails` | `takeVaultEnvelope` |

Objects have fixed names, as in the local and the S3 driver (the third driver adds
a random suffix). A POST that dies before its run is recorded leaves a `queued` row
with no run for ever, so `ExportSettles` speaks of exports with one. A step frozen
for so long that its run is taken for lost, which then wakes up and writes over
the objects of the export that was restarted, is not modelled.

`Stalled` is again the query (`export-recovery.ts:84-95`), and the window is longer
than a batch's: the first step of a run started again does not write a row that is
running already (`Running`), so the row stays old until the first progress of its
variant. Two runs may then store the same objects at once, and of what they leave
there nothing is claimed (`Tracked`): TLC finds an export that is ready with a file of
one attempt and a vault of another. `OverStaysOver` and `ExportSettles` hold in any case.

The deprecated synchronous answer (`export/route.ts:53`) awaits the same run, with a
key of its own that the request makes, and takes the vaults itself, by
`takeVaultEnvelope`: to the run and the rows it is one more page. Only the browser's
key and pages are in the model.

### Throttle

State. Per process the gate: `active`, `waiting`, `chain` (those waiting for a
token, one at a time), `ceiling`, and `down`, that the store failed lately. Per
deployment `lease`, one row per slot. Per call `pc`, its `attempt`, what its
release gives back (`via`) and the slot its statement has `pick`ed. `letting` are
the releases that were sent and not awaited.

| Actions | Code |
|---|---|
| `Enter`, `TokenTaken`, `TakeFails` | `admit`, `awaitToken`, `awaitSharedToken` and `awaitLocalToken` |
| `AcquireSlot`, `GetsSlot`, `Drain`, `ReleaseSlot`, `SetConcurrencyCeiling` (operators of the actions) | the gate's slots |
| `AcquireSees`, `AcquireWrites`, `AcquireFails` | `acquireLease`: what its statement sees of the table, then the row it locks |
| `ReleaseLease`, `ReleaseFails`, `ToldInVain`, `Expire`, `Lapse` | releases on their way or lost, leases that expire, the heartbeat that is late |
| `Answer`, `Retry` | `runThrottled` and `classifyServiceError` |
| `StoreRetried`, `Dies` | `storeDownUntil` has passed; a process is lost with its gate |

How long a token takes is the bucket's business: here a caller at the head of its
chain is let through at some moment. The store is the PostgreSQL one.

### TokenBucket

State. `row`, the bucket's tokens and the moment they were counted at, or no row;
`now`, the slowest clock, from which replicas are ahead by their `Skew`; `asked`,
the moment that each replica's statement carries to the row; `until`, what
Retry-Afters have promised; `spent`, history.

| Actions | Code |
|---|---|
| `Ask` | a process reads its clock and sends its statement |
| `Spend`, `Refuse` | `spendToken` |
| `Defer` | `deferToken` |
| `Prune` | `pruneRateLimits` |

The unit of time is the one in which a token comes back. Pruning is right only
where a row is kept for as long as its bucket takes to fill up, from as low as a
Retry-After has pushed it: that is what `PruneSafe` of the proofs says. The code
does not see to it. Windows may be configured up to a day, and a Retry-After is
taken as it comes, however long (`throttle.ts:129-141`), so that with the defaults
too a longer one than the hour is forgotten with the row. The run and
the theorems about the pace and about Retry-After are about buckets that
are kept long enough; what holds of every bucket is `DropsAtMost` (section 4).

### RenderPool

State. `caller`, where the work on each document is; `draw`, where each draw of a
page is; the semaphore (`inUse`, `line`, `holding`); per session its thread and
its last opening (`at`, `opened`); every opening so far with its state; per thread
what `RenderThread` keeps (`sessions`, `opening`, `queue`, `current`, `idle`).

The process runs on one event loop, so what a promise's settling sets off happens
before the loop takes up anything else: those actions are `Due`, and everything
that `Comes` in its own time (storage's answers, the threads' messages, new work,
crashes and timers) waits until nothing is due (`Quiet`). What is due is taken in any
order, where the code has the order of the promises: more than can happen, not less.

| Actions | Code |
|---|---|
| `TakesSlot`, `OpensDocument`, `LearnsOpened`, `AsksPage`, `ClosesDocument` | the callers: `exportRedacted`, `openPageRenderer`, `mapWithConcurrency` |
| `SendsDraw`, `HearsOpened`, `HearsLost`, `HearsRefused` | `RenderSession.draw` and `redraw`: open it, draw it, open it once more on another thread |
| `SendsDocument`, `ReadFails` | `RenderSession.open` after its first read, `RenderThread.open` |
| `Answers`, `AnswersDraw`, `Crashes`, `StopsIdle` | `RenderThread.receive`, `lost`, `timedOut`, `stop` |

Not modelled: the ranges a thread asks for in the middle of a draw, draining at
shutdown, drawing in the process itself, an analysis that fails between two pages.
A document that is closed while it is opened is still answered.

All modules with faults bound them by a constant. `Admission` and the two exports
take a set `Allows` of what else may happen in an instance, so that each run can
ask its question of exactly the behaviours it is about.

## 3. Runs

| Run | Question | Answer |
|---|---|---|
| AdmissionLost | Two faults, an admission lost between start and record among them: is what the sweep reads as lost still lost when it acts, is no claim left behind, does every document settle, and is all of it the abstract queue? | yes |
| AdmissionRetry | A person retries a failed document, twice: can it get two runs? Can a ready document go back to work? | no, for retries sent one at a time |
| AdmissionAgain | A request is sent again before it is answered, and the retention extended meanwhile: can two admissions start a run, can a run live that the row does not name? | no: the status suffers, the claim does not |
| AdmissionShare | Two owners under a global cap of one: does an admission working alone exceed it? | no |
| AdmissionExpiry | Expiry or deletion at any moment: does every run end? | yes |
| Expansion | A message of three parts beside another upload, a fault anywhere, a slow step taken for lost: is a marked message whole, are its documents paid for, and what is paid twice? | whole and paid; twice is what was torn, and only that |
| BatchExport | Two documents side by side, two faults, a stop: does it end, is one recorded run at work, is a ready export whole and final, a document exported once? | yes; the last two until a sweep leaves a run unrecorded |
| DocumentExport | Two variants, one with a vault, two pages, two faults, a stop: does it end and stay so, does what is stored fit together, is the vault handed over once, is the key kept? | yes; but for the first two, until a sweep leaves a run unrecorded |
| Throttle | Three calls of two processes, limit two, one fault: are slots lost, does anybody wait for nothing, do leases keep the limit, does every call end? | no, no, yes, yes |
| TokenBucket | Two replicas with different clocks: is the pace kept, a Retry-After heeded, a row dropped only when it is full? | yes, of rows kept for as long as their bucket takes to fill up |
| RenderPool | Two threads lost and one stopped, four users of two CPU slots: are slots and threads bounded, does a loss cost one page, is a page drawn where its document is, does the work end? | yes, but for documents reopened, and unless an opening is stranded |
| RenderPoolStrands | Does a lost thread cost the page it was drawing and nothing else, as `render-pool.test.ts:30` says? | **no** |

The answer in bold is a run that expects a violation: a document is sent to a
thread that was lost after it was picked, nobody settles its opening, and the
document waits for ever. `PROJECT.json` has the lines.

### Bounds, and why they are enough

* One or two documents, since what goes wrong goes wrong on *one* row, or in the
  competition of two for a slot. A batch has two, side by side in one wave, where
  two writers meet in one list; a message three parts, one of them refused, so that
  an allowance of two is met by the parts and another upload at once. A batch of two
  has one wave: what comes of several waves, one after the other, is
  checked by no run (three documents, two at a time, are over two million states
  without liveness), and is covered by the theorems of BatchExportProofs, which are about any
  documents and any width.
* `Limit` and `Cap` are 1 so that a second document must wait; `Cpus` is 2 in
  RenderPool, so that a page or the export must wait for a slot, and 1 in
  RenderPoolStrands, where everything hangs on one thread; `Concurrency` is 2 with three
  calls.
* `MaxRuns` is 2 to 4: the first run, its restart, and the one too many; in the
  exports 4, so that a sweep that leaves a run unrecorded is followed by others.
  Where it kept a run from being started, the admission or the sweep that wants
  one could not go on, and TLC would report a deadlock.
* `MaxFaults` is 0 to 2. One fault makes a recovery; the second hits the recovery.
  In `Expansion` a step that is only slow is no fault, and comes on top.
* Two requests or pages where they compete, one elsewhere.
* In `TokenBucket` seven moments: a bucket of two empties, owes, fills up and is
  dropped in them. The proofs cover every other number.
* `Allows` leaves out what would make a property false for a reason stated below
  (section 6), and what would only multiply states: without `astray` nobody stops an
  export, or opens its page, once some run of it is unrecorded, when nothing would
  be claimed of what they find but that it ends. The theorems have no such condition.

Every module has a type invariant; the runs of `Admission` and `TokenBucket` check
it again and again, for the proofs rest on it.

Deadlock is checked where the system must not stop: `Admission`, `BatchExport` and
`DocumentExport` have one way to rest (`AtRest`): everything settled.
Elsewhere it may stop, and the cfg says so. In AdmissionAgain an extension can
leave a document `uploading` with a run recorded, which nothing moves; the time of
`TokenBucket` ends; the calls of `Throttle`, the documents of `RenderPool` and the
bounded runs of `Expansion` come to their end.

### Fairness

`FairSpec` has weak fairness of each process alone, and in `BatchExport` less: of
all that goes on by itself together (`Work`), so that something is done while there
is something to do; no worker has to be fair to any run, and every behaviour of
the finer kind is one of this kind. In the others the steps of a run are taken
up by some worker in the end, a request that was read is answered, the scheduler
sweeps again and again (`lib/runtime/scheduler.ts` ticks for ever), time passes
(`Age`), and in `Admission` a lost job is redelivered. In `Throttle` each call goes on (its token
comes, its poll comes round, its request is answered or times out) and a lease
that is not renewed expires; in `RenderPool` the event loop does not stand still.
No fairness is assumed of a fault, of a person, or of a new request. Nothing is
assumed to be strongly fair: an admission that finds no room returns, and it is
the next end of a run that comes back; a page that is closed collects nothing.

## 4. Proofs

For every value of the constants, checked by TLAPS:

| Theorem | States |
|---|---|
| `TypeCorrect` (AdmissionProofs) | `Spec => []TypeOK` |
| `OneRun`, `Named`, `StartAlone`, `StaysLost` (AdmissionProofs) | `ClaimsOnly => (Spec => []OneRunPerDocument)`, and so on for `RunIsNamed`, `StartsAlone`, `LostStaysLost` |
| `ClaimsHeld` (AdmissionProofs) | `Spec => []ClaimIsHeld` |
| `LimitAlone`, `RetriedAlone` (AdmissionProofs) | `Undisturbed => (Spec => [](faults = 0 => LimitHeldAlone))`, and so for `OneRunPerDocument`, `RunIsNamed` and `StartsAlone` |
| `ReadyKept` (AdmissionProofs) | `Undisturbed => (Spec => [][faults' = 0 => ReadyStep]_vars)`, and `Undisturbed /\ MaxFaults = 0 => (Spec => ReadyStaysReady)` |
| `Implements` (AdmissionWorkProofs) | `ClaimsOnly => (Spec => OneWorkerAtATime)` |
| `Typing`, `DropsAtMost` (TokenBucketProofs) | `Spec => []TypeOK`; and that a row is dropped with `LeftWhenDropped` in its bucket at least, whatever `PruneAge` |
| `NeverFaster`, `HoldsBack` (TokenBucketProofs) | `PruneSafe => (Spec => []Paced)`, `PruneSafe => (Spec => HeldBack)` |
| `Typing`, `MarkedIsWhole`, `UploadsPaid`, `CostPaid`, `Exceeded`, `SealedKept` (ExpansionProofs) | `Spec => []TypeOK`, and so on for `WholeWhenMarked`, `PaidPerDocument`, `ChargedOnce`, `WithinAllowance`, `SealedStays` |
| `Typing`, `OneRun`, `ReadyWhole`, `ReadyFinal`, `OnceExported` (BatchExportProofs) | `Spec => []TypeOK`, and so on for `OneRunPerExport`, `ReadyIsWhole`; `Spec => ReadyIsFinal`, `Spec => ExportedOnce` |
| `Typing`, `ReadyWhole`, `HandedOnce`, `VaultFits`, `KeyKept`, `StopSoon`, `OneRunMoves`, `OverStays` (DocumentExportProofs) | `Spec => []TypeOK`, and so on for `ReadyIsWhole`, `HandedOverOnce`, `VaultFitsFile`, `KeyIsKept`, `StopsSoon`, and that of the recorded runs one moves; `Spec => OverStaysOver` |
| `Typing`, `SlotsHeld`, `NobodyWaits`, `LimitKept`, `LimitInNumbers`, `WaitersWoken` (ThrottleProofs) | `Spec => []TypeOK`, and so on for `SlotsAreHeld`, `NobodyWaitsForNothing`, `ClusterKeepsLimit`, `WithinLimit`, `WaitsForSlot` |
| `Typing`, `SlotsAndThreadsBounded`, `LossCostsAPage`, `DrawsWhatItHas`, `PinnedToOneThread` (RenderPoolProofs) | `Spec => []TypeOK`, and so on for `WithinCpus`, `CostsOnePage`, `DrawnWhereOpen`, and that a document neither closed nor reopened is on one running thread at most |

Assumed are the named assumptions of the modules only: finitely many documents,
numbered in the order they were created, processes told apart, clocks that differ
by at most `MaxSkew`, finitely many uploaders and calls, a limit of one at least.

**Types of Admission.** `TypeOK` is not inductive: an admission hands its locals
from one action to the next, so `TypeInv` adds `Locals`, that the locals of a
process fit the place it is at, that a process does one thing at a time, and that
the sweep has a document once.

**One run.** `OneRunPerDocument` needs more. An admission starts a run on what it
claimed some calls earlier, so its claim must still keep every other admission out
(`StartsAlone`); a claim is made of a row with no run id, so no live run may be
behind such a row (`RunIsNamed`: a live run is the one its row names, or the one
the holder of the claim is about to record); and recovery gives rows back, so
what it read must still be lost when it writes (`LostStaysLost`: a claim it read
is in nobody's hands, and a run it has cancelled writes no more). The four
together with `TypeInv` are the inductive invariant `OneRunInv`. The proof goes
by what a step may do to rows and runs: most steps are quiet (`QuietStep`), a
claim, a start, a release and a requeue each have a lemma.

`ClaimsOnly` says that the instance has neither retries nor a container's
children, since both take rows over without a claim. With children the property
is false (section 6). With retries sent one at a time it holds until the first
fault (`RetriedAlone`, below).

`Live` leaves out the run of an admission that was lost between starting it and
recording it (`abandoned`): recovery gives such a document a second run, since
nobody wrote down the id of the first. The theorem is about every other run.

**The limits.** The counts are of rows with a run id and a status of work, and a
run writes the status of its row without asking. So that an admission alone keeps
the limits needs first that a row tells whether somebody is at work on its document:
`RowsInv` says that a row is at work exactly when the run it names, or the admission
that holds its claim, still has it to write; that a document about to be queued is
still an upload, and one on an admission's list no longer is; and that there is
nothing for recovery to do. Then only a claim adds to the counts, and `CountsInv`
says of an admission, from its count on, that what it means to claim fits beside
what is in flight: the room it found, then the documents left on its list (a list
of the `n` oldest is shown to have at most `n`). It rests on `OneRunInv` and
`ClaimIsHeld` too.

**Retries.** A retry clears the row's run id without asking who is at work, so it
is safe only if nobody is. `OverInv` says that a document that is ready, or that a
retry has read and not yet queued again, is in nobody's hands (`Over`: its row names
a run, none of its runs has the row to write still, no admission is about to start
one), and that one a process request has read is on nobody's list (`Untouched`). With
`OneRunInv` and `RowsInv`, which it needs and which need it, it gives three things
for systems with retries: one live run (`RetriedAlone`), the limits (`LimitAlone`),
and that a ready document is never put back to work (`ReadyKept`). TLC checked the
combined invariant, `LimitInv`, on instances with retries before it was proved.

`Undisturbed` leaves out what puts a row back to work unasked: with resent requests,
an extension or a container's children TLC finds the limit exceeded. The
theorems end with the first fault, for two reasons. An admission that dies between
start and record leaves a run that may be taken up again once its document was
failed. And a run whose worker dies after it wrote `failed` has that step redelivered
later; a retry in between gives the document a second live run. Without retries
one live run is proved through every fault (`OneRun`).

**The refinement.** From `OneRunInv` (and `LostRan`, that a run somebody lost sight
of did start) every step of `Admission` is one of five to the abstract queue: a
claim reserves (`Reserve`: nobody else has, and no live run is there), a failed or
lost admission withdraws, a start hands over, a run that ends, is cancelled or is
abandoned lets go, and everything else is a stutter. Initial states map to initial
states; the bare next-state relations are composed by PTL.

**The bucket.** `Paced` counts over stretches of time, so the induction needs to
know what the row still owes: `RowPaced` (a stretch that ends at the row's stamp
has let through what it may, less what the row holds), `Quiet` (nothing was let
through after the stamp), `Held` (while a Retry-After has not passed, the balance
lacks that long to a token) and, for a row that was dropped, `AbsentPaced`. All of
them with `TypeOK` and `Recent` (no statement is older than `MaxDelay`, no stamp
ahead of the fastest clock) are `BucketInv`. `PruneSafe`,
`Burst - Lowest + MaxSkew + MaxDelay <= PruneAge + 1`, is needed: without it TLC
finds a row that is dropped while it still owes (section 6). `Typing` and
`DropsAtMost` do without: a row that is dropped was not written for the age of
pruning by one clock, so by any clock at least that age less the largest difference has
come back to a balance that was never below `Lowest`. The burst less that is what
pruning gives away at most, and it is nothing where `PruneSafe` holds: that is
`DroppedWhenFull`, which only a run states.

**The expansion.** All six theorems come from one invariant, `ExpansionInv`, in two
parts. `Always` holds whoever is at work: the types, that an attempt is at a call of
its own step (`Fits`), that recovery has cancelled the run before it gives the
document back (`Silenced`), that a child still named after an attempt that has not
recorded its bytes has none (`OwnIsHalf`; a child another attempt has removed and
made again bears the other's name), and that no document is uncharged.
`ByOneRun` holds until the document was given to a second run while a step of the
first was executed (`overlap`): only the run the row names is at work, and only while
the row is (`Alone`); what it read is still so (`Knows`); the parts before the
one it is at are made, and the one it is at is as its call needs it (`KnowsParts`);
the rows fit one another (`RowsFit`); and the three accounts are even. Of these,
`Covered` says why the allowance is exceeded by no more than the others: who has
passed the check and has not charged yet is counted as if it had. `Alone` needs
recovery's part: it gives a document back only from a run that is cancelled, which
begins no other step, and that is executing none unless `overlap` says so.

**The export of a batch.** Two parties write the list of an export from what they
read some calls before: a run that settles it and the DELETE handler. So an
invariant on the row alone is not kept. The invariant of BatchExportProofs, `Full`, has
two layers. `Base` holds whatever happens: the types, that the row of a recorded run
which is at work is not old, unless the sweep has just started that run (`Aging`), and that
what the sweep has read as lost keeps its run id and rests (`Held`), so
that the age, which is all the sweep asks, is enough for the runs that are
recorded to follow one another (`OneRun`). `Inv` holds as long as every run is
(`Tracked`); once one is not, `Tracked` is false for good, and the step that makes
it so owes `Base` alone. Its parts: one run moves (`OneMoves`, `Lost`, `Posted`).
`Flagged`: whoever stops an export has asked it to stop before it reads, unless it
was over. `Listed`: a list is planned as a whole or not at all; a ready one is whole;
and the stale list of a DELETE knows of no exported document that the row has
forgotten (`Covers`), and equals the row once it is ready. `Sound(r, e)`, for the
run that moves: while nobody asked it to stop, the export is going (`Alive`) and
its row says of every document what the run's place says (`Done`); a document whose
step is being worked on is not exported. That a run is at the last of its waves
with nothing pending is what makes `ready` safe; that a DELETE still holding an
older list is not harmful follows from the flag, which the run reads in the step
that decides. No condition on `Allows` is needed, not even on `astray`:
`OneRunPerExport` holds with overlapping requests too, since each creates an export
of its own.

**The export of a document.** The invariant ties a run's place to what it has
stored: the variants before the one it is at, and the pieces of that one, are from
one attempt each (`Built`), nothing is stored once the export is ready
(`Finished`), and a vault on offer has been given to nobody, while whoever clears
its row is alone with it (`Taken`, `Kept`). Again there are two layers: `Base`, with
`Alone` for the runs that are recorded, which holds whatever happens, and `Inv`, with
`OneMoves` for all of them, which holds as long as `Tracked` does.

**The gate.** A gate's number is the cardinality of the calls that go ahead
(`Counted`), every waiting call stands once in its queue (`Queued`), and letting
`n` of them in is shown to add `n` calls. `LimitKept` needs that a release or an
expiry under way is of an attempt that is over (`Released`); `LimitInNumbers`
counts from there: rows map one to one to the requests that hold them.

**The render threads.** `Inv` of RenderPoolProofs has a part for each thing that
could go wrong. `Slots`: whoever works holds a slot, whoever holds or waits is
entitled to, and stands in line once, so that an acquisition adds somebody new and
a release takes somebody away. `ThreadsInv`: every thread started runs, was lost or
was stopped, and nothing is left on one that is idle. `PlacesInv`: a draw that a
thread was asked for is `sent` and stands at one place of one thread, so that an
answer or a loss ends it once. `Refs` and `Waits`: an opening that is waited for is
of the right document and thread. `OpenInv`, for a document that is `Plain`, neither
closed nor reopened: it is on no running thread but its session's (`OnOne`), nor will
be sent to another (`ToOne`); a draw of it waits on the last opening, or on one whose
thread is gone (`OnLast`); and what a thread was asked for it has (`Placed`). That a
loss keeps `OnLast` needs that nothing is due when it happens: a draw that had
been told of its opening, and had not gone on yet, would be sent to another thread.
The operations of the pool keep its own part (`PoolInv`) whatever the draws do, and
are proved first.

`CostsOnePage` and `DrawnWhereOpen` are not as strong as the code's comments have
them (section 6); the proof is how that was seen.

`TypeOK` of the modules other than Admission and TokenBucket is proved and is in
no run.

Only checked by TLC: the leads-to properties (the prover does not do fairness),
and whatever is about children. With retries, what holds after a fault is not
proved: one live run and a ready document that stays so fail there (section 6).

## 5. What is not modelled

* In the parts modelled: ages as numbers, the sweep's lock and budget, what
  extending a retention does to attachments, what a stage computes, the progress
  streams, and what sections 2 names. A stage is the publishing step and the work
  step after it; the steps in between only matter through the row.
* Shutdown: one sequence of hooks under one timer, in one process; its tests drive
  it step by step. The Redis store: its scripts do what the statements modelled do,
  each at once. The recognition threads: the shape of the render threads, without
  documents open on them.
* Storage, redaction, formats, detection, the assistant: text, bytes and I/O
  with no control that a model checker could explore.

## 6. Seen on the way

Behaviours TLC shows with other values of the constants, or that were read off the
code while it was modelled, that no run is kept for.

Admission:

* Cancelling a lost run does not silence the step it is executing
  (`recovery.ts:113`; the comment at 108 says it does): its write lands after the
  document was requeued.
* A child's run may be started twice, by `startChildRun` and by the queue
  (`process-document.ts:309`; the comment at 295 and `docs/workflow.md:195` say
  once).
* Admissions that count before any of them claims exceed the limit by as many
  documents as each has room for, where `admission.ts:142` speaks of one.
* A process request that read the row before the first one's admission claimed
  it queues the document again after its run has ended
  (`process/route.ts:98`), and recovery then gives it a second run (`resend`).
* Extending the retention writes back the status that was read, over the
  `ready` of a run that finished meanwhile (`[id]/route.ts:105`, `extend`).
* Two retries of one failed document that both read it before either writes
  leave it with two live runs (`retry` with `resend`).
* A worker that dies after a run's catch wrote `failed`, and before that step is
  recorded as done, leaves the run to be redelivered; a retry in between
  (`retry/route.ts:103`) starts a second run beside it, and once that one has finished
  the document may go back to work (`retry` with one fault).

Exports:

* A sweep that is lost after it started an export again (`export-recovery.ts:191`)
  and before it recorded the run (203) leaves the row as old as it was, and the next
  sweep starts another run beside it, which nobody stops; lines 17-23 say that to
  start again is safe, "a quiet one has stopped". TLC finds two runs at work
  on one export, and then every property that has `Tracked` in it violated without it: a
  ready export that changes again, a document exported before taken up
  again, a file of one attempt beside the vault of another. Both exports end all
  the same.
* Two POSTs that both find no active export create two (`clicks`).
* A request that dies, or whose `start()` fails, after the export's row is
  created leaves it active with no run: recovery looks at rows with a run only,
  and later requests join it (`orphan` violates `EveryExportSettles`).
* `failExport` closes an export with documents still `pending`.
* `settlePending` writes a list read without the lock over a document exported
  meanwhile, which goes back to skipped (`batch-exports.ts:339`; `route.ts:206` and
  `batch-exports.ts:302` say it is kept).
* The plan step of a run that was stopped writes `running` over `cancelled`
  (`export-batch.ts:154`; the comment at 372 means it not to).
* The export dialog drops vaults it has opened when it is closed while it opens
  the others, though `export-client.ts:200-203` says they are kept.

Charges:

* A part is charged again when an attempt dies between its charge and its bytes
  (`expand.ts:529-532`, where 159-162 and `docs/pipelines.md:975` say it is charged
  exactly when it becomes a document), and may then be refused for the allowance its
  first charge used up. A message's own cost likewise: `usage.ts:271-285` makes two
  writes where `docs/data-model.md:414` says one transaction.
* A crash after the mark `quotaCharged` makes the next attempt skip the stop for an
  exhausted allowance.
* With a slow step that was taken for lost: a half row that the other attempt seals
  meanwhile is removed with its row, children end up in two batches, and the copy of
  the metadata written back undoes marks and counts. The object sealed for a row
  that was removed stays in storage.
* Requests that reserve at once exceed the allowance, by one upload each.

Limits:

* `rate-limit.ts:277` drops rows that were idle for an hour, as if full, though
  `rate-limit-config.ts:108` allows windows of up to a day (the comment at 273-276
  says a dropped row is a full bucket; true of the default windows). A Retry-After
  of more than an hour (`throttle.ts:129-141`, where nothing caps it) is dropped with
  the row that carries it, also with the defaults, and the next request goes
  through as if none had been told. `DropsAtMost` bounds what is given away.
* A call that acquired under the higher limit is not seen by those who count after
  it was lowered (`rate-store-postgres.ts:26-29`).
* A lost thread may cost more than the page it drew (`render-pool.test.ts:30` says
  nothing else): pages that waited while their document was opening are sent again
  once (`render-pool.ts:478`), and when the thread they were sent to dies while the
  document opens on it, all of them fail. `CostsOnePage` does not count them.
* A document may be on two threads at once, though a session is "pinned to a thread"
  (`render-pool.ts:419`): each page that hears of the lost opening detaches the session
  (479) and opens it anew, wherever it was by then, and an earlier page is sent to the
  thread of a later one's opening, which may not have the document yet.
  `DrawnWhereOpen` excepts documents that were reopened. TLC shows both with
  three or four CPUs; with the two of the run, which
  checks liveness too, neither happens. The theorems hold with any number.
* Two draws that wait on the same lost opening open the document twice on the same
  thread, and the first opening is stranded; a document closed while it is opened
  leaves its session in the thread; a new thread whose first read fails has no idle
  timer; the first opening of a document is not tried again.
* `tesseract-pool.ts:18-20` says that a recognition holds no CPU slot; `recognize`
  (98-107) runs in one.

## 7. Plan

1. **Shutdown**: the hooks in order, a second signal, the deadline.
