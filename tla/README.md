# A verification project for Centralize Raw Data

The repository is a customer-data platform: uploads of contacts are queued, normalised and
merged into one contacts table in PostgreSQL, and platforms query, count and export that table
with API keys, through a portal, a widget or by themselves. This directory holds TLA+ modules for
the back end and for its clients in the browser, TLC configurations that check them on small
instances, and TLAPS proofs, for every instance, of the safety properties that the runs check
and of the refinement between the upload path and what its readers rely on.

    tlc -workers 2 -config pipeline_s3.cfg MCIngestPipeline     # any run listed below
    tlapm IngestPipelineProofs.tla                              # any *Proofs module

Source paths below are relative to the repository; the back end is in `src/src` of the checkout
(`src/` for short), the portal in `apps/admin-portal`.

## 1. Inventory

| part | state | operations | interacts with |
|---|---|---|---|
| upload route, `JobService` (`routes/ingest.ts`, `services/JobService.ts`) | multer temp file, `upload_jobs` row, S3 object, queue entry | POST /ingest: store file, insert row, upload, `queue.add` | worker through the queue, the file system and S3 |
| BullMQ queue (library) | entry state, lock, attempts, stall count | fetch, settle, backoff, lock renewal and expiry, stalled check, remove | API and worker processes |
| normaliser worker (`workers/normaliserWorker.ts`) | per slot: rows read, batch, counters, path of the temp file | `processJob` in concurrent slots of one process | queue, `upload_jobs`, `contacts`, files |
| row normalisation (`services/NormaliserService.ts`) | none | phone, email, boolean, tags; turns rows down | worker |
| contacts table (`db/queries/contacts.ts`) | contacts, two unique indexes | `bulkUpsertContacts`, deletions, queries, export cursor | worker, delete and query routes |
| deletion (`routes/delete.ts`) | — | delete a job's contacts, queue entry and row; delete a segment's contacts | queue, worker |
| API keys (`middleware/apiKeyAuth.ts`, `routes/keys.ts`) | `api_keys.active`, Redis entry with a time to live | verify, deactivate and flush | every guarded route |
| export (`routes/export.ts`, `services/ExportService.ts`) | cursor on a pooled connection, CSV stream, response | preflight, stream, fail, disconnect | pool, client |
| query and public routes (`routes/query.ts`, `routes/public.ts`, `services/QueryService.ts`) | none; two statements per page, a cursor in the client's hands | count, rows | contacts, `campaign_history` |
| campaign usage (`services/UsageService.ts`) | `campaign_history` | one INSERT for many contacts | contacts (foreign key, cascade) |
| insights (`db/queries/insights.ts`) | none; fourteen statements per answer | read | contacts, `upload_jobs` |
| rate limiter (`middleware/rateLimiter.ts`) | a counter with an end in Redis | count, turn down | every route with an API key |
| status and job list routes | none | read | `upload_jobs` |
| start and shutdown (`server.ts`, `workerBoot.ts`) | listening socket and its connections, pools | signals | all |
| login and guards (`routes/auth.ts`, `middleware/jwtAuth.ts`) | none (tokens) | sign, verify | portal |
| portal: wizard and job list (`features/upload`, `features/jobs`) | signals, an interval, requests under way | parse, map, POST, poll, refresh, delete | ingest, status, jobs and delete routes |
| portal: session, query page, keys, insights | `sessionStorage`, contacts store, signals | sign in and out, search, page, export, delete, deactivate | auth, query, export, keys, insights routes |
| embed widget (`apps/embed-widget`) | form, count | preview, hand on | public route |

What is hard here, and what each part must guarantee:

* **Upload path.** Two processes, several slots, a queue with locks and retries, files on disk.
  A job has one handler at a time; 'done' means every row is accounted for and the contacts of the
  processed ones are in the table; outcomes are reported and final; temp files go away; deletions
  are final.
* **Contacts table.** SELECT, merge in memory, INSERT, with no transaction around them; two
  unique keys per contact. Batches fail only for a reason, repeat safely, move keys only to where
  they belong, and keep what an upload does not mention.
* **API keys.** A cache next to the database, a revocation in two writes. A revoked key is
  rejected, and stays so.
* **Export.** Three piped streams, a pool, events that race. No data followed by an error
  document, no truncated file reported as completed, no connection kept for ever.
* **Uploads in the browser.** The portal and the server read a file with different parsers and meet
  in a mapping by column name. What was shown is what is stored; one number has one spelling.
* **Reads.** Answers are put together from several statements while the tables change; filters pass
  through five lists of fields. Walks miss nothing, the parts of an answer agree when nothing
  changed, the export holds what was found, limits hold, an orderly shutdown answers who waits.
* **Portal.** Answers in any order, intervals that overlap, pages that are left, sessions that end
  with requests under way. What is shown belongs to what was asked; no button stays disabled.

`PROJECT.json` lists the components with their status and every hazard with its line.

## 2. Modules

| module | models | extends / uses |
|---|---|---|
| `IngestPipeline` | route, JobService, BullMQ, worker, S3, deletion, composed | |
| `JobLifecycle` | abstract specification: what those who poll a job's row may rely on | instantiated by `IngestPipeline` |
| `IngestPipelineProofs` | its theorems | `IngestPipeline` |
| `ContactUpsert`, `ContactUpsertProofs` | `bulkUpsertContacts` as an algorithm, and batches and deletions that interleave around it; theorems | |
| `ApiKeyCache`, `ApiKeyCacheProofs` | verification, cache, revocation; theorems | |
| `ExportStream`, `ExportStreamProofs` | export route and service; theorems | |
| `Normaliser` | `NormaliserService`: pure functions of one value and one row | |
| `ColumnMapping`, `ColumnMappingProofs` | a file from the parse worker through the mapping to the normaliser; theorems | `Normaliser` |
| `JobPages`, `JobPagesProofs` | upload wizard and job list of the portal over the rows of the server; theorems | |
| `PortalSession`, `PortalSessionProofs` | session, interceptors, contacts store, query, keys and insights pages; theorems | |
| `ContactFilters` | what a filter selects, on every way from a form to a query | |
| `Insights` | what the dashboard's statements return and what the page draws of it | `ContactFilters` |
| `QueryApi`, `QueryApiProofs` | statements of the read routes, changes of the tables, limiter, shutdown, widget; theorems | `Insights` |
| `MC*` | values of the constants that a .cfg cannot write, symmetries | |

Every `await` ends an action, for between two awaits Node runs a handler without interruption.
Actions have the names of the functions and statements they stand for.
Operators marked `Fault:` are not part of any specification: each is a changed version of the
definition that follows it, and `PROJECT.json` names the property that fails with it.

### IngestPipeline

`row[j]` is the `upload_jobs` row (status and counters), `stored[j]` the contacts whose
`source_batch_id` is the job: rows of one file and of several may be about one contact
(`ContactOf`), and an upload that stores it takes it over from the one it was credited to. `queue`,
`lock`, `attempts` and `stalls` the BullMQ entry, `upload`, `object` and `downloads` the files,
`unlinks` the calls of `fs.unlink` that have not called back, `lost` the files whose call failed or
never came, `pc[s]` and `work[s]` the slot's position in `processJob` and its locals
(`processedRows`, `failedRows`, `batch`, whether `filePath` is set, whether it threw).

* `Receive`, `Reject`, `CreateJob`, `UploadFile`, `AddToQueue`, `EnqueueFails`: POST /ingest.
* `Take`, `Settle`, `BackoffEnds`, `LockExpires`, `LoseLock`, `StalledCheck`: BullMQ.
* `Start` … `Finally`: the awaits of `processJob` in order; `ReadRow` is one row of pass 2,
  `RowThrows` a row on which `normaliseRow` throws (a cell of a sheet that is no text).
  `CsvFileGone` ends the whole process, because the read stream's error has no listener;
  `ExcelFileGone` is an ordinary exception. `Finally` only calls `fs.unlink`, which nobody awaits;
  `Unlink` and `UnlinkFails` are its calling back, at any time after.
* `DeleteContacts`, `RemoveFromQueue`, `DeleteRow`, `DeleteRowFails`: DELETE /delete/job. The entry
  stays when it is locked, and when `getJob` or `remove` rejects for any other reason
  (`RemoveFails`); the handler goes on either way. `DeleteSegment`: DELETE /delete/segment, which
  takes contacts away and looks at neither jobs nor queue; at most `MaxClears` times.
* `UpdateThrows` (`job.updateProgress` too), `UpsertFails`, `DownloadFails`, `MarkFailedThrows`: a
  call rejects, at most `MaxFaults` times in all; `Crash`: the process is killed, at most
  `MaxCrashes` times.

Two details follow the code and not a comment: `UpdateRow` has no effect on a deleted row, and
the total of an Excel file is 0 (`sheetRows: 1` leaves only the header in `!ref`).

`JobLifecycle` knows rows, contacts and the set of jobs that are being run. A run has to
announce itself, may add to the progress, and finishes with counters that add up to the file; only
a run writes a row, only a deletion takes a row away, and contacts leave a job by a deletion or
because another job's import takes them over. `ImplementsLifecycle` maps
`running` to the jobs on which some slot works.

### ContactUpsert

The algorithm is a set of operators (`UniqueInputs`, `Matching`, `Target`, `Merge`, `StoreRow`,
`Outcome`), so that properties can ask what a batch *would* do in a given table. `Select` takes
the snapshot, `Insert` stores what was merged against it into the table as it is by then. One
opt-out column stands for all merged columns: they are all merged by the same expression.

### ApiKeyCache

A key stands for its prefix, which is unique. A verification goes through `Get`, `Lookup` (with
`bcrypt.compare`) and `Setex`; a deletion through `Find`, `Deactivate` and `Flush`. Either may
break off at any await. `"legacy"` entries, written before keys had `canViewRaw`, count as a miss.

### ExportStream

`source` is the cursor (waiting for a connection, reading, ended, destroyed), `buffered` the rows
in the CSV stream, `sent` those written to the response. Back pressure is in `Read` and `Write`;
`Leave` is the response's close event, which does something only once `stream` has registered its
listener. `early` remembers that the client had left by then.

### Normaliser and ColumnMapping

A text is what the functions can tell of it: its digits, whether a plus precedes them, and a word.
`NormalisePhone`, `NormaliseEmail`, `ParseTags`, `ParseBoolean` and `NormaliseRow` are the service's
functions; "yes" and "no" stand for all the words `parseBoolean` knows. `NormaliseRow` takes for a
field the latest of its columns that says something, in the order of `Object.entries`: names that
are whole numbers come first, in their order (`Index`), then the others as they came.
`ColumnMapping` takes a sheet (`IsSheet`: a header and a row as long, any text any number of times)
through `ParseHeaders` and `ParsePreview` of the parse worker, `AutoMap`, `SetMapping` and `Confirm`
of the wizard to `ReadRow` of the server, which looks up the reader's own column keys in the mapping
by name. `KeysOf` are those keys: fast-csv rejects a header that names two columns alike
(`ReaderRejects`), xlsx numbers the second one (`phone_1`, or the next number that is free) and
calls a blank header `__EMPTY`.

### JobPages

`rows` is the status of each job on the server (`Take`, `Finish`; a job may run again, at most
`MaxReruns` times, after a failed attempt and after a kill, also one that fell between the UPDATE
'done' and the queue, as `JobLifecycle` lets a reader see it), `wizard` and `list` the signals of
the two components, `requests` the reads under way, each with the answer it will give. The server
reads when a request is sent: an answer read later is that of a request sent later. `PollTick` and
`ListTick` fire whether or not the request before is answered; `PollAnswer` takes any answer, also
an earlier job's, since `Reset` cancels the interval and not the request. One POST and one deletion
at a time. A wizard that is destroyed while its POST is under way starts an interval when the answer
comes, for answers that reach nobody: it is left out.

### PortalSession

`session` is what `sessionStorage` holds, `store` the contacts store, which outlives its page,
`view` the page that is mounted. A request carries the status it will be answered with. `Orphaned`
says what is left of the requests of a page that is destroyed: reads reach nobody, but a 401 still
reaches `errorInterceptor` and ends whatever session there is by then. `loadNextPage` is called by
nobody and left out.

### ContactFilters, Insights, QueryApi

`ContactFilters` follows a form through `SearchFilter` or `ExportParams`, `QueryRoute`,
`ExportRoute` or `PublicRoute`, to `QuerySelects` or `StreamSelects`. The export route trims eight
of the texts (`TrimmedFields`), the query route none. `Insights` gives for each statement the set of
what it may return (`Tops` chooses among equals), and what the page computes of it. `QueryApi` runs
the statements one by one (`CountStatement`, `RowsStatement`, `Statement`) between `Import`,
`Delete`, `RecordUsage`, `UpdateJob` and `DeleteJob`. `Limit` stands in front of the walking client;
`admitted` remembers the requests it let through during the last window, each with its age.
`Signal`, `DestroyPool` and `Quit` are `shutdown`, whose ten-second timer is set behind an exit on
every path and is no action; `Kill` is PM2, which waits ten seconds for it. A client may hang up
(`HangUp`): its handler goes on until its last statement, or its first one on a closed pool
(`HandlerEnds`), while `server.close` waits for connections only (`Connected`). `countContacts` is
called by nobody; masking is left out.

## 3. Runs

| run | instance | checks |
|---|---|---|
| `pipeline_s3` | 2 jobs, 2 slots, S3, 1 fault, 1 kill | `OneHandlerPerJob`, `DoneAddsUp`, `FirstRunProgress`, `OutcomeReported`, `DownloadsAccounted` |
| `pipeline_local` | 2 jobs, 2 slots, local files, 1 fault, 1 lost lock | `QueuedJobHasRow`, `DoneIsStored`, `LocalFileDeleted`, `DeletedForGood`, `OutcomeIsFinal` |
| `pipeline_live` | 1 job, 2 slots, S3, 2 faults, 2 kills, 1 deletion of the segment, fairness | refinement `ImplementsLifecycle`, `JobsSettle`, `UploadsReported` |
| `contact_upsert` | 2 writers, 3 phones, 3 emails, up to 2 contacts at the start | `FreshBatchIsStored`, `RerunAddsNothing`, `ApartBatchesCommute`, `KeysMoveOnlyOnMatch`, `OptOutKept` |
| `api_key_cache` | 1 key, 3 verifications, 2 deletions, TTL 2, fairness | `CleanFlushIsFinal`, `ClosedStaysClosed`, `RevocationTakesEffect` |
| `export_stream` | 3 exports, 2 connections, 3 rows, high-water mark 1, fairness | `JsonBeforeData`, `CompletedIsWhole`, `ConnectionReturnedUnlessEarly`, `EveryExportEnds` |
| `column_mapping` | sheets of one column with any spelling of a number, of two columns over 6 headers and 5 cells, and of three columns whose names or keys meet, CSV and Excel, every mapping | `OneKeyPerNumber`, `MappedColumnArrives`, `BlankCellTakesNothing` |
| `job_pages` | 2 jobs, one of which may fail and runs again once, 2 files, 2 requests under way, 1 failing request, fairness | `MappingIsOfFile`, `StatusIsOfThisJob`, `OutcomeIsShown`, `ListCatchesUp` |
| `portal_session` | 2 keys, 2 forms, 2 pages, 2 requests under way, 1 failing request | `LastAskedIsShown`, `KeysShownAsTheyAre`, `NoSpinnerForever` |
| `query_api` | 3 contacts, 2 jobs, pages of one row, limit 2 in 2 ticks, 3 events (changes, ticks, hang-ups, signals) | `WalkMissesNothing`, `StillTableAgrees`, `LimitHolds`, `GracefulExitCutsNoOne`, `ExportIsWhatWasFound` |

Two more runs each end in a counterexample: what a comment says, and the code does not keep.

| run | the comment | what happens |
|---|---|---|
| `pipeline_stuck` | normaliserWorker.ts:10 "Update job status → 'done' or 'failed'" | The first attempt deletes the local file; the second, on a CSV, kills the worker; after two stalls BullMQ gives up and the row says 'processing' for ever. |
| `pipeline_orphans` | delete.ts:28 "Delete a specific job and its contacts" | A slot active on the job stores further batches after the deletion. |

Elsewhere the code keeps less than its comments say, and the property that is checked names the
exact condition under which it does keep it:

* contacts.ts:187 "Map incoming rows to existing IDs where found": two rows of a batch that map to
  one id make the statement fail, and the batch is lost. `FreshBatchIsStored`: that, or a
  table that changed since the SELECT, is the only reason.
* contacts.ts:262 "Use input value if provided, else keep existing DB value": an opt-out stored between
  SELECT and INSERT is overwritten. `OptOutKept` is about inserts whose SELECT is fresh.
* keys.ts:41 "After this call, the key is rejected … immediately": a verification in flight caches the
  key again after the flush. `CleanFlushIsFinal`: not if none was between lookup and answer.
* ExportService.ts:54 "the DB stream is destroyed so we stop reading … and free the connection
  immediately": a client that leaves during the preflight query is never noticed.
  `ConnectionReturnedUnlessEarly` excepts it (`early`).
* rateLimiter.ts:7 "sliding window": the window is fixed. `LimitHolds` has the bound that follows, twice
  the limit less one.
* upload.component.ts: a late status answer can put 'processing' back after the outcome, and an earlier
  job's can stop the poll of the next (`OutcomeIsShown`, `StatusIsOfThisJob` with `late`).
* csv-parse.worker.ts: the portal and the server do not always mean the same column by a name.
  `MappedColumnArrives` lists what parts them: a padded header, which hides the column from the server;
  a blank Excel header before it, which shifts its preview; a typed cell, on which the row throws; a
  column before it with the same header; a name that xlsx makes up and that is a mapped column's
  (`Confused`); and a column named like a whole number beside another one mapped to the phone. A blank
  opt-out or tags cell is a value (`BlankCellTakesNothing` excepts both, and made-up names).
* normaliserWorker.ts:174 "Always clean up the temp file": the unlink is not awaited and may fail with
  a warning, or the worker be killed before it. `LocalFileDeleted` and `DownloadsAccounted` say what is
  left then.
* JobService.ts:97 "Delete a job from the DB AND remove it from the BullMQ history": every error of
  the second is swallowed. `DeletedForGood` allows the finished entry to stay after one.
* normaliserWorker.ts:166 marks a job 'done' before the queue knows: after a kill in between it runs
  again and says 'processing', while a page that saw 'done' has stopped asking (`StatusIsOfThisJob`).
* A retry of a job's batch adds no contact, unless another upload has moved one of its
  contacts to another phone in between (`RerunAddsNothing`).
* query.ts and export.ts read one form differently: "spring " with a blank finds the contacts of no
  campaign and exports those of "spring", and the export drops "Opted out" of WhatsApp.
  `ExportIsWhatWasFound` has the export of every form, those included.
* server.ts:7-8 says in-flight requests are finished. `GracefulExitCutsNoOne`: of clients that wait,
  unless a second signal comes or PM2 kills the process; the handler of a client that hung up may lose
  the pool.

### Bounds, and why they are enough

* With `BatchSize` 2, job j1 (CSV) fills a batch with its first two rows. In `pipeline_s3` they are
  all it has and the final flush is empty; in `pipeline_live` a third one is left for the final flush,
  whose counters the refinement checks (`Finish`); on local storage the third one is turned down. Job j2
  (Excel) has one row; on S3 it holds a number, and every attempt of j2 fails. The first two rows
  of j1 and the row of j2 are about one contact, so that a batch holds a contact twice and, on
  local storage, the two jobs take it from one another.
* `MaxAttempts` 2 instead of 3: one retry has all the code a second one has. `MaxStalled` is 1,
  as in BullMQ. Two slots and two jobs let one slot work on both jobs in turn, or two slots on one
  job when a lock is lost; a third slot adds no new pair.
* One fault and one kill, in the run for liveness two faults, two kills and a deletion of the
  segment, may fall on any call: in the run for liveness enough to fail both attempts, or one and
  its report, and to stall an entry once too often. What such a run may then leave behind is named
  in the properties (`unreported`, `stalls`), not hidden by the bounds. The safety runs check one
  storage mode each; the file properties are about one of the two. `OneHandlerPerJob` and what rests
  on it assume that no lock expires under a running handler (`lockLosses = 0`), and the run on local
  storage includes such a loss. On S3 a loss beside a fault and a kill is more than TLC gets
  through; `DownloadsAccounted` holds of overlapping attempts too, which is proved
  (`DownloadsBounded`).
* `ContactUpsert`: a cross-link needs two contacts and a row with the phone of one and the email of
  the other; a double target needs two rows; three phones and emails leave a new one for each.
* `ApiKeyCache`: keys do not interact; three verifications put one before, one across and one after
  a deletion. `TTL` 2 tells an entry that was renewed from one that was not.
* `ExportStream`: three exports over two connections make one wait; three rows against a
  high-water mark of 1 exercise the pause.
* `ColumnMapping`: texts of up to two zeros, two country codes and sixteen digits pass every length
  and prefix `normalisePhone` looks at; two columns suffice for a header that shifts, hides or repeats
  the other one. Three are needed for a number that is taken already (`phone`, `phone`, `phone_1`), two
  blank headers around another one, and whole numbers (10 before 2) around a text: those six headers
  are run with three cells, blank or one of two numbers.
* `JobPages`: with two jobs the wizard has an earlier one, with two requests an answer can be
  overtaken; a job that has ended and runs once more is the case in which a list or a wizard stops too
  early.
* `PortalSession`: two pages of two filters in two requests give every pair of answers that can cross;
  with two keys, the confirmation of one meets the deactivation of the other.
* `QueryApi`: with pages of one row three contacts give a first, an inner and a last page. `MaxEvents`
  3 bounds table changes, ticks, hang-ups and signals together. Five of the forms have texts with blanks
  around them or nothing but blanks. `Together` keeps the walking client and the page
  apart: they share nothing but the tables, which any other client can change as well, and the
  shutdown. `Dashboards` runs the statements that a property relates in groups, since all
  fourteen in every order only multiply the same cases. The count of the limiter stops above its
  limit, where it says nothing more.

Deadlock is checked where the system always has a step. `CHECK_DEADLOCK FALSE` is set where it
may stop: every upload settled or deleted, every export over, the row stored, all jobs done and no
request left to fail, the process ended.

### Fairness

* `IngestPipeline`: a handler that was called goes on (`HttpStep`, `SlotStep`), the queue's timers
  fire (`QueueStep`), an idle slot fetches. This is what the event loop, BullMQ's blocking fetch
  and PM2's restarts provide. Uploads, deletions, faults and kills need not happen. `SlotStep` is
  one fair action per slot: a slot is in one place, and each place has one way on besides faults.
* `ApiKeyCache`: a verification goes on and time passes. Deletions may break off, so nothing is
  assumed of them: a revocation that fails before the flush takes effect when the entry expires.
* `ExportStream`: streams flow while the client reads; knex gives up on a connection it cannot
  get. Clients need not leave and errors need not occur.
* `JobPages`: the two intervals fire and requests are answered (`PollTick`, `ListTick`, `PollAnswer`,
  `ListAnswer`), as browser and server do. Users, the import and faults are free: the properties
  start from a job that has settled.
* `PortalSession` and `QueryApi` have safety properties only: that nothing waits without a request under
  way is an invariant (`NoSpinnerForever`).

## 4. Theorems

All proofs are for arbitrary constants that satisfy the assumptions their modules name. None of them
says more than the code provides for:

* sizes and counts: `CountsAssumption`, `FilesAssumption`, `TTLAssumption`, `SizesAssumption`,
  `PagesAssumption` (limits and lengths are numbers, those that divide or bound something not 0);
* `IndexAssumption`: different whole-number names are different numbers;
* names that stand for nothing differ from those that stand for something (`NamesAssumption`,
  `KeysAssumption`, `NoneAssumption`, `UnsetAssumption`); there are finitely many slots and ids;
* `SeedsAssumption`: a table obeys its two unique indexes; `SheetsAssumption`: a file is a
  header and a row as long, of whatever texts; `SubscribersAssumption`: a subscriber's
  number has ten digits and does not begin with 0; `FormsAssumption`: the query page has no input
  for `tags_any`; `ContactsAssumption`: every contact has a segment (NOT NULL, and POST /ingest takes
  no blank one); `JobsAssumption`: a row of `upload_jobs` holds counters and one of the four statuses;
  `DashboardsAssumption`: every group of statements has the total among them.

| module | theorem | property |
|---|---|---|
| `IngestPipelineProofs` | `TypeCorrect` | `TypeOK` |
| | `OneHandler`, `DoneAccounted` | `OneHandlerPerJob`, `DoneAddsUp` |
| | `DoneStored`, `FirstRunBounded` | `DoneIsStored`, `FirstRunProgress` |
| | `OutcomeTold`, `OutcomeStays` | `OutcomeReported`, `OutcomeIsFinal` |
| | `QueuedHasRow`, `DeletionIsFinal` | `QueuedJobHasRow`, `DeletedForGood` |
| | `LocalFileGone`, `DownloadsBounded` | `LocalFileDeleted`, `DownloadsAccounted` |
| | `Refinement` | `ImplementsLifecycle`, as long as no lock is lost |
| `ContactUpsertProofs` | `FreshIsStored`, `RerunIsIdle`, `EitherOrder` | `FreshBatchIsStored`, `RerunAddsNothing`, `ApartBatchesCommute` |
| | `KeysMove`, `OptOutStays` | `KeysMoveOnlyOnMatch`, `OptOutKept` |
| `ColumnMappingProofs` | `OneKey`, `Arrival`, `BlankTakesNothing` | `OneKeyPerNumber`, `MappedColumnArrives`, `BlankCellTakesNothing` |
| `JobPagesProofs` | `MappingOfFile`, `StatusOfJob` | `MappingIsOfFile`, `StatusIsOfThisJob` |
| `PortalSessionProofs` | `NoPageWaitsForNothing`, `KeysTold`, `ResultsTold` | `NoSpinnerForever`, `KeysShownAsTheyAre`, `LastAskedIsShown` |
| `QueryApiProofs` | `WalkComplete`, `LimiterBound` | `WalkMissesNothing`, `LimitHolds` |
| | `GracefulExit`, `ExportSelectsTheSame` | `GracefulExitCutsNoOne`, `ExportIsWhatWasFound` |
| | `AnswersAgree` | `StillTableAgrees` |
| `ApiKeyCacheProofs` | `TypeCorrect`, `ClosedForGood`, `CleanFlush` | `TypeOK`, `ClosedStaysClosed`, `CleanFlushIsFinal` |
| `ExportStreamProofs` | `NeverBoth`, `CompletedSentAll` | `JsonBeforeData`, `CompletedIsWhole` |

The arguments, by the invariant that is inductive:

*One handler.* Exclusion does not follow from the slots alone: a slot is kept out of a job by the
entry being active and locked. `LockInv` says that, as long as no lock was lost, a slot that works
on a job holds its lock; two slots would hold the same lock. The proof follows the lock through
`Take`, `Settle`, the kill of the worker (all slots idle, locks `Dead`) and the stalled check, which
acts only on `Free` locks.

*Done adds up.* `CountInv` says that what a slot has counted and what it has in its batch add up to
what it has read, with the batch counted or not depending on where the slot stands around
`flushBatch`; `ReportInv` says that a job whose rows a handler is still counting is not reported
'done'; `ResultInv` joins it with `DoneAddsUp`. Exclusion is what keeps a second
handler from overwriting the counters, hence the theorem rests on `OneHandler`.

*Done is stored.* `processed_rows` counts rows and the table holds contacts, of which several rows may
share one, and a later upload may take the credit (`source_batch_id`) for it. What lasts is
that the contact of each row counted as processed is in the table, whoever it is credited to
(`InTable`). `StoredInv` says so of every handler that works, with lost locks too (`UpsertedRows`):
uploads take contacts from one another but none out of the table, and nothing has been deleted.
`ReportInv` and exclusion turn it into a claim about the row.

*First run.* The row's counter trails the handler: `Ahead` bounds it by what the handler has read, less
the batch it has not written yet, in each place of `processJob`, and says that the total is set by
then. An entry that is delayed has failed an attempt, and one that waits for its first has counted
nothing.

*Outcomes.* `ToldInv`: a handler that stands behind its `try` has told the row how it went, unless the
row is gone or that UPDATE failed. That a handler remembers an error only there is `ThrewInv`. Once
an entry is settled no slot holds its lock, so nobody is left to write the row (`OutcomeStays`).

*Rows, deletions.* `RowInv`: the row is inserted before the entry is added, and a deletion takes it away
last. `QuietInv` follows a deletion that began on a settled job with no slot at work through its three
steps: what is gone stays gone because only a slot, or the route before it answered, could bring it back.
The entry is gone as well, or has stayed, finished, because a call failed.

*Files.* `LocalInv` ties multer's file to where a handler stands: one that knows the path has called
`unlink` when it settles, and one that leaves without it has used up a fault per attempt. So a file
that is kept (`Kept`: it is there, no unlink is under way and none was lost) has cost a fault for each
attempt that is over. `DownloadInv` gives each download its reason: a handler that holds it
(`Holding`), an unlink under way, one that failed or never came (`lost`; a kill adds every unlink under way
and every download held), or a call that failed while the file was written. It bounds the number
from below as well, so that no unlink is answered for a download that is not there.

*Refinement.* Every step of `IngestPipeline` is a step of `JobLifecycle` or leaves rows, contacts and
runs alone: one lemma per kind of action. `Take` begins a run, `Settle` ends one, a kill ends all;
`MarkDone` finishes with counters that add up (`CountInv`); a batch that is imported is not empty
(`BatchInv`), and a row that is inserted was not there (`BornInv`). With a lost lock two runs write one
row, and the refinement does not hold.

*Contacts.* Step 1 and the INSERT are folds over the rows of a batch. A fold of the library is a
recursive function; `RowByRow` and `RowByRowBackwards` show that it exists and unroll it into the
sequence of its intermediate values, by induction stated over sets of numbers. The invariant of one row
more (`OneMoreRow`) says which contacts are already as the batch wants them, which are as they
were, and that the keys of the rest of the batch are still free. What makes a row fail is then that its
target was another row's. `ApartBatchesCommute` follows because a batch writes
only what it found and what it names, and another batch finds and names nothing of it. For
`RerunAddsNothing` the phone of each row must still be a contact's when the batch comes again: it is after
the batch was stored (`PhonesStored`), another batch that moves no such contact keeps it
(`PhonesKept`), and a batch whose phones are all there inserts nothing (`NothingToAdd`).

*Columns.* `OneKey` goes through the cases of `normalisePhone` by its first digits. For the others the
header is read name by name, again unrolled by induction: names keep their places as long as none
before them is blank (`NamesKept`), so that the cell shown for a column is its own
(`PreviewOfColumn`). On the server a column's key is its text unless an earlier column took it
(`OwnKey`), and no made-up key takes it afterwards (`NameKept`). The keys mapped to a field are then
those of its columns (`MappedKeys`), and what the field holds is the cell of the latest that says
something (`LatestRead`, `PhoneRead`).

*Wizard.* `MappingInv`: only the file of the wizard is parsed, and only on its first page, so that
from the second page on the columns are those of the file; a POST whose page is still there is the
one the wizard waits for. `StatusInv`: what a request will answer its job has had, and, while nothing is
`late`, only the job on the last page is asked for. A job that has an outcome keeps it until it is deleted or
runs again.

*Session and pages.* `SpinnerInv` needs to know which page a request belongs to (`SignedInv`): reads
end with their page, a login is under way only while its page waits, and there is one. `KeysInv` says
that a key that is shown active and is not waits for the answer that takes it off. `QueryInv`: unless two
queries cross there is one, and it asks what was asked for last.

*Walk.* `WalkInv`: the client has been given nothing beyond the cursor, and of what the filter has
selected throughout everything up to it. Changes of the tables only make the second set smaller.

*Limiter.* `LimiterInv` splits what was admitted in the last window of time into the requests of the window that is open, which began
with the oldest of them, and those of windows before it, whose first has become too old; so there are at
most `MaxHits` of the one and `MaxHits` less one of the other.

*Shutdown and export.* `GracefulExitCutsNoOne` is inductive by itself: once the pool is closed nobody is
connected and nobody connects. `ExportIsWhatWasFound` compares the lists of fields on the two ways of a
form, field by field, with the form as the export reads it (`AsExported`).

*Answers.* `AnswerInv`: while the tables are the same, what a request has been answered so far is what
its statements return of them. What they return is then arithmetic. The groups of a column add up to
the contacts that hold one of its values (`GroupsAdd`), in whatever order they are added
(`SumApart`, `SumUnion`), the days to no more than the jobs (`DaysAdd`); a share rounds to at most
100, and to 100 only within half a percent of all (`Rounded`); what is left behind an offset is what
the total leaves (`FirstSize`, `AfterSize`, `Pages`). The library's sum is a recursive function over
subsets; `SumUnfolds` shows that it exists, by well-founded induction over the subsets of a finite
set (`SubsetInduction`), a lemma about a set of subsets and not about an operator.

*Keys.* `FlushAfterDeactivate` says that a deletion that stands before the flush has made its key
inactive; a clean flush then leaves the key closed, and `ClosedForGood` keeps it so.

*CSV.* `StreamInv` relates what was read, buffered and sent to the state of cursor and
response: rows are neither lost nor repeated while a stream flows, a response that ended by
itself has sent all of them, and a JSON answer ends a response that had sent none.

`TypeOK` is no property of a run: it is proved, for every instance.

Model-checked only: liveness and everything else under fairness (`JobsSettle`, `UploadsReported`,
`RevocationTakesEffect`, `EveryExportEnds`, `ConnectionReturnedUnlessEarly`, `OutcomeIsShown`,
`ListCatchesUp`), since fairness and ENABLED are out of the prover's reach. Every invariant of the
runs that are to pass is a theorem.

## 5. What is external, and what is left out

BullMQ, PostgreSQL, Redis, Node's streams and knex are not in the repository. They are modelled as
the code uses them: a queue entry is locked while a handler runs, renewed unless the event loop is
blocked, found stalled without a lock, and failed after one stall too many; an SQL statement is
atomic and unique indexes are checked row by row; a Redis command is atomic; a response whose client
has gone takes no more data. fast-csv and xlsx yield rows whose keys are the header's texts as they
stand in the file; express-rate-limit counts in a window that begins with its first request; Angular
destroys a component when its page is left, and HttpClient delivers answers in any order.

Not modelled, with reasons, in `PROJECT.json`: migrations and configuration (done and read before
anything runs), scripts and deployment files (run by hand), masking (a function of single values),
security headers, the address list and password checks (one request, no state), toasts and
styles. BullMQ's history limits only drop settled entries. A graceful close of the worker
is a time in which no slot takes a job. `touchApiKey` writes a timestamp that nothing reads.

## 6. Plan

Done, in this order: `IngestPipeline`, `JobLifecycle`, their proofs; `ContactUpsert`;
`ApiKeyCache` and proofs; `ExportStream` and proofs; `Normaliser`, `ColumnMapping`; `JobPages`;
`PortalSession`; `ContactFilters`, `Insights`, `QueryApi`.

The proofs followed: the pipeline and its refinement, the contacts table, the columns of an upload, the
wizard, the session, the read routes.

What is left: type correctness of `ExportStream` whole (`ShapesOK` is part of `StreamInv`, the pool's
bound is not), and of the modules whose inductive invariants type only what they need.
