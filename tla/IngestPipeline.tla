--------------------------- MODULE IngestPipeline ---------------------------
(***************************************************************************)
(* The upload path of the platform: POST /api/ingest (multer, JobService),  *)
(* the BullMQ queue, the normaliser worker (processJob) and the deletion of *)
(* a job.  Every await of the handlers ends an action, so that the steps of *)
(* the API process, of the worker's concurrent slots and of the queue       *)
(* interleave as they do on the event loop and over the network.            *)
(*                                                                          *)
(* Abstracted: the rows of a file are the numbers 1..NumRows[j], of which   *)
(* BadRows[j] are those normaliseRow turns down; ContactOf[j] names the     *)
(* contact each row is about, which rows of one file and of several files   *)
(* may share.  All uploads go to one segment: a contact belongs to one, and *)
(* those of another never meet.  What a row does to its contact's fields,   *)
(* and rows whose phone and email name two contacts, are ContactUpsert's.   *)
(*                                                                          *)
(* BullMQ is not under src/: its entries, locks, retries and stalled check  *)
(* are modelled from how JobService and the worker configure and use it.    *)
(***************************************************************************)
EXTENDS Integers, FiniteSets

CONSTANTS
    Jobs,            \* uploads, one upload_jobs row and one queue entry each
    Slots,           \* the worker's concurrent slots, WORKER_CONCURRENCY
    NoJob,           \* the job of an idle slot
    Free, Dead,      \* a queue lock nobody holds, and one whose holder is gone
    NumRows,         \* data rows of each file
    BadRows,         \* the rows of each file that normaliseRow turns down
    ContactOf,       \* the contact each row of each file is about
    TypedRows,       \* the rows of an Excel sheet with a mapped cell that is
                     \* no text (a number, say), on which normaliseRow throws
    CsvJobs,         \* the files that are CSV; the others are Excel sheets
    UseS3,           \* env.useS3
    BatchSize,       \* BATCH_SIZE
    MaxAttempts,     \* defaultJobOptions.attempts
    MaxStalled,      \* BullMQ's maxStalledCount, which the worker leaves alone
    MaxFaults,       \* bound: database and storage calls that fail
    MaxCrashes,      \* bound: times the worker process is killed
    MaxLockLosses,   \* bound: locks that expire under a running handler
    MaxClears        \* bound: times the segment's contacts are deleted

ASSUME CountsAssumption ==
    /\ BatchSize \in Nat \ {0}
    /\ MaxAttempts \in Nat \ {0}
    /\ MaxStalled \in Nat
    /\ MaxFaults \in Nat /\ MaxCrashes \in Nat /\ MaxLockLosses \in Nat
    /\ MaxClears \in Nat

ASSUME FilesAssumption ==
    /\ NumRows \in [Jobs -> Nat]
    /\ BadRows \in [Jobs -> SUBSET Nat]
    /\ CsvJobs \subseteq Jobs
    /\ TypedRows \in [Jobs -> SUBSET Nat]
    /\ \A j \in CsvJobs : TypedRows[j] = {}
    /\ UseS3 \in BOOLEAN

ASSUME NamesAssumption ==
    /\ NoJob \notin Jobs
    /\ IsFiniteSet(Slots)
    /\ Free \notin Slots /\ Dead \notin Slots /\ Free # Dead

VARIABLES
    row,         \* the upload_jobs row of each job
    stored,      \* the contacts whose source_batch_id is the job
    queue,       \* the state of the job's entry in BullMQ
    lock,        \* who holds the entry's lock
    attempts,    \* attemptsMade of the entry
    stalls,      \* how often the entry was found stalled
    upload,      \* the multer temp file of the job is on disk
    object,      \* the S3 object of the job exists
    downloads,   \* temp files on disk that hold a download of the object
    unlinks,     \* calls of fs.unlink for the job that have not called back
    lost,        \* history: temp files whose unlink failed, or was still to come
                 \* when the worker was killed
    api,         \* where the ingest handler of the job stands
    del,         \* where the delete handler of the job stands
    quiet,       \* history: nobody worked on the job when its deletion began
    pc, work,    \* where each slot's processJob stands, and its local variables
    unreported,  \* history: the UPDATE that tells of a failed attempt failed
    clears,      \* how often contacts of the segment were deleted
    faults, crashes, lockLosses

dataVars  == <<row, stored>>
queueVars == <<queue, lock, attempts, stalls>>
fileVars  == <<upload, object, downloads, unlinks, lost>>
httpVars  == <<api, del, quiet>>
slotVars  == <<pc, work>>
envVars   == <<faults, crashes, lockLosses, unreported, clears>>
vars == <<dataVars, queueVars, fileVars, httpVars, slotVars, envVars>>

Status == {"absent", "queued", "processing", "done", "failed"}
Labels == {"idle", "start", "resolve", "count", "total", "open", "read",
           "upsert", "increment", "progress", "done", "catch", "finally",
           "settle"}

NoRow    == [status |-> "absent", total |-> 0, processed |-> 0, failed |-> 0]
IdleWork == [job |-> NoJob, pos |-> 0, batch |-> {}, processed |-> 0,
             failed |-> 0, file |-> FALSE, threw |-> FALSE]

Init ==
    /\ row = [j \in Jobs |-> NoRow]
    /\ stored = [j \in Jobs |-> {}]
    /\ queue = [j \in Jobs |-> "absent"]
    /\ lock = [j \in Jobs |-> Free]
    /\ attempts = [j \in Jobs |-> 0]
    /\ stalls = [j \in Jobs |-> 0]
    /\ upload = [j \in Jobs |-> FALSE]
    /\ object = [j \in Jobs |-> FALSE]
    /\ downloads = [j \in Jobs |-> 0]
    /\ unlinks = [j \in Jobs |-> 0]
    /\ lost = [j \in Jobs |-> 0]
    /\ api = [j \in Jobs |-> "idle"]
    /\ del = [j \in Jobs |-> "idle"]
    /\ quiet = [j \in Jobs |-> FALSE]
    /\ pc = [s \in Slots |-> "idle"]
    /\ work = [s \in Slots |-> IdleWork]
    /\ unreported = [j \in Jobs |-> FALSE]
    /\ faults = 0 /\ crashes = 0 /\ lockLosses = 0 /\ clears = 0

(***************************************************************************)
(* POST /api/ingest                                                        *)
(***************************************************************************)

\* multer writes the request's file to the temp directory.
Receive(j) ==
    /\ api[j] = "idle"
    /\ api' = [api EXCEPT ![j] = "received"]
    /\ upload' = [upload EXCEPT ![j] = TRUE]
    /\ UNCHANGED <<dataVars, queueVars, object, downloads, unlinks, lost, del,
                   quiet, slotVars, envVars>>

\* The body does not validate, or field_mapping is not JSON: an error answer.
Reject(j) ==
    /\ api[j] = "received"
    /\ api' = [api EXCEPT ![j] = "rejected"]
    /\ UNCHANGED <<dataVars, queueVars, fileVars, del, quiet, slotVars, envVars>>

\* enqueue inserts the upload_jobs row before anything else.
CreateJob(j) ==
    /\ api[j] = "received"
    /\ row' = [row EXCEPT ![j] = [NoRow EXCEPT !.status = "queued"]]
    /\ api' = [api EXCEPT ![j] = IF UseS3 THEN "uploading" ELSE "adding"]
    /\ UNCHANGED <<stored, queueVars, fileVars, del, quiet, slotVars, envVars>>

UploadFile(j) ==
    /\ api[j] = "uploading"
    /\ object' = [object EXCEPT ![j] = TRUE]
    /\ api' = [api EXCEPT ![j] = "adding"]
    /\ UNCHANGED <<dataVars, queueVars, upload, downloads, unlinks, lost, del,
                   quiet, slotVars, envVars>>

\* Fault: the entry is queued before the row is inserted.
AddToQueueFirst(j) ==
    /\ api[j] \in {"received", "adding"}
    /\ queue' = [queue EXCEPT ![j] = "waiting"]
    /\ api' = [api EXCEPT ![j] = "accepted"]
    /\ UNCHANGED <<dataVars, lock, attempts, stalls, fileVars, del, quiet,
                   slotVars, envVars>>

AddToQueue(j) ==
    /\ api[j] = "adding"
    /\ queue' = [queue EXCEPT ![j] = "waiting"]
    /\ api' = [api EXCEPT ![j] = "accepted"]
    /\ UNCHANGED <<dataVars, lock, attempts, stalls, fileVars, del, quiet,
                   slotVars, envVars>>

\* createJob, uploadFile or queue.add rejects: the handler answers 500.
EnqueueFails(j) ==
    /\ api[j] \in {"received", "uploading", "adding"}
    /\ faults < MaxFaults
    /\ faults' = faults + 1
    /\ api' = [api EXCEPT ![j] = "error"]
    /\ UNCHANGED <<dataVars, queueVars, fileVars, del, quiet, slotVars,
                   crashes, lockLosses, unreported, clears>>

(***************************************************************************)
(* BullMQ                                                                  *)
(***************************************************************************)

Goto(s, label) == pc' = [pc EXCEPT ![s] = label]

\* Fault: a slot fetches an entry whoever works on it.
TakeActive(s, j) ==
    /\ pc[s] = "idle" /\ queue[j] \in {"waiting", "active"}
    /\ queue' = [queue EXCEPT ![j] = "active"]
    /\ lock' = [lock EXCEPT ![j] = s]
    /\ work' = [work EXCEPT ![s] = [IdleWork EXCEPT !.job = j]]
    /\ Goto(s, "start")
    /\ UNCHANGED <<dataVars, attempts, stalls, fileVars, httpVars, envVars>>

\* An idle slot fetches an entry, takes its lock and calls processJob.
Take(s, j) ==
    /\ pc[s] = "idle" /\ queue[j] = "waiting"
    /\ queue' = [queue EXCEPT ![j] = "active"]
    /\ lock' = [lock EXCEPT ![j] = s]
    /\ work' = [work EXCEPT ![s] = [IdleWork EXCEPT !.job = j]]
    /\ Goto(s, "start")
    /\ UNCHANGED <<dataVars, attempts, stalls, fileVars, httpVars, envVars>>

\* processJob has settled.  A slot that still holds the lock moves the entry:
\* completed, delayed for another attempt, or failed.  Without it BullMQ only
\* reports a missing lock.
Settle(s) ==
    LET j == work[s].job
        made == attempts[j] + 1
    IN  /\ pc[s] = "settle"
        /\ \/ /\ lock[j] = s
              /\ queue' = [queue EXCEPT ![j] =
                    IF ~work[s].threw THEN "completed"
                    ELSE IF made < MaxAttempts THEN "delayed" ELSE "failed"]
              /\ attempts' = [attempts EXCEPT ![j] = made]
              /\ lock' = [lock EXCEPT ![j] = Free]
           \/ /\ lock[j] # s
              /\ UNCHANGED <<queue, attempts, lock>>
        /\ Goto(s, "idle")
        /\ work' = [work EXCEPT ![s] = IdleWork]
        /\ UNCHANGED <<dataVars, stalls, fileVars, httpVars, envVars>>

BackoffEnds(j) ==
    /\ queue[j] = "delayed"
    /\ queue' = [queue EXCEPT ![j] = "waiting"]
    /\ UNCHANGED <<dataVars, lock, attempts, stalls, fileVars, httpVars,
                   slotVars, envVars>>

\* The lock of a dead process runs out.
LockExpires(j) ==
    /\ lock[j] = Dead
    /\ lock' = [lock EXCEPT ![j] = Free]
    /\ UNCHANGED <<dataVars, queue, attempts, stalls, fileVars, httpVars,
                   slotVars, envVars>>

\* A handler blocks the event loop past lockDuration and is not renewed.
LoseLock(j) ==
    /\ lock[j] \in Slots
    /\ lockLosses < MaxLockLosses
    /\ lockLosses' = lockLosses + 1
    /\ lock' = [lock EXCEPT ![j] = Free]
    /\ UNCHANGED <<dataVars, queue, attempts, stalls, fileVars, httpVars,
                   slotVars, faults, crashes, unreported, clears>>

\* The stalled check finds an active entry without a lock.
StalledCheck(j) ==
    /\ queue[j] = "active" /\ lock[j] = Free
    /\ queue' = [queue EXCEPT ![j] =
            IF stalls[j] < MaxStalled THEN "waiting" ELSE "failed"]
    /\ stalls' = [stalls EXCEPT ![j] = @ + 1]
    /\ UNCHANGED <<dataVars, lock, attempts, fileVars, httpVars, slotVars,
                   envVars>>

(***************************************************************************)
(* processJob                                                              *)
(***************************************************************************)

\* Fault: an upsert in place of the UPDATE brings a deleted row back.
UpsertRow(j, new) == row' = [row EXCEPT ![j] = new]

\* UPDATE upload_jobs ... WHERE id: nothing happens when the row is gone.
UpdateRow(j, new) ==
    row' = IF row[j].status = "absent" THEN row ELSE [row EXCEPT ![j] = new]

\* Nothing of slot s changes but where it stands.
Step(s, from, to) ==
    /\ pc[s] = from
    /\ Goto(s, to)
    /\ UNCHANGED <<queueVars, httpVars, envVars>>

Start(s) ==
    LET j == work[s].job
    IN  /\ Step(s, "start", "resolve")
        /\ UpdateRow(j, [row[j] EXCEPT !.status = "processing"])
        /\ UNCHANGED <<stored, fileVars, work>>

\* The temp file's path: a download of its own, or multer's file.
Resolve(s) ==
    LET j == work[s].job
    IN  /\ Step(s, "resolve", "count")
        /\ downloads' = IF UseS3 THEN [downloads EXCEPT ![j] = @ + 1]
                        ELSE downloads
        /\ work' = [work EXCEPT ![s].file = TRUE]
        /\ UNCHANGED <<dataVars, upload, object, unlinks, lost>>

\* downloadToTemp rejects before, or after, it has created the file; filePath
\* stays null either way.
DownloadFails(s) ==
    LET j == work[s].job
    IN  /\ UseS3 /\ pc[s] = "resolve"
        /\ faults < MaxFaults
        /\ faults' = faults + 1
        /\ Goto(s, "catch")
        /\ \/ downloads' = downloads
           \/ downloads' = [downloads EXCEPT ![j] = @ + 1]
        /\ UNCHANGED <<dataVars, queueVars, upload, object, unlinks, lost,
                       httpVars, work, crashes, lockLosses, unreported,
                       clears>>

FileThere(s) == UseS3 \/ upload[work[s].job]

\* Pass 1 of a CSV reads every row.  Of an Excel file sheetRows: 1 leaves only
\* the header in !ref, whose end row is 0.
TotalRows(j) == IF j \in CsvJobs THEN NumRows[j] ELSE 0

Count(s) ==
    /\ Step(s, "count", "total")
    /\ FileThere(s)
    /\ UNCHANGED <<dataVars, fileVars, work>>

\* Fault: the total never reaches the row.
RecordNoTotal(s) ==
    LET j == work[s].job
    IN  /\ Step(s, "total", "open")
        /\ UpdateRow(j, [row[j] EXCEPT !.status = "processing"])
        /\ UNCHANGED <<stored, fileVars, work>>

RecordTotal(s) ==
    LET j == work[s].job
    IN  /\ Step(s, "total", "open")
        /\ UpdateRow(j, [row[j] EXCEPT !.status = "processing",
                                       !.total = TotalRows(j)])
        /\ UNCHANGED <<stored, fileVars, work>>

\* Pass 2 opens the file again.
Open(s) ==
    /\ Step(s, "open", "read")
    /\ FileThere(s)
    /\ UNCHANGED <<dataVars, fileVars, work>>

\* xlsx.readFile throws when the file is gone.
ExcelFileGone(s) ==
    /\ pc[s] \in {"count", "open"} /\ ~FileThere(s)
    /\ work[s].job \notin CsvJobs
    /\ Goto(s, "catch")
    /\ UNCHANGED <<dataVars, queueVars, fileVars, httpVars, work, envVars>>

Working(s, j) == pc[s] # "idle" /\ work[s].job = j

\* The handlers of job j that have a temp file and not yet asked for its end.
Holding(j) == {s \in Slots : Working(s, j) /\ work[s].file /\ pc[s] # "settle"}

\* All slots live in one process.  Its locks stay until they run out, and no
\* unlink that it had still to make is made.
WorkerDies ==
    /\ unlinks' = [j \in Jobs |-> 0]
    /\ lost' = [j \in Jobs |-> lost[j] + unlinks[j] + Cardinality(Holding(j))]
    /\ pc' = [s \in Slots |-> "idle"]
    /\ work' = [s \in Slots |-> IdleWork]
    /\ lock' = [j \in Jobs |-> IF lock[j] \in Slots THEN Dead ELSE lock[j]]
    /\ crashes' = crashes + 1
    /\ UNCHANGED <<dataVars, queue, attempts, stalls, upload, object,
                   downloads, httpVars, faults, lockLosses, unreported,
                   clears>>

\* createReadStream(...).pipe(parseCsv(...)): pipe does not forward the read
\* stream's error event, nobody listens to it, and the process has no handler
\* for uncaught exceptions.
CsvFileGone(s) ==
    /\ pc[s] \in {"count", "open"} /\ ~FileThere(s)
    /\ work[s].job \in CsvJobs
    /\ WorkerDies

\* One iteration of pass 2: a row is counted as failed or joins the batch.
ReadRow(s) ==
    LET j == work[s].job
        r == work[s].pos + 1
        bad == r \in BadRows[j]
        batch == IF bad THEN work[s].batch ELSE work[s].batch \union {r}
    IN  /\ Step(s, "read",
                IF Cardinality(batch) >= BatchSize THEN "upsert" ELSE "read")
        /\ r <= NumRows[j] /\ r \notin TypedRows[j]
        /\ work' = [work EXCEPT ![s].pos = r,
                                ![s].batch = batch,
                                ![s].failed = IF bad THEN @ + 1 ELSE @]
        /\ UNCHANGED <<dataVars, fileVars>>

\* rawValue?.trim() of a cell that is no text: the error ends the attempt.
RowThrows(s) ==
    LET r == work[s].pos + 1
    IN  /\ pc[s] = "read"
        /\ r <= NumRows[work[s].job] /\ r \in TypedRows[work[s].job]
        /\ Goto(s, "catch")
        /\ UNCHANGED <<dataVars, queueVars, fileVars, httpVars, work, envVars>>

\* After the loop: the final flush, which returns at once on an empty batch.
EndOfFile(s) ==
    /\ Step(s, "read", IF work[s].batch = {} THEN "done" ELSE "upsert")
    /\ work[s].pos = NumRows[work[s].job]
    /\ UNCHANGED <<dataVars, fileVars, work>>

ContactsOf(j, rows) == {ContactOf[j][r] : r \in rows}

\* The contacts cs are inserted with source_batch_id j, or, being there, handed
\* to j from the upload that created or last updated them.
Store(j, cs) ==
    stored' = [k \in Jobs |-> IF k = j THEN stored[k] \union cs
                              ELSE stored[k] \ cs]

\* bulkUpsertContacts is one INSERT: the whole batch or nothing.  Rows of one
\* contact become one, but batch.length is what the handler counts.
Upsert(s) ==
    LET j == work[s].job
    IN  /\ Step(s, "upsert", "increment")
        /\ Store(j, ContactsOf(j, work[s].batch))
        /\ work' = [work EXCEPT ![s].processed = @ + Cardinality(work[s].batch)]
        /\ UNCHANGED <<row, fileVars>>

\* Fault: the rows of a batch that failed are counted as processed.
UpsertFailureCounted(s) ==
    /\ pc[s] = "upsert"
    /\ faults < MaxFaults
    /\ faults' = faults + 1
    /\ Goto(s, "increment")
    /\ work' = [work EXCEPT ![s].processed = @ + Cardinality(work[s].batch)]
    /\ UNCHANGED <<dataVars, queueVars, fileVars, httpVars, crashes,
                   lockLosses, unreported, clears>>

UpsertFails(s) ==
    /\ pc[s] = "upsert"
    /\ faults < MaxFaults
    /\ faults' = faults + 1
    /\ Goto(s, "increment")
    /\ work' = [work EXCEPT ![s].failed = @ + Cardinality(work[s].batch)]
    /\ UNCHANGED <<dataVars, queueVars, fileVars, httpVars, crashes,
                   lockLosses, unreported, clears>>

\* incrementJobProgress(jobId, batch.length, 0), whatever became of the batch.
Increment(s) ==
    LET j == work[s].job
    IN  /\ Step(s, "increment", "progress")
        /\ UpdateRow(j, [row[j] EXCEPT
                            !.processed = @ + Cardinality(work[s].batch)])
        /\ UNCHANGED <<stored, fileVars, work>>

\* job.updateProgress rejects when the entry is no longer in Redis.
UpdateProgress(s) ==
    \/ /\ Step(s, "progress", "read")
       /\ queue[work[s].job] # "absent"
       /\ work' = [work EXCEPT ![s].batch = {}]
       /\ UNCHANGED <<dataVars, fileVars>>
    \/ /\ Step(s, "progress", "catch")
       /\ queue[work[s].job] = "absent"
       /\ UNCHANGED <<dataVars, fileVars, work>>

\* Fault: only the status is written, the counters are left as incremented.
MarkDoneKeepsCounters(s) ==
    LET j == work[s].job
    IN  /\ Step(s, "done", "finally")
        /\ UpdateRow(j, [row[j] EXCEPT !.status = "done"])
        /\ UNCHANGED <<stored, fileVars, work>>

MarkDone(s) ==
    LET j == work[s].job
    IN  /\ Step(s, "done", "finally")
        /\ UpdateRow(j, [row[j] EXCEPT !.status = "done",
                                       !.processed = work[s].processed,
                                       !.failed = work[s].failed])
        /\ UNCHANGED <<stored, fileVars, work>>

\* One of the awaited UPDATEs, or job.updateProgress, rejects.
UpdateThrows(s) ==
    /\ pc[s] \in {"start", "total", "increment", "progress", "done"}
    /\ faults < MaxFaults
    /\ faults' = faults + 1
    /\ Goto(s, "catch")
    /\ UNCHANGED <<dataVars, queueVars, fileVars, httpVars, work, crashes,
                   lockLosses, unreported, clears>>

\* Fault: the error is swallowed, BullMQ sees a success.
MarkFailedNoRethrow(s) ==
    LET j == work[s].job
    IN  /\ Step(s, "catch", "finally")
        /\ UpdateRow(j, [row[j] EXCEPT !.status = "failed"])
        /\ UNCHANGED <<stored, fileVars, work>>

\* Fault: the error is rethrown, the row is not told.
RethrowOnly(s) ==
    /\ Step(s, "catch", "finally")
    /\ work' = [work EXCEPT ![s].threw = TRUE]
    /\ UNCHANGED <<dataVars, fileVars>>

MarkFailed(s) ==
    LET j == work[s].job
    IN  /\ Step(s, "catch", "finally")
        /\ UpdateRow(j, [row[j] EXCEPT !.status = "failed"])
        /\ work' = [work EXCEPT ![s].threw = TRUE]
        /\ UNCHANGED <<stored, fileVars>>

MarkFailedThrows(s) ==
    /\ pc[s] = "catch"
    /\ faults < MaxFaults
    /\ faults' = faults + 1
    /\ Goto(s, "finally")
    /\ unreported' = [unreported EXCEPT ![work[s].job] = TRUE]
    /\ work' = [work EXCEPT ![s].threw = TRUE]
    /\ UNCHANGED <<dataVars, queueVars, fileVars, httpVars, crashes,
                   lockLosses, clears>>

\* Fault: the temp file is deleted on success only.
UnlinkOnSuccess(s) ==
    LET j == work[s].job
    IN  /\ Step(s, "finally", "settle")
        /\ unlinks' = IF work[s].file /\ ~work[s].threw
                      THEN [unlinks EXCEPT ![j] = @ + 1] ELSE unlinks
        /\ UNCHANGED <<dataVars, upload, object, downloads, lost, work>>

\* Fault: only a download is deleted, multer's file is taken for another's.
UnlinkDownloadOnly(s) ==
    LET j == work[s].job
    IN  /\ Step(s, "finally", "settle")
        /\ unlinks' = IF work[s].file /\ UseS3
                      THEN [unlinks EXCEPT ![j] = @ + 1] ELSE unlinks
        /\ UNCHANGED <<dataVars, upload, object, downloads, lost, work>>

\* Fault: the handler waits for an unlink that is never called without a path.
AwaitUnlink(s) ==
    LET j == work[s].job
    IN  /\ Step(s, "finally", "settle")
        /\ work[s].file
        /\ unlinks' = [unlinks EXCEPT ![j] = @ + 1]
        /\ UNCHANGED <<dataVars, upload, object, downloads, lost, work>>

\* fs.unlink is called when filePath was set, and not awaited.
Finally(s) ==
    LET j == work[s].job
    IN  /\ Step(s, "finally", "settle")
        /\ unlinks' = IF work[s].file THEN [unlinks EXCEPT ![j] = @ + 1]
                      ELSE unlinks
        /\ UNCHANGED <<dataVars, upload, object, downloads, lost, work>>

\* The unlink calls back: the slot's download is gone, or multer's file, which an
\* earlier attempt's unlink may have taken already (a warning).
Unlink(j) ==
    /\ unlinks[j] > 0
    /\ unlinks' = [unlinks EXCEPT ![j] = @ - 1]
    /\ downloads' = IF UseS3 THEN [downloads EXCEPT ![j] = @ - 1] ELSE downloads
    /\ upload' = IF UseS3 THEN upload ELSE [upload EXCEPT ![j] = FALSE]
    /\ UNCHANGED <<dataVars, queueVars, object, lost, httpVars, slotVars,
                   envVars>>

\* The unlink calls back with an error: a warning, and the file stays.
UnlinkFails(j) ==
    /\ unlinks[j] > 0
    /\ faults < MaxFaults
    /\ faults' = faults + 1
    /\ unlinks' = [unlinks EXCEPT ![j] = @ - 1]
    /\ lost' = [lost EXCEPT ![j] = @ + 1]
    /\ UNCHANGED <<dataVars, queueVars, upload, object, downloads, httpVars,
                   slotVars, crashes, lockLosses, unreported, clears>>

\* A deploy whose kill_timeout runs out, max_memory_restart, a power cut.
Crash ==
    /\ crashes < MaxCrashes
    /\ WorkerDies

(***************************************************************************)
(* DELETE /api/delete/job/:jobId and /api/delete/segment/:segment          *)
(***************************************************************************)

Settled(j) == queue[j] \in {"completed", "failed"}

\* deleteContactsBySegment: the segment's contacts go, whatever uploads they
\* came from; jobs and queue are not looked at.
DeleteSegment ==
    /\ clears < MaxClears
    /\ clears' = clears + 1
    /\ stored' = [j \in Jobs |-> {}]
    /\ UNCHANGED <<row, queueVars, fileVars, httpVars, slotVars, faults,
                   crashes, lockLosses, unreported>>

\* deleteContactsByBatch: those whose source_batch_id is the job.
DeleteContacts(j) ==
    /\ del[j] = "idle" /\ row[j].status # "absent"
    /\ stored' = [stored EXCEPT ![j] = {}]
    /\ del' = [del EXCEPT ![j] = "queue"]
    /\ quiet' = [quiet EXCEPT ![j] =
            Settled(j) /\ \A s \in Slots : ~Working(s, j)]
    /\ UNCHANGED <<row, queueVars, fileVars, api, slotVars, envVars>>

\* Fault: the entry is left in the queue.
LeaveInQueue(j) ==
    /\ del[j] = "queue"
    /\ del' = [del EXCEPT ![j] = "row"]
    /\ UNCHANGED <<dataVars, queueVars, fileVars, api, quiet, slotVars, envVars>>

\* getJob and remove, which is refused while the entry is locked; the refusal is
\* swallowed.
RemoveFromQueue(j) ==
    /\ del[j] = "queue"
    /\ queue' = IF lock[j] = Free THEN [queue EXCEPT ![j] = "absent"] ELSE queue
    /\ del' = [del EXCEPT ![j] = "row"]
    /\ UNCHANGED <<dataVars, lock, attempts, stalls, fileVars, api, quiet,
                   slotVars, envVars>>

\* So is any other error of the two, that Redis does not answer, say.
RemoveFails(j) ==
    /\ del[j] = "queue"
    /\ faults < MaxFaults
    /\ faults' = faults + 1
    /\ del' = [del EXCEPT ![j] = "row"]
    /\ UNCHANGED <<dataVars, queueVars, fileVars, api, quiet, slotVars,
                   crashes, lockLosses, unreported, clears>>

DeleteRow(j) ==
    /\ del[j] = "row"
    /\ row' = [row EXCEPT ![j] = NoRow]
    /\ del' = [del EXCEPT ![j] = "finished"]
    /\ UNCHANGED <<stored, queueVars, fileVars, api, quiet, slotVars, envVars>>

\* The last DELETE rejects: the handler answers 500.
DeleteRowFails(j) ==
    /\ del[j] = "row"
    /\ faults < MaxFaults
    /\ faults' = faults + 1
    /\ del' = [del EXCEPT ![j] = "error"]
    /\ UNCHANGED <<dataVars, queueVars, fileVars, api, quiet, slotVars,
                   crashes, lockLosses, unreported, clears>>

(***************************************************************************)
(* The specification                                                       *)
(***************************************************************************)

HttpStep(j) ==
    \/ CreateJob(j) \/ UploadFile(j) \/ AddToQueue(j)
    \/ RemoveFromQueue(j) \/ DeleteRow(j)

QueueStep(j) == BackoffEnds(j) \/ LockExpires(j) \/ StalledCheck(j)

SlotStep(s) ==
    \/ Start(s) \/ Resolve(s) \/ Count(s) \/ RecordTotal(s) \/ Open(s)
    \/ ExcelFileGone(s) \/ CsvFileGone(s)
    \/ ReadRow(s) \/ RowThrows(s) \/ EndOfFile(s)
    \/ Upsert(s) \/ Increment(s) \/ UpdateProgress(s) \/ MarkDone(s)
    \/ MarkFailed(s) \/ Finally(s) \/ Settle(s)

Fault ==
    \/ \E s \in Slots : \/ DownloadFails(s) \/ UpsertFails(s)
                        \/ UpdateThrows(s) \/ MarkFailedThrows(s)
    \/ \E j \in Jobs : \/ EnqueueFails(j) \/ RemoveFails(j) \/ DeleteRowFails(j)
                       \/ UnlinkFails(j) \/ LoseLock(j)
    \/ Crash

Next ==
    \/ \E j \in Jobs : \/ Receive(j) \/ Reject(j) \/ DeleteContacts(j)
                       \/ HttpStep(j) \/ QueueStep(j) \/ Unlink(j)
    \/ DeleteSegment
    \/ \E s \in Slots : SlotStep(s) \/ \E j \in Jobs : Take(s, j)
    \/ Fault

Spec == Init /\ [][Next]_vars

\* A handler that was called goes on, an unlink calls back, the queue's timers
\* fire, and an idle slot fetches.  Uploads, deletions, faults and crashes need
\* never happen.
Fairness ==
    /\ \A j \in Jobs : /\ WF_vars(HttpStep(j)) /\ WF_vars(QueueStep(j))
                       /\ WF_vars(Unlink(j))
    /\ \A s \in Slots : WF_vars(SlotStep(s))
    /\ WF_vars(\E s \in Slots, j \in Jobs : Take(s, j))

FairSpec == Spec /\ Fairness

(***************************************************************************)
(* Properties                                                              *)
(***************************************************************************)

RowType == [status : Status, total : Nat, processed : Nat, failed : Nat]
WorkType == [job : Jobs \union {NoJob}, pos : Nat, batch : SUBSET Nat,
             processed : Nat, failed : Nat, file : BOOLEAN, threw : BOOLEAN]

\* The contacts the files are about.
Contacts == UNION {ContactsOf(j, 1..NumRows[j]) : j \in Jobs}

DataTypeOK ==
    /\ row \in [Jobs -> RowType]
    /\ stored \in [Jobs -> SUBSET Contacts]

QueueTypeOK ==
    /\ queue \in [Jobs -> {"absent", "waiting", "active", "delayed",
                           "completed", "failed"}]
    /\ lock \in [Jobs -> Slots \union {Free, Dead}]
    /\ attempts \in [Jobs -> Nat]
    /\ stalls \in [Jobs -> Nat]

FileTypeOK ==
    /\ upload \in [Jobs -> BOOLEAN]
    /\ object \in [Jobs -> BOOLEAN]
    /\ downloads \in [Jobs -> Int]
    /\ unlinks \in [Jobs -> Nat] /\ lost \in [Jobs -> Nat]

HttpTypeOK ==
    /\ api \in [Jobs -> {"idle", "received", "rejected", "uploading",
                         "adding", "accepted", "error"}]
    /\ del \in [Jobs -> {"idle", "queue", "row", "finished", "error"}]
    /\ quiet \in [Jobs -> BOOLEAN]

SlotTypeOK ==
    /\ pc \in [Slots -> Labels]
    /\ work \in [Slots -> WorkType]
    /\ \A s \in Slots : work[s].batch \subseteq 1..work[s].pos
    /\ \A s \in Slots : pc[s] # "idle" =>
            work[s].job \in Jobs /\ work[s].pos <= NumRows[work[s].job]

EnvTypeOK ==
    /\ faults \in Nat /\ crashes \in Nat /\ lockLosses \in Nat
    /\ clears \in Nat
    /\ unreported \in [Jobs -> BOOLEAN]

\* Shapes of the state: the status column's values, the entry's states, the
\* labels of processJob's awaits, and a batch made of rows that were read.
TypeOK ==
    /\ DataTypeOK /\ QueueTypeOK /\ FileTypeOK
    /\ HttpTypeOK /\ SlotTypeOK /\ EnvTypeOK

\* As long as no lock expires under a running handler, no two slots run
\* processJob for the same job, across kills, stalled checks, retries and
\* deletions: the counters and the temp file of a job have one user at a time.
OneHandlerPerJob ==
    lockLosses = 0 =>
        \A j \in Jobs : \A s, t \in Slots :
            Working(s, j) /\ Working(t, j) => s = t

\* A job reported 'done' accounts for every row of its file, once: rows that
\* were turned down, rows of a batch that failed, and rows that were upserted
\* add up to the file, whatever earlier attempts left in the counters.
DoneAddsUp ==
    lockLosses = 0 =>
        \A j \in Jobs : row[j].status = "done" =>
            row[j].processed + row[j].failed = NumRows[j]

\* The rows of job j's file whose contact is in the table, whatever upload the
\* contact is credited to by now.
InTable(j) ==
    {r \in 1..NumRows[j] : ContactOf[j][r] \in UNION {stored[k] : k \in Jobs}}

\* A job reported 'done' with n processed rows has n rows whose contacts are in
\* the table, under this job or under one that shares them, over retries, kills
\* and uploads that take contacts from one another, as long as nothing has been
\* deleted: no batch that failed or was never sent is counted as processed.
DoneIsStored ==
    lockLosses = 0 /\ clears = 0 /\ (\A j \in Jobs : del[j] = "idle") =>
        \A j \in Jobs : row[j].status = "done" =>
            row[j].processed <= Cardinality(InTable(j))

\* During the first run of a CSV job the progress shown, processed_rows out of
\* total_rows, stays within 100 %.  (A second run adds to the counters the first
\* one left, and may show more.)
FirstRunProgress ==
    lockLosses = 0 =>
        \A j \in CsvJobs : attempts[j] = 0 /\ stalls[j] = 0 =>
            row[j].processed <= row[j].total

\* When the queue is finished with a job, its row says how it ended: completed
\* means 'done', failed means 'failed'.  The exceptions are an entry that stalled
\* once too often, and an UPDATE to 'failed' that failed itself.
OutcomeReported ==
    lockLosses = 0 =>
        \A j \in Jobs : stalls[j] <= MaxStalled =>
            /\ queue[j] = "completed" => row[j].status \in {"done", "absent"}
            /\ queue[j] = "failed" =>
                    row[j].status \in {"failed", "absent"} \/ unreported[j]

\* A queued entry has a row the portal can show: enqueue inserts it first, and
\* only a deletion takes it away.
QueuedJobHasRow ==
    \A j \in Jobs : queue[j] # "absent" /\ del[j] # "finished" =>
        row[j].status # "absent"

\* Local storage: once the queue is finished with a job and no unlink is under
\* way, multer's file is gone, unless an unlink failed, the worker was killed, or
\* every attempt failed before it had the path.
LocalFileDeleted ==
    ~UseS3 /\ crashes = 0 /\ lockLosses = 0 /\ faults < MaxAttempts =>
        \A j \in Jobs :
            Settled(j) /\ unlinks[j] = 0 /\ lost[j] = 0 => ~upload[j]

\* S3 storage: the downloads on disk are those of handlers that still run, those
\* whose unlink has not called back, those lost (an unlink that failed, or that
\* the worker was killed before), and at most one for each other call that failed.
DownloadsAccounted ==
    \A j \in Jobs :
        /\ downloads[j] >= 0
        /\ downloads[j] <= faults + lost[j] + unlinks[j] + Cardinality(Holding(j))

\* Deleting a job the queue had finished with, while nobody worked on it, is
\* final: no contact and no row of the job ever comes back, and its entry is gone
\* or, when a call failed and the handler ignored it, stays finished.
DeletedForGood ==
    \A j \in Jobs : del[j] = "finished" /\ quiet[j] =>
        /\ stored[j] = {} /\ row[j].status = "absent"
        /\ queue[j] = "absent" \/ (Settled(j) /\ faults > 0)

\* Once the queue is finished with a job nobody touches its row any more, except
\* to delete it.
OutcomeIsFinal ==
    [][lockLosses = 0 =>
        \A j \in Jobs : Settled(j) =>
            row'[j] = row[j] \/ row'[j] = NoRow]_vars

\* The pipeline is an implementation of JobLifecycle, with a run of a job under
\* way while some slot works on it: retries, re-runs of stalled entries and kills
\* never let two runs write one row, none skips 'processing', and a run finishes
\* with the whole file counted.
Lifecycle == INSTANCE JobLifecycle
    WITH running <- {j \in Jobs : \E s \in Slots : Working(s, j)}

ImplementsLifecycle == Lifecycle!Spec

\* Every job that was queued leaves the queue: completed, failed or deleted.
JobsSettle ==
    \A j \in Jobs : queue[j] = "waiting" ~> (Settled(j) \/ queue[j] = "absent")

\* Every accepted upload is in the end reported done or failed, for good, or is
\* deleted.  The exceptions are those of OutcomeReported, and a deletion that
\* broke off and left the row as it was.
UploadsReported ==
    \A j \in Jobs :
        api[j] = "accepted" ~>
            [](\/ row[j].status \in {"done", "failed", "absent"}
               \/ del[j] = "error" \/ unreported[j]
               \/ stalls[j] > MaxStalled \/ lockLosses > 0)

(***************************************************************************)
(* What comments and documents say of the pipeline, and the code does not  *)
(* keep.                                                                   *)
(***************************************************************************)

\* normaliserWorker.ts:10, "Update job status -> 'done' or 'failed'": when the
\* queue is finished with a job, its row no longer says 'processing'.
SettledIsReported ==
    \A j \in Jobs : Settled(j) => row[j].status \in {"done", "failed", "absent"}

\* delete.ts:28, "Delete a specific job and its contacts": after the deletion no
\* contact carries the job's id.
DeletedMeansGone ==
    \A j \in Jobs : del[j] = "finished" => stored[j] = {}

=============================================================================
