------------------------ MODULE IngestPipelineProofs ------------------------
(***************************************************************************)
(* Theorems about IngestPipeline, for every set of jobs and slots, every    *)
(* file, both kinds of storage and every number of faults.  In this order:  *)
(*   - types; one handler per job; the rows of a file are accounted for;    *)
(*   - what becomes of an upload: the row of a queued job, deletions, how a *)
(*     job ends, what a finished job has in the table, the progress of a    *)
(*     first run;                                                           *)
(*   - temporary files and downloads;                                       *)
(*   - IngestPipeline implements JobLifecycle: as long as no lock expires   *)
(*     under a running handler, whoever polls the row of a job sees one run *)
(*     at a time start, advance by batches and end, whatever queue,         *)
(*     retries, kills and deletions do behind it.                           *)
(***************************************************************************)
EXTENDS IngestPipeline, FiniteSetTheorems, TLAPS

USE DEF Status, Labels

(***************************************************************************)
(* Types                                                                   *)
(***************************************************************************)

\* The batch of a slot is finite, so that its length is a number.
LEMMA BatchLength ==
    ASSUME SlotTypeOK, NEW s \in Slots
    PROVE  /\ IsFiniteSet(work[s].batch)
           /\ Cardinality(work[s].batch) \in Nat
<1>1. work[s].pos \in Nat /\ work[s].batch \subseteq 1..work[s].pos
  BY DEF SlotTypeOK, WorkType
<1>2. IsFiniteSet(1..work[s].pos)
  BY <1>1, FS_Interval
<1>3. IsFiniteSet(work[s].batch)
  BY <1>1, <1>2, FS_Subset
<1> QED
  BY <1>3, FS_CardinalityType

LEMMA IdleWorkType == IdleWork \in WorkType /\ IdleWork.batch = {}
BY DEF IdleWork, WorkType

\* UpdateRow writes a row of the table, or nothing.
LEMMA UpdateRowType ==
    ASSUME row \in [Jobs -> RowType], NEW j \in Jobs, NEW new \in RowType,
           UpdateRow(j, new)
    PROVE  row' \in [Jobs -> RowType]
BY DEF UpdateRow

\* A step inside processJob leaves queue, handlers and environment alone.
LEMMA StepType ==
    ASSUME TypeOK, NEW s \in Slots, NEW from \in Labels \ {"idle"},
           NEW to \in Labels, Step(s, from, to)
    PROVE  /\ QueueTypeOK' /\ HttpTypeOK' /\ EnvTypeOK'
           /\ pc' \in [Slots -> Labels]
           /\ work[s].job \in Jobs
           /\ row[work[s].job] \in RowType
           /\ work[s] \in WorkType
BY DEF Step, Goto, TypeOK, QueueTypeOK, HttpTypeOK, EnvTypeOK, SlotTypeOK,
       DataTypeOK, queueVars, httpVars, envVars

\* The slot part of the type invariant, when one slot that works moves on with
\* new local variables for the same job.
LEMMA WorkStepType ==
    ASSUME SlotTypeOK, NEW s \in Slots, pc[s] # "idle",
           NEW to \in Labels, Goto(s, to),
           NEW w \in WorkType, work' = [work EXCEPT ![s] = w],
           w.job = work[s].job, w.batch \subseteq 1..w.pos,
           w.pos <= NumRows[w.job]
    PROVE  SlotTypeOK'
<1>1. \A t \in Slots : t # s => work'[t] = work[t] /\ pc'[t] = pc[t]
  BY DEF SlotTypeOK, Goto
<1>2. work'[s] = w /\ w.job \in Jobs
  BY DEF SlotTypeOK
<1>3. work' \in [Slots -> WorkType] /\ pc' \in [Slots -> Labels]
  BY DEF SlotTypeOK, Goto
<1> QED
  BY <1>1, <1>2, <1>3 DEF SlotTypeOK

\* The same when the local variables stay.
LEMMA SameWorkType ==
    ASSUME SlotTypeOK, NEW s \in Slots, pc[s] # "idle",
           NEW to \in Labels, Goto(s, to), work' = work
    PROVE  SlotTypeOK'
BY DEF SlotTypeOK, Goto

LEMMA InitTypeOK == Init => TypeOK
BY IdleWorkType
DEF Init, TypeOK, DataTypeOK, QueueTypeOK, FileTypeOK, HttpTypeOK, SlotTypeOK,
    EnvTypeOK, RowType, NoRow

\* The slots that have a file to unlink can be counted.
LEMMA HoldingCount ==
    ASSUME NEW j
    PROVE  /\ Holding(j) \in SUBSET Slots
           /\ Cardinality(Holding(j)) \in Nat
BY NamesAssumption, FS_Subset, FS_CardinalityType DEF Holding

LEMMA WorkerDiesTypeOK == TypeOK /\ WorkerDies => TypeOK'
<1> SUFFICES ASSUME TypeOK, WorkerDies PROVE TypeOK'
  OBVIOUS
<1>1. FileTypeOK'
  <2>1. \A j \in Jobs : lost[j] + unlinks[j] + Cardinality(Holding(j)) \in Nat
    BY HoldingCount DEF TypeOK, FileTypeOK
  <2> QED BY <2>1 DEF WorkerDies, TypeOK, FileTypeOK
<1>2. DataTypeOK' /\ QueueTypeOK' /\ HttpTypeOK' /\ SlotTypeOK' /\ EnvTypeOK'
  BY IdleWorkType
  DEF TypeOK, DataTypeOK, QueueTypeOK, HttpTypeOK, SlotTypeOK, EnvTypeOK,
      WorkerDies, dataVars, httpVars
<1> QED BY <1>1, <1>2 DEF TypeOK

\* The unlinks of the worker's handlers, and the deletion of the segment.
LEMMA AsideTypeOK ==
    ASSUME TypeOK,
           \/ \E j \in Jobs : Unlink(j) \/ UnlinkFails(j)
           \/ DeleteSegment
    PROVE  TypeOK'
<1> USE DEF TypeOK, DataTypeOK, QueueTypeOK, FileTypeOK, HttpTypeOK,
            SlotTypeOK, EnvTypeOK, dataVars, queueVars, fileVars, httpVars,
            slotVars, envVars
<1>1. ASSUME NEW j \in Jobs, Unlink(j)      PROVE TypeOK'  BY <1>1 DEF Unlink
<1>2. ASSUME NEW j \in Jobs, UnlinkFails(j) PROVE TypeOK'
  BY <1>2 DEF UnlinkFails
<1>3. CASE DeleteSegment                    BY <1>3 DEF DeleteSegment
<1> QED BY <1>1, <1>2, <1>3

\* The ingest and delete handlers.
LEMMA HandlersTypeOK ==
    ASSUME TypeOK, NEW j \in Jobs,
           \/ Receive(j) \/ Reject(j) \/ DeleteContacts(j) \/ HttpStep(j)
           \/ EnqueueFails(j) \/ RemoveFails(j) \/ DeleteRowFails(j)
    PROVE  TypeOK'
<1> USE DEF TypeOK, DataTypeOK, QueueTypeOK, FileTypeOK, HttpTypeOK,
            SlotTypeOK, EnvTypeOK, RowType, NoRow, dataVars, queueVars,
            fileVars, httpVars, slotVars, envVars
<1>1. CASE Receive(j)          BY <1>1 DEF Receive
<1>2. CASE Reject(j)           BY <1>2 DEF Reject
<1>3. CASE CreateJob(j)        BY <1>3 DEF CreateJob
<1>4. CASE UploadFile(j)       BY <1>4 DEF UploadFile
<1>5. CASE AddToQueue(j)       BY <1>5 DEF AddToQueue
<1>6. CASE EnqueueFails(j)     BY <1>6 DEF EnqueueFails
<1>7. CASE DeleteContacts(j)   BY <1>7 DEF DeleteContacts
<1>8. CASE RemoveFromQueue(j)  BY <1>8 DEF RemoveFromQueue
<1>9. CASE DeleteRow(j)        BY <1>9 DEF DeleteRow
<1>10. CASE RemoveFails(j) \/ DeleteRowFails(j)
  BY <1>10 DEF RemoveFails, DeleteRowFails
<1> QED
  BY <1>1, <1>2, <1>3, <1>4, <1>5, <1>6, <1>7, <1>8, <1>9, <1>10 DEF HttpStep

LEMMA TakeTypeOK ==
    ASSUME TypeOK, NEW j \in Jobs, NEW s \in Slots, Take(s, j)
    PROVE  TypeOK'
<1>1. QueueTypeOK'
  BY DEF Take, TypeOK, QueueTypeOK
<1>2. SlotTypeOK'
  <2> DEFINE w == [IdleWork EXCEPT !.job = j]
  <2>1. /\ w \in WorkType /\ w.job = j /\ w.batch = {}
        /\ w.pos <= NumRows[w.job]
    <3>1. w \in WorkType /\ w.job = j /\ w.batch = {} /\ w.pos = 0
      BY DEF IdleWork, WorkType
    <3>2. NumRows[j] \in Nat
      BY FilesAssumption
    <3> HIDE DEF w
    <3> QED BY <3>1, <3>2
  <2>2. Goto(s, "start") /\ work' = [work EXCEPT ![s] = w]
    BY DEF Take
  <2> HIDE DEF w
  <2> QED BY <2>1, <2>2 DEF TypeOK, SlotTypeOK, Goto
<1>3. DataTypeOK' /\ FileTypeOK' /\ HttpTypeOK' /\ EnvTypeOK'
  BY DEF Take, TypeOK, DataTypeOK, FileTypeOK, HttpTypeOK, EnvTypeOK,
         dataVars, fileVars, httpVars, envVars
<1> QED
  BY <1>1, <1>2, <1>3 DEF TypeOK

\* The timers of the queue, and the entry a slot takes.
LEMMA TimersTypeOK ==
    ASSUME TypeOK, NEW j \in Jobs,
           QueueStep(j) \/ LoseLock(j) \/ \E s \in Slots : Take(s, j)
    PROVE  TypeOK'
<1> USE DEF TypeOK, DataTypeOK, QueueTypeOK, FileTypeOK, HttpTypeOK,
            SlotTypeOK, EnvTypeOK, dataVars, queueVars, fileVars, httpVars,
            slotVars, envVars
<1>2. CASE BackoffEnds(j)   BY <1>2 DEF BackoffEnds
<1>3. CASE LockExpires(j)   BY <1>3 DEF LockExpires
<1>4. CASE StalledCheck(j)  BY <1>4 DEF StalledCheck
<1>5. CASE LoseLock(j)      BY <1>5 DEF LoseLock
<1> HIDE DEF TypeOK, DataTypeOK, QueueTypeOK, FileTypeOK, HttpTypeOK,
             SlotTypeOK, EnvTypeOK
<1>6. CASE \E s \in Slots : Take(s, j)
  BY <1>6, TakeTypeOK
<1> QED
  BY <1>2, <1>3, <1>4, <1>5, <1>6 DEF QueueStep

LEMMA SettleTypeOK ==
    ASSUME TypeOK, NEW s \in Slots, Settle(s)
    PROVE  TypeOK'
<1>1. work[s].job \in Jobs /\ attempts[work[s].job] + 1 \in Nat
  BY DEF Settle, TypeOK, SlotTypeOK, QueueTypeOK
<1>2. QueueTypeOK'
  BY <1>1 DEF Settle, TypeOK, QueueTypeOK
<1>3. SlotTypeOK'
  BY IdleWorkType DEF Settle, Goto, TypeOK, SlotTypeOK
<1>4. DataTypeOK' /\ FileTypeOK' /\ HttpTypeOK' /\ EnvTypeOK'
  BY DEF Settle, TypeOK, DataTypeOK, FileTypeOK, HttpTypeOK, EnvTypeOK,
         dataVars, fileVars, httpVars, envVars
<1> QED
  BY <1>2, <1>3, <1>4 DEF TypeOK

\* An await of processJob that only writes the row.
LEMMA RowStepTypeOK ==
    ASSUME TypeOK, NEW s \in Slots,
           Start(s) \/ RecordTotal(s) \/ Increment(s) \/ MarkDone(s)
    PROVE  TypeOK'
<1> DEFINE j == work[s].job
<1>1. ASSUME NEW from \in Labels \ {"idle"}, NEW to \in Labels,
             Step(s, from, to), NEW new \in RowType, UpdateRow(j, new),
             UNCHANGED <<stored, fileVars, work>>
      PROVE  TypeOK'
  <2>1. QueueTypeOK' /\ HttpTypeOK' /\ EnvTypeOK'
    BY <1>1, StepType
  <2>2. DataTypeOK'
    <3>1. row \in [Jobs -> RowType] /\ j \in Jobs
      BY <1>1, StepType DEF TypeOK, DataTypeOK
    <3>2. row' \in [Jobs -> RowType]
      BY <1>1, <3>1, UpdateRowType
    <3> QED BY <1>1, <3>2 DEF TypeOK, DataTypeOK
  <2>3. FileTypeOK'
    BY <1>1 DEF TypeOK, FileTypeOK, fileVars
  <2>4. SlotTypeOK'
    BY <1>1, SameWorkType DEF Step, TypeOK
  <2> QED BY <2>1, <2>2, <2>3, <2>4 DEF TypeOK
<1>2. ASSUME pc[s] # "idle"
      PROVE  j \in Jobs /\ row[j] \in RowType /\ work[s] \in WorkType
  BY <1>2 DEF TypeOK, SlotTypeOK, DataTypeOK
<1>3. CASE Start(s)
  <2>1. [row[j] EXCEPT !.status = "processing"] \in RowType
    BY <1>2, <1>3 DEF Start, Step, RowType
  <2> QED BY <1>1, <1>3, <2>1 DEF Start
<1>4. CASE RecordTotal(s)
  <2>1. TotalRows(j) \in Nat
    BY <1>2, <1>4, FilesAssumption DEF RecordTotal, Step, TotalRows
  <2>2. [row[j] EXCEPT !.status = "processing", !.total = TotalRows(j)]
            \in RowType
    BY <1>2, <1>4, <2>1 DEF RecordTotal, Step, RowType
  <2> QED BY <1>1, <1>4, <2>2 DEF RecordTotal
<1>5. CASE Increment(s)
  <2>1. Cardinality(work[s].batch) \in Nat
    BY BatchLength DEF TypeOK
  <2>2. [row[j] EXCEPT !.processed = @ + Cardinality(work[s].batch)] \in RowType
    BY <1>2, <1>5, <2>1 DEF Increment, Step, RowType
  <2> QED BY <1>1, <1>5, <2>2 DEF Increment
<1>6. CASE MarkDone(s)
  <2>1. [row[j] EXCEPT !.status = "done", !.processed = work[s].processed,
                       !.failed = work[s].failed] \in RowType
    BY <1>2, <1>6 DEF MarkDone, Step, RowType, WorkType
  <2> QED BY <1>1, <1>6, <2>1 DEF MarkDone
<1> QED BY <1>3, <1>4, <1>5, <1>6

\* An await that leaves the local variables alone.
LEMMA JumpTypeOK ==
    ASSUME TypeOK, NEW s \in Slots,
           \/ Count(s) \/ Open(s) \/ EndOfFile(s) \/ Finally(s)
           \/ ExcelFileGone(s) \/ RowThrows(s)
           \/ DownloadFails(s) \/ UpdateThrows(s)
    PROVE  TypeOK'
<1>1. /\ pc[s] # "idle" /\ work' = work /\ UNCHANGED <<dataVars, queueVars,
                                                       httpVars>>
      /\ \E to \in Labels : Goto(s, to)
      /\ EnvTypeOK'
  BY DEF Count, Open, EndOfFile, Finally, ExcelFileGone, RowThrows,
         DownloadFails,
         UpdateThrows, Step, TypeOK, EnvTypeOK, envVars, fileVars, dataVars
<1>2. work[s].job \in Jobs
  BY <1>1 DEF TypeOK, SlotTypeOK
<1>3. FileTypeOK'
  <2>1. CASE Finally(s)
    BY <1>2, <2>1 DEF Finally, TypeOK, FileTypeOK
  <2>2. CASE DownloadFails(s)
    BY <1>2, <2>2 DEF DownloadFails, TypeOK, FileTypeOK
  <2>3. CASE ~Finally(s) /\ ~DownloadFails(s)
    BY <2>3 DEF Count, Open, EndOfFile, ExcelFileGone, RowThrows,
       UpdateThrows, TypeOK,
                FileTypeOK, fileVars
  <2> QED BY <2>1, <2>2, <2>3
<1>4. SlotTypeOK'
  BY <1>1, SameWorkType DEF TypeOK
<1>5. DataTypeOK' /\ QueueTypeOK' /\ HttpTypeOK'
  BY <1>1 DEF TypeOK, DataTypeOK, QueueTypeOK, HttpTypeOK, dataVars, queueVars,
              httpVars
<1> QED BY <1>1, <1>3, <1>4, <1>5 DEF TypeOK

\* An await that changes the local variables.
LEMMA WorkTypeOK ==
    ASSUME TypeOK, NEW s \in Slots,
           \/ Resolve(s) \/ ReadRow(s) \/ Upsert(s) \/ UpsertFails(s)
           \/ UpdateProgress(s) \/ MarkFailed(s) \/ MarkFailedThrows(s)
    PROVE  TypeOK'
<1> DEFINE j == work[s].job
           n == Cardinality(work[s].batch)
<1>1. pc[s] # "idle" /\ QueueTypeOK' /\ HttpTypeOK'
  BY DEF Resolve, ReadRow, Upsert, UpsertFails, UpdateProgress, MarkFailed,
         MarkFailedThrows, Step, TypeOK, QueueTypeOK, HttpTypeOK, queueVars,
         httpVars
<1>2. EnvTypeOK'
  <2>1. CASE MarkFailedThrows(s)
    <3>1. unreported \in [Jobs -> BOOLEAN]
      BY DEF TypeOK, EnvTypeOK
    <3>2. unreported' = [unreported EXCEPT ![work[s].job] = TRUE]
      BY <2>1 DEF MarkFailedThrows
    <3>3. unreported' \in [Jobs -> BOOLEAN]
      BY <3>1, <3>2, Zenon
    <3>4. /\ faults' \in Nat /\ crashes' \in Nat /\ lockLosses' \in Nat
          /\ clears' \in Nat
      BY <2>1 DEF MarkFailedThrows, TypeOK, EnvTypeOK
    <3> QED BY <3>3, <3>4 DEF EnvTypeOK
  <2>2. CASE \/ Resolve(s) \/ ReadRow(s) \/ Upsert(s) \/ UpsertFails(s)
             \/ UpdateProgress(s) \/ MarkFailed(s)
    BY <2>2 DEF Resolve, ReadRow, Upsert, UpsertFails, UpdateProgress,
       MarkFailed, Step, TypeOK, EnvTypeOK, envVars
  <2> QED BY <2>1, <2>2
<1>3. /\ j \in Jobs /\ row[j] \in RowType /\ work[s] \in WorkType
      /\ work[s].batch \subseteq 1..work[s].pos
      /\ work[s].pos <= NumRows[j]
  BY <1>1 DEF TypeOK, SlotTypeOK, DataTypeOK
<1>4. n \in Nat
  BY BatchLength DEF TypeOK
<1>5. FileTypeOK'
  BY <1>3 DEF Resolve, ReadRow, Upsert, UpsertFails, UpdateProgress, MarkFailed,
              MarkFailedThrows, TypeOK, FileTypeOK, fileVars
<1>6. DataTypeOK'
  <2>1. CASE Upsert(s)
    <3>1. ContactsOf(j, work[s].batch) \subseteq Contacts
      BY <1>3, FilesAssumption DEF ContactsOf, Contacts, WorkType
    <3>2. stored' \in [Jobs -> SUBSET Contacts]
      BY <2>1, <3>1 DEF Upsert, Store, TypeOK, DataTypeOK
    <3> QED BY <2>1, <3>2 DEF Upsert, TypeOK, DataTypeOK
  <2>2. CASE MarkFailed(s)
    <3>1. [row[j] EXCEPT !.status = "failed"] \in RowType
      BY <1>3 DEF RowType
    <3>2. row' \in [Jobs -> RowType]
      BY <1>3, <2>2, <3>1, UpdateRowType DEF MarkFailed, TypeOK, DataTypeOK
    <3> QED BY <2>2, <3>2 DEF MarkFailed, TypeOK, DataTypeOK
  <2>3. CASE Resolve(s) \/ ReadRow(s) \/ UpsertFails(s) \/ UpdateProgress(s)
             \/ MarkFailedThrows(s)
    BY <2>3 DEF Resolve, ReadRow, UpsertFails, UpdateProgress,
                MarkFailedThrows, TypeOK, DataTypeOK, dataVars
  <2> QED BY <2>1, <2>2, <2>3
<1>7. SlotTypeOK'
  <2>1. ASSUME NEW to \in Labels, Goto(s, to), NEW w \in WorkType,
               work' = [work EXCEPT ![s] = w], w.job = j,
               w.batch \subseteq 1..w.pos, w.pos <= NumRows[j]
        PROVE  SlotTypeOK'
    BY <1>1, <2>1, WorkStepType DEF TypeOK
  <2>2. CASE Resolve(s)
    <3> DEFINE w == [work[s] EXCEPT !.file = TRUE]
    <3>1. w \in WorkType /\ w.job = j /\ w.batch = work[s].batch
          /\ w.pos = work[s].pos
      BY <1>3 DEF WorkType
    <3>2. Goto(s, "count") /\ work' = [work EXCEPT ![s] = w]
      BY <2>2 DEF Resolve, Step
    <3> HIDE DEF w
    <3> QED BY <1>3, <2>1, <3>1, <3>2
  <2>3. CASE ReadRow(s)
    <3> DEFINE r == work[s].pos + 1
               bad == r \in BadRows[j]
               batch == IF bad THEN work[s].batch ELSE work[s].batch \union {r}
               f == IF bad THEN work[s].failed + 1 ELSE work[s].failed
               w == [work[s] EXCEPT !.pos = r, !.batch = batch, !.failed = f]
    <3>1. r \in Nat /\ batch \in SUBSET Nat /\ batch \subseteq 1..r
      <4>1. /\ work[s].pos \in Nat /\ work[s].batch \in SUBSET Nat
            /\ r \in Nat /\ r \in 1..r
        BY <1>3 DEF WorkType
      <4>2. work[s].batch \subseteq 1..r
        BY <1>3, <4>1
      <4> HIDE DEF r
      <4> QED BY <4>1, <4>2
    <3>2. w \in WorkType /\ w.job = j /\ w.batch = batch /\ w.pos = r
      <4>1. f \in Nat
        BY <1>3 DEF WorkType
      <4> HIDE DEF r, batch, f
      <4> QED BY <1>3, <3>1, <4>1 DEF WorkType
    <3>3. /\ Goto(s, "upsert") \/ Goto(s, "read")
          /\ work' = [work EXCEPT ![s] = w]
          /\ r <= NumRows[j]
      BY <1>3, <2>3 DEF ReadRow, Step, Goto
    <3> HIDE DEF w, batch, r, f
    <3> QED BY <2>1, <3>1, <3>2, <3>3
  <2>4. CASE Upsert(s)
    <3> DEFINE w == [work[s] EXCEPT !.processed = @ + n]
    <3>1. w \in WorkType /\ w.job = j /\ w.batch = work[s].batch
          /\ w.pos = work[s].pos
      BY <1>3, <1>4 DEF WorkType
    <3>2. Goto(s, "increment") /\ work' = [work EXCEPT ![s] = w]
      BY <2>4 DEF Upsert, Step
    <3> HIDE DEF w
    <3> QED BY <1>3, <2>1, <3>1, <3>2
  <2>5. CASE UpsertFails(s)
    <3> DEFINE w == [work[s] EXCEPT !.failed = @ + n]
    <3>1. w \in WorkType /\ w.job = j /\ w.batch = work[s].batch
          /\ w.pos = work[s].pos
      BY <1>3, <1>4 DEF WorkType
    <3>2. Goto(s, "increment") /\ work' = [work EXCEPT ![s] = w]
      BY <2>5 DEF UpsertFails
    <3> HIDE DEF w
    <3> QED BY <1>3, <2>1, <3>1, <3>2
  <2>6. CASE UpdateProgress(s) /\ work' # work
    <3> DEFINE w == [work[s] EXCEPT !.batch = {}]
    <3>1. /\ w \in WorkType /\ w.job = j /\ w.batch = {}
          /\ w.pos = work[s].pos
      BY <1>3 DEF WorkType
    <3>2. Goto(s, "read") /\ work' = [work EXCEPT ![s] = w]
      BY <2>6 DEF UpdateProgress, Step
    <3> HIDE DEF w
    <3> QED BY <1>3, <2>1, <3>1, <3>2
  <2>7. CASE UpdateProgress(s) /\ work' = work
    <3>1. Goto(s, "read") \/ Goto(s, "catch")
      BY <2>7 DEF UpdateProgress, Step
    <3> QED BY <1>1, <2>7, <3>1, SameWorkType DEF TypeOK
  <2>8. CASE MarkFailed(s) \/ MarkFailedThrows(s)
    <3> DEFINE w == [work[s] EXCEPT !.threw = TRUE]
    <3>1. w \in WorkType /\ w.job = j /\ w.batch = work[s].batch
          /\ w.pos = work[s].pos
      BY <1>3 DEF WorkType
    <3>2. Goto(s, "finally") /\ work' = [work EXCEPT ![s] = w]
      BY <2>8 DEF MarkFailed, MarkFailedThrows, Step
    <3> HIDE DEF w
    <3> QED BY <1>3, <2>1, <3>1, <3>2
  <2> QED BY <2>2, <2>3, <2>4, <2>5, <2>6, <2>7, <2>8
<1> QED BY <1>1, <1>2, <1>5, <1>6, <1>7 DEF TypeOK

LEMMA NextTypeOK == TypeOK /\ [Next]_vars => TypeOK'
<1> SUFFICES ASSUME TypeOK, [Next]_vars PROVE TypeOK'
  OBVIOUS
<1>1. CASE UNCHANGED vars
  BY <1>1 DEF TypeOK, DataTypeOK, QueueTypeOK, FileTypeOK, HttpTypeOK,
              SlotTypeOK, EnvTypeOK, vars, dataVars, queueVars, fileVars,
              httpVars, slotVars, envVars
<1>2. CASE Next
  <2>1. ASSUME NEW s \in Slots, SlotStep(s) PROVE TypeOK'
    BY <2>1, RowStepTypeOK, JumpTypeOK, WorkTypeOK, SettleTypeOK,
       WorkerDiesTypeOK
    DEF SlotStep, CsvFileGone
  <2>2. ASSUME Fault PROVE TypeOK'
    <3>1. ASSUME NEW s \in Slots,
                 \/ DownloadFails(s) \/ UpsertFails(s) \/ UpdateThrows(s)
                 \/ MarkFailedThrows(s)
          PROVE  TypeOK'
      BY <3>1, JumpTypeOK, WorkTypeOK
    <3>2. ASSUME NEW j \in Jobs, EnqueueFails(j) \/ RemoveFails(j) \/ DeleteRowFails(j)
          PROVE  TypeOK'
      BY <3>2, HandlersTypeOK
    <3>3. ASSUME NEW j \in Jobs, LoseLock(j) PROVE TypeOK'
      BY <3>3, TimersTypeOK
    <3>4. CASE Crash
      BY <3>4, WorkerDiesTypeOK DEF Crash
    <3>5. ASSUME NEW j \in Jobs, UnlinkFails(j) PROVE TypeOK'
      BY <3>5, AsideTypeOK
    <3> QED BY <2>2, <3>1, <3>2, <3>3, <3>4, <3>5 DEF Fault
  <2>3. ASSUME NEW j \in Jobs,
               \/ Receive(j) \/ Reject(j) \/ DeleteContacts(j) \/ HttpStep(j)
        PROVE  TypeOK'
    BY <2>3, HandlersTypeOK
  <2>4. ASSUME NEW j \in Jobs, QueueStep(j) \/ \E s \in Slots : Take(s, j)
        PROVE  TypeOK'
    BY <2>4, TimersTypeOK
  <2>5. (\E j \in Jobs : Unlink(j)) \/ DeleteSegment => TypeOK'
    BY AsideTypeOK
  <2> QED BY <1>2, <2>1, <2>2, <2>3, <2>4, <2>5 DEF Next
<1> QED BY <1>1, <1>2

\* The type invariant: whatever the interleaving, the counters of a row are
\* numbers, its status is one the column knows, and a batch holds rows that the
\* handler has read.
THEOREM TypeCorrect == Spec => []TypeOK
BY InitTypeOK, NextTypeOK, PTL DEF Spec

(***************************************************************************)
(* One handler per job                                                     *)
(***************************************************************************)

\* Only an active entry is locked; only an accepted upload has an entry; and as
\* long as no lock was lost, a slot that works holds the lock of its job.
LockInv ==
    /\ \A j \in Jobs : queue[j] # "active" => lock[j] = Free
    /\ \A j \in Jobs : api[j] # "accepted" => queue[j] = "absent"
    /\ lockLosses = 0 =>
        \A s \in Slots : pc[s] # "idle" => lock[work[s].job] = s

\* The awaits of processJob: everything between Take and Settle but the death of
\* the process.
Await(s) ==
    \/ Start(s) \/ Resolve(s) \/ Count(s) \/ RecordTotal(s) \/ Open(s)
    \/ ExcelFileGone(s) \/ RowThrows(s) \/ ReadRow(s) \/ EndOfFile(s) \/ Upsert(s)
    \/ Increment(s) \/ UpdateProgress(s) \/ MarkDone(s) \/ MarkFailed(s)
    \/ Finally(s) \/ DownloadFails(s) \/ UpsertFails(s) \/ UpdateThrows(s)
    \/ MarkFailedThrows(s)

\* The steps of the ingest and delete handlers.
Handler(j) ==
    \/ Receive(j) \/ Reject(j) \/ CreateJob(j) \/ UploadFile(j)
    \/ AddToQueue(j) \/ EnqueueFails(j) \/ DeleteContacts(j)
    \/ RemoveFromQueue(j) \/ DeleteRow(j) \/ RemoveFails(j) \/ DeleteRowFails(j)

\* What is called back, or comes from elsewhere.
Aside == (\E j \in Jobs : Unlink(j) \/ UnlinkFails(j)) \/ DeleteSegment

\* An await leaves queue, handlers and the other slots alone, and its slot stays
\* with its job.
LEMMA AwaitKeeps ==
    ASSUME TypeOK, NEW s \in Slots, Await(s)
    PROVE  /\ pc[s] # "idle"
           /\ UNCHANGED <<queueVars, httpVars, crashes, lockLosses, clears>>
           /\ \A t \in Slots \ {s} : pc'[t] = pc[t] /\ work'[t] = work[t]
           /\ work'[s].job = work[s].job
           /\ \E label \in Labels : pc' = [pc EXCEPT ![s] = label]
<1> USE DEF Step, Goto, envVars, TypeOK, SlotTypeOK, WorkType
<1>1. CASE Start(s) \/ Count(s) \/ RecordTotal(s) \/ Open(s) \/ ExcelFileGone(s) \/ RowThrows(s)
           \/ EndOfFile(s) \/ Increment(s) \/ MarkDone(s) \/ Finally(s)
           \/ DownloadFails(s) \/ UpdateThrows(s)
  BY <1>1 DEF Start, Count, RecordTotal, Open, ExcelFileGone, RowThrows,
     EndOfFile,
     Increment, MarkDone, Finally, DownloadFails, UpdateThrows
<1>2. CASE Resolve(s)           BY <1>2 DEF Resolve
<1>3. CASE ReadRow(s)           BY <1>3 DEF ReadRow
<1>4. CASE Upsert(s)            BY <1>4 DEF Upsert
<1>5. CASE UpdateProgress(s)    BY <1>5 DEF UpdateProgress
<1>6. CASE MarkFailed(s)        BY <1>6 DEF MarkFailed
<1>7. CASE UpsertFails(s)       BY <1>7 DEF UpsertFails
<1>8. CASE MarkFailedThrows(s)  BY <1>8 DEF MarkFailedThrows
<1> QED
  BY <1>1, <1>2, <1>3, <1>4, <1>5, <1>6, <1>7, <1>8 DEF Await

\* Every step, sorted by who takes it.
LEMMA NextCases ==
    ASSUME Next
    PROVE  \/ \E j \in Jobs : Handler(j) \/ QueueStep(j) \/ LoseLock(j)
           \/ \E s \in Slots : \/ Await(s) \/ Settle(s)
                               \/ \E j \in Jobs : Take(s, j)
           \/ WorkerDies
           \/ Aside
BY DEF Next, Fault, HttpStep, SlotStep, Await, Handler, Crash, CsvFileGone,
       Aside

\* Unlinks and the deletion of the segment touch neither a row nor a slot, nor
\* queue and handlers.
LEMMA AsideKeeps ==
    ASSUME Aside
    PROVE  /\ UNCHANGED <<row, queueVars, httpVars, slotVars, crashes,
                          lockLosses, unreported>>
           /\ UNCHANGED <<fileVars, faults>> \/ UNCHANGED <<stored, clears>>
BY DEF Aside, Unlink, UnlinkFails, DeleteSegment, dataVars, envVars

LEMMA LockInvStep == TypeOK /\ LockInv /\ [Next]_vars => LockInv'
<1> SUFFICES ASSUME TypeOK, LockInv, [Next]_vars PROVE LockInv'
  OBVIOUS
<1>1. ASSUME UNCHANGED <<queue, lock, api, lockLosses>>,
             \A t \in Slots : pc'[t] # "idle" =>
                pc[t] # "idle" /\ work'[t].job = work[t].job
      PROVE  LockInv'
  BY <1>1 DEF LockInv
<1>2. CASE UNCHANGED vars \/ Aside
  BY <1>1, <1>2, AsideKeeps DEF vars, queueVars, httpVars, slotVars, envVars
<1>3. ASSUME NEW s \in Slots, Await(s) PROVE LockInv'
  <2>1. UNCHANGED <<queue, lock, api, lockLosses>>
    BY <1>3, AwaitKeeps DEF queueVars, httpVars
  <2>2. ASSUME NEW t \in Slots
        PROVE  pc'[t] # "idle" => pc[t] # "idle" /\ work'[t].job = work[t].job
    BY <1>3, <2>2, AwaitKeeps
  <2> QED BY <1>1, <2>1, <2>2
<1>4. ASSUME NEW j \in Jobs, Handler(j) PROVE LockInv'
  <2>1. CASE AddToQueue(j)
    BY <2>1 DEF AddToQueue, LockInv, TypeOK, QueueTypeOK, HttpTypeOK,
                slotVars, envVars
  <2>2. CASE RemoveFromQueue(j)
    BY <2>2 DEF RemoveFromQueue, LockInv, TypeOK, QueueTypeOK, slotVars, envVars
  <2>3. CASE ~AddToQueue(j) /\ ~RemoveFromQueue(j)
    <3>1. UNCHANGED <<queue, lock, pc, work, lockLosses>>
      BY <1>4, <2>3 DEF Handler, Receive, Reject, CreateJob, UploadFile,
         EnqueueFails, DeleteContacts, DeleteRow, RemoveFails, DeleteRowFails,
         queueVars, slotVars, envVars
    <3>2. \A k \in Jobs : api'[k] # "accepted" => queue[k] = "absent"
      BY <1>4, <2>3 DEF Handler, Receive, Reject, CreateJob, UploadFile,
         EnqueueFails, DeleteContacts, DeleteRow, RemoveFails,
         DeleteRowFails, LockInv,
         TypeOK, HttpTypeOK
    <3> QED BY <3>1, <3>2 DEF LockInv
  <2> QED BY <2>1, <2>2, <2>3
<1>5. ASSUME NEW j \in Jobs, QueueStep(j) \/ LoseLock(j) PROVE LockInv'
  <2>1. CASE BackoffEnds(j)
    BY <2>1 DEF BackoffEnds, LockInv, TypeOK, QueueTypeOK, httpVars, slotVars,
                envVars
  <2>2. CASE LockExpires(j)
    BY <2>2, NamesAssumption
    DEF LockExpires, LockInv, TypeOK, QueueTypeOK, SlotTypeOK, httpVars,
        slotVars, envVars
  <2>3. CASE StalledCheck(j)
    BY <2>3 DEF StalledCheck, LockInv, TypeOK, QueueTypeOK, httpVars, slotVars,
                envVars
  <2>4. CASE LoseLock(j)
    BY <2>4 DEF LoseLock, LockInv, TypeOK, QueueTypeOK, EnvTypeOK, httpVars,
                slotVars
  <2> QED BY <1>5, <2>1, <2>2, <2>3, <2>4 DEF QueueStep
<1>6. ASSUME NEW s \in Slots, NEW j \in Jobs, Take(s, j) PROVE LockInv'
  BY <1>6, NamesAssumption
  DEF Take, Goto, IdleWork, LockInv, TypeOK, QueueTypeOK, SlotTypeOK, httpVars,
      envVars
<1>7. ASSUME NEW s \in Slots, Settle(s) PROVE LockInv'
  <2> DEFINE j == work[s].job
  <2>1. j \in Jobs
    BY <1>7 DEF Settle, TypeOK, SlotTypeOK
  <2>2. \A t \in Slots : pc'[t] # "idle" =>
            t # s /\ pc[t] # "idle" /\ work'[t] = work[t]
    BY <1>7 DEF Settle, Goto, TypeOK, SlotTypeOK
  <2>3. UNCHANGED <<api, lockLosses>>
    BY <1>7 DEF Settle, httpVars, envVars
  <2>4. CASE lock[j] = s
    <3>1. /\ lock' = [lock EXCEPT ![j] = Free]
          /\ queue[j] = "active"
          /\ \A k \in Jobs : k # j => queue'[k] = queue[k]
      BY <1>7, <2>1, <2>4, NamesAssumption
      DEF Settle, LockInv, TypeOK, QueueTypeOK
    <3> QED
      BY <2>1, <2>2, <2>3, <2>4, <3>1
      DEF LockInv, TypeOK, QueueTypeOK, SlotTypeOK
  <2>5. CASE lock[j] # s
    BY <1>7, <2>2, <2>3, <2>5 DEF Settle, LockInv
  <2> QED BY <2>4, <2>5
<1>8. CASE WorkerDies
  BY <1>8, NamesAssumption DEF WorkerDies, LockInv, TypeOK, QueueTypeOK,
     SlotTypeOK, httpVars
<1> QED BY <1>2, <1>3, <1>4, <1>5, <1>6, <1>7, <1>8, NextCases

LEMMA LockInvariant == Spec => []LockInv
<1>1. Init => LockInv
  BY DEF Init, LockInv
<1> QED BY <1>1, LockInvStep, TypeCorrect, PTL DEF Spec

\* At most one slot runs processJob for a job, unless a lock expires under a
\* running handler: kills, stalled checks, retries and deletions do not matter.
THEOREM OneHandler == Spec => []OneHandlerPerJob
<1>1. LockInv => OneHandlerPerJob
  BY DEF LockInv, OneHandlerPerJob, Working
<1> QED BY <1>1, LockInvariant, PTL

(***************************************************************************)
(* The rows of a file are accounted for                                    *)
(***************************************************************************)

Fetching == {"start", "resolve", "count", "total", "open"}
Counting == {"resolve", "count", "total", "open", "read", "upsert", "increment",
             "progress", "done"}

\* Where a handler has counted its rows.
Counted(s) ==
    LET w == work[s]
        n == Cardinality(w.batch)
    IN  /\ pc[s] \in Fetching =>
              w.pos = 0 /\ w.processed = 0 /\ w.failed = 0 /\ w.batch = {}
        /\ pc[s] \in {"read", "upsert"} => w.processed + w.failed + n = w.pos
        /\ pc[s] \in {"increment", "progress"} => w.processed + w.failed = w.pos
        /\ pc[s] \in {"read", "upsert", "increment", "progress"} =>
              w.pos <= NumRows[w.job]
        /\ pc[s] = "done" => w.processed + w.failed = NumRows[w.job]

CountInv == \A s \in Slots : Counted(s)

\* A job whose handler is at work is not reported done.
ReportInv ==
    lockLosses = 0 =>
        \A s \in Slots : pc[s] \in Counting =>
            row[work[s].job].status \in {"processing", "absent"}

\* Reading one more row keeps the count.
LEMMA CountReadRow ==
    ASSUME TypeOK, CountInv, NEW s \in Slots, ReadRow(s)
    PROVE  Counted(s)'
<1> DEFINE w == work[s]
           r == w.pos + 1
           batch == IF r \in BadRows[w.job] THEN w.batch ELSE w.batch \union {r}
           bad == IF r \in BadRows[w.job] THEN w.failed + 1 ELSE w.failed
<1>1. /\ pc[s] = "read" /\ pc'[s] \in {"read", "upsert"}
      /\ r <= NumRows[w.job]
      /\ work'[s] = [w EXCEPT !.pos = r, !.batch = batch, !.failed = bad]
  BY DEF ReadRow, Step, Goto, TypeOK, SlotTypeOK
<1>2. /\ w \in WorkType /\ w.batch \subseteq 1..w.pos
      /\ w.processed + w.failed + Cardinality(w.batch) = w.pos
  BY <1>1 DEF TypeOK, SlotTypeOK, CountInv, Counted
<1>3. /\ work'[s].pos = r /\ work'[s].batch = batch /\ work'[s].failed = bad
      /\ work'[s].processed = w.processed /\ work'[s].job = w.job
  BY <1>1, <1>2 DEF WorkType
<1>4. /\ w.pos \in Nat /\ w.processed \in Nat /\ w.failed \in Nat
      /\ IsFiniteSet(w.batch) /\ Cardinality(w.batch) \in Nat
  BY <1>2, BatchLength DEF WorkType, TypeOK
<1>5. w.processed + bad + Cardinality(batch) = r
  <2>1. CASE r \in BadRows[w.job]
    BY <1>2, <1>4, <2>1
  <2>2. CASE r \notin BadRows[w.job]
    <3>1. r \notin w.batch
      BY <1>2, <1>4
    <3>2. Cardinality(w.batch \union {r}) = Cardinality(w.batch) + 1
      BY <1>4, <3>1, FS_AddElement
    <3> QED BY <1>2, <1>4, <2>2, <3>2
  <2> QED BY <2>1, <2>2
<1> HIDE DEF w, r, batch, bad
<1> QED
  BY <1>1, <1>3, <1>5 DEF Counted, Fetching

LEMMA CountInvStep == TypeOK /\ CountInv /\ [Next]_vars => CountInv'
<1> SUFFICES ASSUME TypeOK, CountInv, [Next]_vars PROVE CountInv'
  OBVIOUS
<1>1. ASSUME NEW t \in Slots, pc'[t] = pc[t], work'[t] = work[t]
      PROVE  Counted(t)'
  BY <1>1 DEF CountInv, Counted
<1>2. ASSUME NEW t \in Slots, pc'[t] \in {"idle", "catch", "finally", "settle"}
      PROVE  Counted(t)'
  BY <1>2 DEF Counted, Fetching
<1>3. CASE UNCHANGED vars \/ Aside
  BY <1>1, <1>3, AsideKeeps DEF CountInv, vars, slotVars
<1>4. ASSUME NEW j \in Jobs, Handler(j) \/ QueueStep(j) \/ LoseLock(j)
      PROVE  CountInv'
  <2>1. UNCHANGED slotVars
    BY <1>4 DEF Handler, Receive, Reject, CreateJob, UploadFile, AddToQueue,
       EnqueueFails, DeleteContacts, RemoveFromQueue, DeleteRow,
       RemoveFails, DeleteRowFails, QueueStep, BackoffEnds, LockExpires,
       StalledCheck,
       LoseLock
  <2> QED BY <1>1, <2>1 DEF CountInv, slotVars
<1>5. CASE WorkerDies
  BY <1>2, <1>5 DEF WorkerDies, CountInv
<1>6. ASSUME NEW s \in Slots, Settle(s) PROVE CountInv'
  BY <1>1, <1>2, <1>6 DEF Settle, Goto, CountInv, TypeOK, SlotTypeOK
<1>7. ASSUME NEW s \in Slots, NEW j \in Jobs, Take(s, j) PROVE CountInv'
  <2>1. /\ pc'[s] = "start" /\ work'[s] = [IdleWork EXCEPT !.job = j]
        /\ \A t \in Slots \ {s} : pc'[t] = pc[t] /\ work'[t] = work[t]
    BY <1>7 DEF Take, Goto, TypeOK, SlotTypeOK
  <2>2. Counted(s)'
    BY <2>1 DEF Counted, Fetching, IdleWork
  <2> QED BY <1>1, <2>1, <2>2 DEF CountInv
<1>8. ASSUME NEW s \in Slots, Await(s) PROVE CountInv'
  <2> DEFINE w == work[s]
             n == Cardinality(w.batch)
  <2>1. \A t \in Slots \ {s} : pc'[t] = pc[t] /\ work'[t] = work[t]
    BY <1>8, AwaitKeeps
  <2>2. SUFFICES Counted(s)'
    BY <1>1, <2>1 DEF CountInv
  <2>3. /\ w.pos \in Nat /\ w.processed \in Nat /\ w.failed \in Nat
        /\ n \in Nat /\ w \in WorkType /\ Cardinality({}) = 0
    BY BatchLength, FS_EmptySet DEF TypeOK, SlotTypeOK, WorkType
  <2>4. Counted(s)
    BY DEF CountInv
  <2> USE DEF Step, Goto, TypeOK, SlotTypeOK
  <2>5. CASE Start(s) \/ Count(s) \/ RecordTotal(s)
    <3>1. pc[s] \in Fetching /\ pc'[s] \in Fetching /\ work'[s] = w
      BY <2>5 DEF Start, Count, RecordTotal, Fetching
    <3> QED BY <2>4, <3>1 DEF Counted, Fetching
  <2>6. CASE Resolve(s)
    <3>1. /\ pc[s] = "resolve" /\ pc'[s] = "count"
          /\ work'[s] = [w EXCEPT !.file = TRUE]
      BY <2>6 DEF Resolve
    <3> QED BY <2>3, <2>4, <3>1 DEF Counted, Fetching, WorkType
  <2>7. CASE Open(s)
    <3>1. pc[s] = "open" /\ pc'[s] = "read" /\ work'[s] = w
      BY <2>7 DEF Open
    <3>2. NumRows[w.job] \in Nat
      BY <3>1, FilesAssumption
    <3>3. w.pos = 0 /\ w.processed = 0 /\ w.failed = 0 /\ w.batch = {}
      BY <2>4, <3>1 DEF Counted, Fetching
    <3>4. w.processed + w.failed + n = w.pos /\ w.pos <= NumRows[w.job]
      BY <2>3, <3>2, <3>3
    <3> QED BY <3>1, <3>4 DEF Counted, Fetching
  <2>8. CASE ReadRow(s)
    BY <2>8, CountReadRow
  <2>9. CASE EndOfFile(s)
    <3>1. /\ pc[s] = "read" /\ work'[s] = w /\ w.pos = NumRows[w.job]
          /\ pc'[s] = IF w.batch = {} THEN "done" ELSE "upsert"
      BY <2>9 DEF EndOfFile
    <3>2. w.processed + w.failed + n = w.pos /\ w.pos <= NumRows[w.job]
      BY <2>4, <3>1 DEF Counted
    <3>3. w.batch = {} => w.processed + w.failed = NumRows[w.job]
      BY <2>3, <3>1, <3>2
    <3> QED BY <3>1, <3>2, <3>3 DEF Counted, Fetching
  <2>10. CASE Upsert(s)
    <3>1. /\ pc[s] = "upsert" /\ pc'[s] = "increment"
          /\ work'[s] = [w EXCEPT !.processed = @ + n]
      BY <2>10 DEF Upsert
    <3>2. /\ work'[s].processed = w.processed + n /\ work'[s].failed = w.failed
          /\ work'[s].pos = w.pos /\ work'[s].job = w.job
      BY <2>3, <3>1 DEF WorkType
    <3>3. w.processed + w.failed + n = w.pos /\ w.pos <= NumRows[w.job]
      BY <2>4, <3>1 DEF Counted
    <3>4. work'[s].processed + work'[s].failed = w.pos
      BY <2>3, <3>2, <3>3
    <3> HIDE DEF w, n
    <3> QED BY <3>1, <3>2, <3>3, <3>4 DEF Counted, Fetching
  <2>11. CASE UpsertFails(s)
    <3>1. /\ pc[s] = "upsert" /\ pc'[s] = "increment"
          /\ work'[s] = [w EXCEPT !.failed = @ + n]
      BY <2>11 DEF UpsertFails
    <3>2. /\ work'[s].failed = w.failed + n /\ work'[s].processed = w.processed
          /\ work'[s].pos = w.pos /\ work'[s].job = w.job
      BY <2>3, <3>1 DEF WorkType
    <3>3. w.processed + w.failed + n = w.pos /\ w.pos <= NumRows[w.job]
      BY <2>4, <3>1 DEF Counted
    <3>4. work'[s].processed + work'[s].failed = w.pos
      BY <2>3, <3>2, <3>3
    <3> HIDE DEF w, n
    <3> QED BY <3>1, <3>2, <3>3, <3>4 DEF Counted, Fetching
  <2>12. CASE Increment(s)
    <3>1. pc[s] = "increment" /\ pc'[s] = "progress" /\ work'[s] = w
      BY <2>12 DEF Increment
    <3> QED BY <2>4, <3>1 DEF Counted, Fetching
  <2>13. CASE UpdateProgress(s)
    <3>1. CASE pc'[s] = "catch"
      BY <1>2, <3>1
    <3>2. CASE pc'[s] # "catch"
      <4>1. /\ pc[s] = "progress" /\ pc'[s] = "read"
            /\ work'[s] = [w EXCEPT !.batch = {}]
        BY <2>13, <3>2 DEF UpdateProgress
      <4> QED BY <2>3, <2>4, <4>1 DEF Counted, Fetching, WorkType
    <3> QED BY <3>1, <3>2
  <2>14. CASE MarkDone(s) \/ ExcelFileGone(s) \/ RowThrows(s) \/ MarkFailed(s) \/ Finally(s)
              \/ DownloadFails(s) \/ UpdateThrows(s) \/ MarkFailedThrows(s)
    BY <1>2, <2>14 DEF MarkDone, ExcelFileGone, RowThrows, MarkFailed, Finally,
       DownloadFails, UpdateThrows, MarkFailedThrows
  <2> QED
    BY <1>8, <2>5, <2>6, <2>7, <2>8, <2>9, <2>10, <2>11, <2>12, <2>13, <2>14
    DEF Await
<1> QED BY <1>3, <1>4, <1>5, <1>6, <1>7, <1>8, NextCases

LEMMA CountInvariant == Spec => []CountInv
<1>1. Init => CountInv
  BY DEF Init, CountInv, Counted, Fetching
<1> QED BY <1>1, CountInvStep, TypeCorrect, PTL DEF Spec

\* What an await writes to the row of its job: nothing else, and 'done' only with
\* the counts of the handler.
LEMMA AwaitRow ==
    ASSUME TypeOK, CountInv, NEW s \in Slots, Await(s)
    PROVE  LET j == work[s].job
           IN  /\ j \in Jobs
               /\ \A k \in Jobs : k # j => row'[k] = row[k]
               /\ \/ row' = row /\ pc[s] # "start"
                  \/ row[j].status = "absent" /\ row' = row
                  \/ row'[j].status = "processing"
                  \/ row'[j].status = row[j].status /\ pc[s] = "increment"
                  \/ row'[j].status = "failed" /\ pc'[s] = "finally"
                  \/ /\ pc'[s] = "finally"
                     /\ row'[j].processed + row'[j].failed = NumRows[j]
                  \/ row' = row /\ pc'[s] = "catch"
<1> DEFINE j == work[s].job
<1>1. pc[s] # "idle" /\ j \in Jobs
  BY AwaitKeeps DEF TypeOK, SlotTypeOK
<1>2. row[j] \in RowType /\ row \in [Jobs -> RowType] /\ work[s] \in WorkType
  BY <1>1 DEF TypeOK, DataTypeOK, SlotTypeOK
<1> USE DEF Step, Goto, UpdateRow, TypeOK, SlotTypeOK
<1>3. CASE Start(s)
  BY <1>1, <1>2, <1>3 DEF Start, RowType
<1>3a. CASE RecordTotal(s)
  BY <1>1, <1>2, <1>3a DEF RecordTotal, RowType
<1>4. CASE Increment(s)
  BY <1>1, <1>2, <1>4 DEF Increment, RowType
<1>5. CASE MarkDone(s)
  <2>1. pc[s] = "done" /\ pc'[s] = "finally"
    BY <1>5 DEF MarkDone
  <2>2. work[s].processed + work[s].failed = NumRows[j]
    BY <2>1 DEF CountInv, Counted
  <2> QED BY <1>1, <1>2, <1>5, <2>1, <2>2 DEF MarkDone, RowType
<1>6. CASE MarkFailed(s)
  BY <1>1, <1>2, <1>6 DEF MarkFailed, RowType
<1>7. CASE UpdateThrows(s)
  BY <1>1, <1>7 DEF UpdateThrows, dataVars
<1>8. CASE \/ Resolve(s) \/ Count(s) \/ Open(s) \/ ExcelFileGone(s) \/ RowThrows(s) \/ ReadRow(s)
           \/ EndOfFile(s) \/ Upsert(s) \/ UpdateProgress(s) \/ Finally(s)
           \/ DownloadFails(s) \/ UpsertFails(s) \/ MarkFailedThrows(s)
  BY <1>1, <1>8 DEF Resolve, Count, Open, ExcelFileGone, RowThrows, ReadRow,
     EndOfFile,
     Upsert, UpdateProgress, Finally, DownloadFails, UpsertFails,
     MarkFailedThrows, dataVars
<1> QED
  BY <1>3, <1>3a, <1>4, <1>5, <1>6, <1>7, <1>8 DEF Await

ResultInv == ReportInv /\ DoneAddsUp

LEMMA ResultInvStep ==
    TypeOK /\ LockInv /\ CountInv /\ ResultInv /\ [Next]_vars => ResultInv'
<1> SUFFICES ASSUME TypeOK, LockInv, CountInv, ResultInv, [Next]_vars
             PROVE  ResultInv'
  OBVIOUS
<1>1. CASE UNCHANGED vars \/ Aside
  BY <1>1, AsideKeeps
  DEF ResultInv, ReportInv, DoneAddsUp, vars, dataVars, slotVars, envVars
<1>2. ASSUME UNCHANGED <<row, lockLosses>>,
             \A t \in Slots : pc'[t] \in Counting =>
                pc[t] \in Counting /\ work'[t].job = work[t].job
      PROVE  ResultInv'
  BY <1>2 DEF ResultInv, ReportInv, DoneAddsUp
<1>3. ASSUME NEW j \in Jobs, Handler(j) PROVE ResultInv'
  <2>1. CASE CreateJob(j)
    <3>1. /\ row' = [row EXCEPT ![j] = [NoRow EXCEPT !.status = "queued"]]
          /\ UNCHANGED <<pc, work, lockLosses>> /\ queue[j] = "absent"
      BY <2>1 DEF CreateJob, slotVars, envVars, LockInv
    <3>2. lockLosses = 0 => \A s \in Slots : pc[s] # "idle" => work[s].job # j
      BY <3>1, NamesAssumption DEF LockInv
    <3>3. row'[j].status = "queued" /\ \A k \in Jobs : k # j => row'[k] = row[k]
      BY <3>1 DEF NoRow, TypeOK, DataTypeOK
    <3>4. \A s \in Slots : pc[s] \in Counting =>
                pc[s] # "idle" /\ work[s].job \in Jobs
      BY DEF Counting, TypeOK, SlotTypeOK
    <3> QED BY <3>1, <3>2, <3>3, <3>4 DEF ResultInv, ReportInv, DoneAddsUp
  <2>2. CASE DeleteRow(j)
    <3>1. row' = [row EXCEPT ![j] = NoRow] /\ UNCHANGED <<pc, work, lockLosses>>
      BY <2>2 DEF DeleteRow, slotVars, envVars
    <3>2. row'[j].status = "absent" /\ \A k \in Jobs : k # j => row'[k] = row[k]
      BY <3>1 DEF NoRow, TypeOK, DataTypeOK
    <3>3. \A s \in Slots : pc[s] \in Counting => work[s].job \in Jobs
      BY DEF Counting, TypeOK, SlotTypeOK
    <3> QED BY <3>1, <3>2, <3>3 DEF ResultInv, ReportInv, DoneAddsUp
  <2>3. CASE ~CreateJob(j) /\ ~DeleteRow(j)
    <3>1. UNCHANGED <<row, lockLosses, pc, work>>
      BY <1>3, <2>3 DEF Handler, Receive, Reject, UploadFile, AddToQueue,
         EnqueueFails, DeleteContacts, RemoveFromQueue, RemoveFails,
         DeleteRowFails,
         dataVars, slotVars, envVars
    <3> QED BY <1>2, <3>1
  <2> QED BY <2>1, <2>2, <2>3
<1>4. ASSUME NEW j \in Jobs, QueueStep(j) PROVE ResultInv'
  <2>1. UNCHANGED <<row, lockLosses, pc, work>>
    BY <1>4 DEF QueueStep, BackoffEnds, LockExpires, StalledCheck, dataVars,
       slotVars, envVars
  <2> QED BY <1>2, <2>1
<1>5. ASSUME NEW j \in Jobs, LoseLock(j) PROVE ResultInv'
  <2>1. lockLosses' # 0
    BY <1>5 DEF LoseLock, TypeOK, EnvTypeOK
  <2> QED BY <2>1 DEF ResultInv, ReportInv, DoneAddsUp
<1>6. CASE WorkerDies
  BY <1>2, <1>6 DEF WorkerDies, Counting, dataVars
<1>7. ASSUME NEW s \in Slots, Settle(s) PROVE ResultInv'
  BY <1>2, <1>7 DEF Settle, Goto, Counting, TypeOK, SlotTypeOK, dataVars,
     envVars
<1>8. ASSUME NEW s \in Slots, NEW j \in Jobs, Take(s, j) PROVE ResultInv'
  BY <1>2, <1>8 DEF Take, Goto, Counting, TypeOK, SlotTypeOK, dataVars, envVars
<1>9. ASSUME NEW s \in Slots, Await(s) PROVE ResultInv'
  <2> DEFINE j == work[s].job
  <2>1. SUFFICES ASSUME lockLosses = 0 PROVE ResultInv'
    BY <1>9, AwaitKeeps DEF ResultInv, ReportInv, DoneAddsUp
  <2>2. /\ j \in Jobs /\ \A k \in Jobs : k # j => row'[k] = row[k]
        /\ \/ row' = row /\ pc[s] # "start"
           \/ row[j].status = "absent" /\ row' = row
           \/ row'[j].status = "processing"
           \/ row'[j].status = row[j].status /\ pc[s] = "increment"
           \/ row'[j].status = "failed" /\ pc'[s] = "finally"
           \/ /\ pc'[s] = "finally"
              /\ row'[j].processed + row'[j].failed = NumRows[j]
           \/ row' = row /\ pc'[s] = "catch"
    BY <1>9, AwaitRow
  <2>3. /\ pc[s] # "idle" /\ work'[s].job = j
        /\ \A t \in Slots \ {s} : pc'[t] = pc[t] /\ work'[t] = work[t]
    BY <1>9, AwaitKeeps
  <2>4. \A t \in Slots \ {s} : pc[t] # "idle" =>
            work[t].job \in Jobs /\ work[t].job # j
    BY <2>1, <2>3 DEF LockInv, TypeOK, SlotTypeOK
  <2>5. pc[s] \in Counting => row[j].status \in {"processing", "absent"}
    BY <2>1 DEF ResultInv, ReportInv
  <2>6. pc'[s] \in Counting => pc[s] \in Counting \union {"start"}
    BY <1>9 DEF Await, Start, Resolve, Count, RecordTotal, Open, ExcelFileGone,
       RowThrows,
       ReadRow, EndOfFile, Upsert, Increment, UpdateProgress, MarkDone,
       MarkFailed, Finally, DownloadFails, UpsertFails, UpdateThrows,
       MarkFailedThrows, Step, Goto, Counting, TypeOK, SlotTypeOK
  <2>7. ReportInv'
    <3>1. \A t \in Slots \ {s} : pc'[t] \in Counting =>
                row'[work'[t].job].status \in {"processing", "absent"}
      BY <2>1, <2>2, <2>3, <2>4 DEF Counting, ResultInv, ReportInv
    <3>2. pc'[s] \in Counting => row'[j].status \in {"processing", "absent"}
      BY <2>2, <2>5, <2>6 DEF Counting
    <3> QED BY <2>3, <3>1, <3>2 DEF ReportInv
  <2>8. DoneAddsUp'
    <3>1. row'[j].status = "done" =>
                row'[j].processed + row'[j].failed = NumRows[j]
      BY <2>1, <2>2, <2>5 DEF Counting, ResultInv, DoneAddsUp
    <3> QED BY <2>1, <2>2, <3>1 DEF ResultInv, DoneAddsUp
  <2> QED BY <2>7, <2>8 DEF ResultInv
<1> QED BY <1>1, <1>3, <1>4, <1>5, <1>6, <1>7, <1>8, <1>9, NextCases

LEMMA ResultInvariant == Spec => []ResultInv
<1>1. Init => ResultInv
  BY DEF Init, ResultInv, ReportInv, DoneAddsUp, Counting, NoRow
<1> QED
  BY <1>1, ResultInvStep, TypeCorrect, LockInvariant, CountInvariant, PTL
  DEF Spec

\* A job reported 'done' accounts for every row of its file exactly once, for
\* any file, batch size, number of retries, kills and interleaved deletions.
THEOREM DoneAccounted == Spec => []DoneAddsUp
<1>1. ResultInv => DoneAddsUp
  BY DEF ResultInv
<1> QED BY <1>1, ResultInvariant, PTL

(***************************************************************************)
(* Steps that leave the data alone                                         *)
(***************************************************************************)

Present(j) == row[j].status # "absent"

\* An await writes the row of its own job only, never creates or removes it, and
\* stores only the contacts of its batch, which it may take from other jobs.
LEMMA AwaitData ==
    ASSUME TypeOK, NEW s \in Slots, Await(s)
    PROVE  LET j == work[s].job
           IN  /\ j \in Jobs
               /\ \A k \in Jobs \ {j} :
                        row'[k] = row[k] /\ stored'[k] \subseteq stored[k]
               /\ row'[j].status = "absent" <=> ~Present(j)
               /\ ~Present(j) => row'[j] = row[j]
               /\ \/ stored' = stored
                  \/ pc[s] = "upsert" /\ Store(j, ContactsOf(j, work[s].batch))
<1> DEFINE j == work[s].job
<1>1. /\ j \in Jobs /\ row \in [Jobs -> RowType]
      /\ stored \in [Jobs -> SUBSET Contacts]
  BY AwaitKeeps DEF TypeOK, SlotTypeOK, DataTypeOK
<1> USE DEF Step, UpdateRow, Present
<1>2. CASE Start(s)        BY <1>1, <1>2 DEF Start, RowType
<1>3. CASE RecordTotal(s)  BY <1>1, <1>3 DEF RecordTotal, RowType
<1>4. CASE Increment(s)    BY <1>1, <1>4 DEF Increment, RowType
<1>5. CASE MarkDone(s)     BY <1>1, <1>5 DEF MarkDone, RowType
<1>6. CASE MarkFailed(s)   BY <1>1, <1>6 DEF MarkFailed, RowType
<1>7. CASE Upsert(s)       BY <1>1, <1>7 DEF Upsert, Store
<1>8. CASE \/ Resolve(s) \/ Count(s) \/ Open(s) \/ ExcelFileGone(s)
           \/ RowThrows(s) \/ ReadRow(s) \/ EndOfFile(s) \/ UpdateProgress(s)
           \/ Finally(s) \/ DownloadFails(s) \/ UpsertFails(s)
           \/ UpdateThrows(s) \/ MarkFailedThrows(s)
  <2>1. UNCHANGED dataVars
    BY <1>8 DEF Resolve, Count, Open, ExcelFileGone, RowThrows, ReadRow,
       EndOfFile, UpdateProgress, Finally, DownloadFails, UpsertFails,
       UpdateThrows, MarkFailedThrows
  <2> QED BY <1>1, <2>1 DEF dataVars
<1> QED BY <1>2, <1>3, <1>4, <1>5, <1>6, <1>7, <1>8 DEF Await

\* The queue, a slot that takes or leaves an entry and a kill write no row and
\* no contact, and no handler's state.
LEMMA QueueKeeps ==
    ASSUME \/ \E j \in Jobs : QueueStep(j) \/ LoseLock(j)
           \/ \E s \in Slots : Settle(s) \/ \E j \in Jobs : Take(s, j)
           \/ WorkerDies
    PROVE  UNCHANGED <<dataVars, upload, object, downloads, httpVars, faults,
                       unreported, clears>>
BY DEF QueueStep, BackoffEnds, LockExpires, StalledCheck, LoseLock, Settle,
       Take, WorkerDies, dataVars, fileVars, httpVars, envVars

\* While no lock is lost, nobody works on a job whose entry is not active.
LEMMA NobodyWorks ==
    ASSUME TypeOK, LockInv, lockLosses = 0, NEW j \in Jobs, queue[j] # "active",
           NEW s \in Slots
    PROVE  ~Working(s, j)
BY NamesAssumption DEF TypeOK, QueueTypeOK, LockInv, Working

\* No lock was lost before a step after which none is lost.
LEMMA NoLockLost ==
    ASSUME TypeOK, Next, lockLosses' = 0
    PROVE  lockLosses = 0 /\ ~ \E j \in Jobs : LoseLock(j)
<1>1. ASSUME NEW j \in Jobs, LoseLock(j) PROVE FALSE
  BY <1>1 DEF LoseLock, TypeOK, EnvTypeOK
<1>2. ASSUME NEW j \in Jobs, Handler(j) \/ QueueStep(j)
      PROVE  lockLosses = 0
  BY <1>2 DEF Handler, Receive, Reject, CreateJob, UploadFile, AddToQueue,
     EnqueueFails, DeleteContacts, RemoveFromQueue, DeleteRow,
     RemoveFails, DeleteRowFails, QueueStep, BackoffEnds, LockExpires,
     StalledCheck,
     envVars
<1>3. ASSUME NEW s \in Slots,
             Await(s) \/ Settle(s) \/ \E j \in Jobs : Take(s, j)
      PROVE  lockLosses = 0
  BY <1>3, AwaitKeeps DEF Settle, Take, envVars
<1>4. ASSUME WorkerDies \/ Aside PROVE lockLosses = 0
  BY <1>4, AsideKeeps DEF WorkerDies
<1> QED BY <1>1, <1>2, <1>3, <1>4, NextCases

(***************************************************************************)
(* Rows of queued jobs                                                     *)
(***************************************************************************)

\* From the insert until the end of its deletion an upload has its row.
RowInv ==
    \A j \in Jobs :
        api[j] \in {"uploading", "adding", "accepted"} /\ del[j] # "finished" =>
            Present(j)

LEMMA RowInvStep == TypeOK /\ RowInv /\ [Next]_vars => RowInv'
<1> SUFFICES ASSUME TypeOK, RowInv, [Next]_vars PROVE RowInv'
  OBVIOUS
<1> USE DEF Present
<1>1. ASSUME UNCHANGED <<row, api, del>> PROVE RowInv'
  BY <1>1 DEF RowInv
<1>2. CASE UNCHANGED vars \/ Aside
  BY <1>1, <1>2, AsideKeeps DEF vars, dataVars, httpVars
<1>3. ASSUME NEW j \in Jobs, Handler(j) PROVE RowInv'
  <2> USE DEF RowInv, TypeOK, DataTypeOK, HttpTypeOK, dataVars
  <2>1. CASE CreateJob(j)  BY <2>1 DEF CreateJob, NoRow
  <2>2. CASE DeleteRow(j)  BY <2>2 DEF DeleteRow
  <2>3. CASE Receive(j) \/ Reject(j) \/ EnqueueFails(j)
    BY <2>3 DEF Receive, Reject, EnqueueFails
  <2>4. CASE UploadFile(j) \/ AddToQueue(j)
    BY <2>4 DEF UploadFile, AddToQueue
  <2>5. CASE DeleteContacts(j) \/ RemoveFromQueue(j) \/ RemoveFails(j) \/ DeleteRowFails(j)
    BY <2>5 DEF DeleteContacts, RemoveFromQueue, RemoveFails, DeleteRowFails
  <2> QED BY <1>3, <2>1, <2>2, <2>3, <2>4, <2>5 DEF Handler
<1>4. ASSUME NEW s \in Slots, Await(s) PROVE RowInv'
  <2>1. UNCHANGED <<api, del>>
    BY <1>4, AwaitKeeps DEF httpVars
  <2>2. \A k \in Jobs : (Present(k)' <=> Present(k))
    BY <1>4, AwaitData
  <2> QED BY <2>1, <2>2 DEF RowInv
<1>5. CASE \/ \E j \in Jobs : QueueStep(j) \/ LoseLock(j)
           \/ \E s \in Slots : Settle(s) \/ \E j \in Jobs : Take(s, j)
           \/ WorkerDies
  BY <1>1, <1>5, QueueKeeps DEF dataVars, httpVars
<1> QED BY <1>2, <1>3, <1>4, <1>5, NextCases

LEMMA RowInvariant == Spec => []RowInv
<1>1. Init => RowInv
  BY DEF Init, RowInv
<1> QED BY <1>1, RowInvStep, TypeCorrect, PTL DEF Spec

\* A queue entry never outlives or precedes its row, short of a deletion that
\* has run to its end: whatever is queued can be shown and reported.
THEOREM QueuedHasRow == Spec => []QueuedJobHasRow
<1>1. TypeOK /\ LockInv /\ RowInv => QueuedJobHasRow
  BY DEF LockInv, RowInv, QueuedJobHasRow, Present
<1> QED BY <1>1, TypeCorrect, LockInvariant, RowInvariant, PTL

(***************************************************************************)
(* Deletions                                                               *)
(***************************************************************************)

\* A deletion that began when the queue had finished with the job and nobody
\* worked on it takes contacts, entry and row away one after the other, leaves
\* the finished entry when a call failed, and nothing can bring one back.
QuietInv ==
    \A j \in Jobs : quiet[j] =>
        /\ \A s \in Slots : ~Working(s, j)
        /\ api[j] = "accepted"
        /\ del[j] # "idle"
        /\ stored[j] = {}
        /\ del[j] = "queue" => Settled(j)
        /\ del[j] # "queue" => \/ queue[j] = "absent"
                               \/ Settled(j) /\ faults > 0
        /\ del[j] = "finished" => ~Present(j)

\* A step sees one call fail at most.
LEMMA FaultsGrow ==
    ASSUME [Next]_vars
    PROVE  faults' \in {faults, faults + 1}
<1>1. ASSUME NEW j \in Jobs, Handler(j) PROVE faults' \in {faults, faults + 1}
  BY <1>1 DEF Handler, Receive, Reject, CreateJob, UploadFile, AddToQueue,
     EnqueueFails, DeleteContacts, RemoveFromQueue, DeleteRow,
     RemoveFails, DeleteRowFails, envVars
<1>2. ASSUME NEW s \in Slots, Await(s) PROVE faults' \in {faults, faults + 1}
  BY <1>2 DEF Await, Start, Resolve, Count, RecordTotal, Open, ExcelFileGone,
     RowThrows, ReadRow, EndOfFile, Upsert, Increment, UpdateProgress,
     MarkDone, MarkFailed, Finally, DownloadFails, UpsertFails, UpdateThrows,
     MarkFailedThrows, Step, envVars
<1>3. ASSUME Aside PROVE faults' \in {faults, faults + 1}
  BY <1>3 DEF Aside, Unlink, UnlinkFails, DeleteSegment, envVars
<1>4. CASE UNCHANGED vars
  BY <1>4 DEF vars, envVars
<1> QED BY <1>1, <1>2, <1>3, <1>4, QueueKeeps, NextCases

LEMMA QuietInvStep == TypeOK /\ LockInv /\ QuietInv /\ [Next]_vars => QuietInv'
<1> SUFFICES ASSUME TypeOK, LockInv, QuietInv, [Next]_vars PROVE QuietInv'
  OBVIOUS
<1> USE DEF Present, Working, Settled
<1>0. faults > 0 => faults' > 0
  <2>1. faults' \in {faults, faults + 1}
    BY FaultsGrow
  <2> QED BY <2>1 DEF TypeOK, EnvTypeOK
<1>2. CASE UNCHANGED vars
  BY <1>2 DEF QuietInv, vars, dataVars, httpVars, queueVars, slotVars, envVars
<1>2a. CASE Aside
  <2>1. \A j \in Jobs : stored[j] = {} => stored'[j] = {}
    BY <1>2a DEF Aside, Unlink, UnlinkFails, DeleteSegment, dataVars
  <2> QED
    BY <1>0, <1>2a, <2>1, AsideKeeps DEF QuietInv, httpVars, queueVars, slotVars
<1>3. ASSUME NEW j \in Jobs, Handler(j) PROVE QuietInv'
  <2> USE DEF QuietInv, TypeOK, DataTypeOK, HttpTypeOK, QueueTypeOK, dataVars,
              queueVars, slotVars
  <2>1. CASE DeleteContacts(j)
    <3>1. \A s \in Slots : ~Working(s, j)' = ~Working(s, j)
      BY <2>1 DEF DeleteContacts
    <3>2. quiet'[j] => queue[j] # "absent"
      BY <2>1 DEF DeleteContacts
    <3> QED BY <1>0, <2>1, <3>1, <3>2 DEF DeleteContacts, LockInv
  <2>2. CASE RemoveFromQueue(j)
    BY <1>0, <2>2 DEF RemoveFromQueue, LockInv
  <2>3. CASE DeleteRow(j)
    BY <1>0, <2>3 DEF DeleteRow, NoRow
  <2>4. CASE RemoveFails(j) \/ DeleteRowFails(j)
    <3>1. /\ faults' = faults + 1 /\ faults \in Nat
          /\ UNCHANGED <<row, stored, queue, api, quiet, pc, work>>
          /\ \/ del[j] = "queue" /\ del' = [del EXCEPT ![j] = "row"]
             \/ del[j] = "row" /\ del' = [del EXCEPT ![j] = "error"]
      BY <2>4 DEF RemoveFails, DeleteRowFails, EnvTypeOK
    <3> QED BY <3>1
  <2>5. CASE \/ Receive(j) \/ Reject(j) \/ CreateJob(j) \/ UploadFile(j)
             \/ AddToQueue(j) \/ EnqueueFails(j)
    <3>1. api[j] # "accepted"
      BY <2>5 DEF Receive, Reject, CreateJob, UploadFile, AddToQueue,
         EnqueueFails
    <3>2. \A k \in Jobs \ {j} : row'[k] = row[k] /\ queue'[k] = queue[k]
                                /\ api'[k] = api[k]
      BY <2>5 DEF Receive, Reject, CreateJob, UploadFile, AddToQueue,
         EnqueueFails
    <3>3. UNCHANGED <<stored, del, quiet, pc, work>>
      BY <2>5 DEF Receive, Reject, CreateJob, UploadFile, AddToQueue,
         EnqueueFails
    <3> QED BY <1>0, <3>1, <3>2, <3>3
  <2> QED BY <1>3, <2>1, <2>2, <2>3, <2>4, <2>5 DEF Handler
<1>4. ASSUME NEW s \in Slots, Await(s) PROVE QuietInv'
  <2>1. /\ UNCHANGED <<api, del, quiet, queue>> /\ pc[s] # "idle"
        /\ work'[s].job = work[s].job
        /\ \A t \in Slots \ {s} : pc'[t] = pc[t] /\ work'[t] = work[t]
    BY <1>4, AwaitKeeps DEF httpVars, queueVars
  <2>2. \A k \in Jobs \ {work[s].job} :
            row'[k] = row[k] /\ stored'[k] \subseteq stored[k]
    BY <1>4, AwaitData
  <2> QED BY <1>0, <2>1, <2>2 DEF QuietInv
<1>5. ASSUME NEW j \in Jobs, QueueStep(j) \/ LoseLock(j) PROVE QuietInv'
  <2>1. UNCHANGED <<dataVars, httpVars>>
    BY <1>5, QueueKeeps
  <2>2. /\ UNCHANGED <<pc, work>>
        /\ \A k \in Jobs : Settled(k) \/ queue[k] = "absent" => queue'[k] = queue[k]
    BY <1>5 DEF QueueStep, BackoffEnds, LockExpires, StalledCheck, LoseLock,
       slotVars, TypeOK, QueueTypeOK
  <2> QED BY <1>0, <2>1, <2>2 DEF QuietInv, dataVars, httpVars
<1>6. ASSUME NEW s \in Slots, NEW j \in Jobs, Take(s, j) PROVE QuietInv'
  <2>1. UNCHANGED <<dataVars, httpVars>>
    BY <1>6, QueueKeeps
  <2>2. /\ queue[j] = "waiting" /\ work'[s].job = j
        /\ \A t \in Slots \ {s} : pc'[t] = pc[t] /\ work'[t] = work[t]
        /\ \A k \in Jobs \ {j} : queue'[k] = queue[k]
    BY <1>6 DEF Take, Goto, IdleWork, TypeOK, SlotTypeOK, QueueTypeOK
  <2>3. ~quiet[j]
    BY <2>2 DEF QuietInv
  <2> QED BY <1>0, <2>1, <2>2, <2>3 DEF QuietInv, dataVars, httpVars
<1>7. ASSUME NEW s \in Slots, Settle(s) PROVE QuietInv'
  <2> DEFINE j == work[s].job
  <2>1. UNCHANGED <<dataVars, httpVars>>
    BY <1>7, QueueKeeps
  <2>2. /\ pc[s] # "idle" /\ pc'[s] = "idle" /\ j \in Jobs
        /\ \A t \in Slots \ {s} : pc'[t] = pc[t] /\ work'[t] = work[t]
        /\ \A k \in Jobs \ {j} : queue'[k] = queue[k]
    BY <1>7 DEF Settle, Goto, TypeOK, SlotTypeOK, QueueTypeOK
  <2>3. ~quiet[j]
    BY <2>2 DEF QuietInv
  <2> QED BY <1>0, <2>1, <2>2, <2>3 DEF QuietInv, dataVars, httpVars
<1>8. CASE WorkerDies
  BY <1>8 DEF WorkerDies, QuietInv, dataVars, httpVars
<1> QED BY <1>2, <1>2a, <1>3, <1>4, <1>5, <1>6, <1>7, <1>8, NextCases

LEMMA QuietInvariant == Spec => []QuietInv
<1>1. Init => QuietInv
  BY DEF Init, QuietInv
<1> QED BY <1>1, QuietInvStep, TypeCorrect, LockInvariant, PTL DEF Spec

\* Deleting a settled job nobody works on is final: no interleaving of the
\* worker, the queue and other requests brings a contact, the row or the entry
\* back, even when locks are lost.
THEOREM DeletionIsFinal == Spec => []DeletedForGood
<1>1. QuietInv => DeletedForGood
  BY DEF QuietInv, DeletedForGood, Present
<1> QED BY <1>1, QuietInvariant, PTL

\* Once the queue is finished with a job its row is written by nobody but the
\* DELETE of a deletion.
THEOREM OutcomeStays == Spec => OutcomeIsFinal
<1>1. ASSUME TypeOK, LockInv, [Next]_vars, lockLosses = 0, NEW j \in Jobs,
             Settled(j)
      PROVE  row'[j] = row[j] \/ row'[j] = NoRow
  <2>1. CASE UNCHANGED vars
    BY <2>1 DEF vars, dataVars
  <2>2. ASSUME NEW k \in Jobs, Handler(k)
        PROVE  row'[j] = row[j] \/ row'[j] = NoRow
    <3> USE DEF TypeOK, DataTypeOK, dataVars
    <3>1. CASE CreateJob(k)  BY <1>1, <3>1 DEF CreateJob, LockInv, Settled
    <3>2. CASE DeleteRow(k)  BY <3>2 DEF DeleteRow
    <3>3. CASE ~CreateJob(k) /\ ~DeleteRow(k)
      BY <2>2, <3>3 DEF Handler, Receive, Reject, UploadFile, AddToQueue,
         EnqueueFails, DeleteContacts, RemoveFromQueue, RemoveFails,
         DeleteRowFails
    <3> QED BY <3>1, <3>2, <3>3
  <2>3. ASSUME NEW s \in Slots, Await(s) PROVE row'[j] = row[j]
    <3>1. pc[s] # "idle" /\ work[s].job # j
      BY <1>1, <2>3, AwaitKeeps, NobodyWorks DEF Settled, Working
    <3> QED BY <1>1, <2>3, <3>1, AwaitData
  <2>4. CASE \/ \E k \in Jobs : QueueStep(k) \/ LoseLock(k)
             \/ \E s \in Slots : Settle(s) \/ \E k \in Jobs : Take(s, k)
             \/ WorkerDies \/ Aside
    BY <2>4, QueueKeeps, AsideKeeps DEF dataVars
  <2> QED BY <1>1, <2>1, <2>2, <2>3, <2>4, NextCases
<1>2. TypeOK /\ LockInv /\ [Next]_vars =>
        [lockLosses = 0 => \A j \in Jobs : Settled(j) =>
            row'[j] = row[j] \/ row'[j] = NoRow]_vars
  BY <1>1
<1> QED BY <1>2, TypeCorrect, LockInvariant, PTL DEF Spec, OutcomeIsFinal

(***************************************************************************)
(* How a job ends                                                          *)
(***************************************************************************)

Ended == {"finally", "settle"}

\* A handler remembers an error only once it has left the try block.
ThrewInv == \A s \in Slots : pc[s] \notin Ended => ~work[s].threw

\* A handler that is through has told the row how it went, unless the row is
\* gone or the UPDATE failed.
ToldInv ==
    lockLosses = 0 =>
        \A s \in Slots : pc[s] \in Ended =>
            LET j == work[s].job
            IN  IF work[s].threw
                THEN row[j].status \in {"failed", "absent"} \/ unreported[j]
                ELSE row[j].status \in {"done", "absent"}

LEMMA ThrewInvStep == TypeOK /\ ThrewInv /\ [Next]_vars => ThrewInv'
<1> SUFFICES ASSUME TypeOK, ThrewInv, [Next]_vars PROVE ThrewInv'
  OBVIOUS
<1>1. ASSUME UNCHANGED slotVars PROVE ThrewInv'
  BY <1>1 DEF ThrewInv, slotVars
<1>2. CASE UNCHANGED vars \/ Aside
  BY <1>1, <1>2, AsideKeeps DEF vars
<1>3. ASSUME NEW j \in Jobs, Handler(j) \/ QueueStep(j) \/ LoseLock(j)
      PROVE  ThrewInv'
  BY <1>1, <1>3 DEF Handler, Receive, Reject, CreateJob, UploadFile, AddToQueue,
     EnqueueFails, DeleteContacts, RemoveFromQueue, DeleteRow,
     RemoveFails, DeleteRowFails, QueueStep, BackoffEnds, LockExpires,
     StalledCheck,
     LoseLock
<1>4. ASSUME NEW s \in Slots,
             Settle(s) \/ \E j \in Jobs : Take(s, j)
      PROVE  ThrewInv'
  BY <1>4 DEF Settle, Take, Goto, IdleWork, ThrewInv, TypeOK, SlotTypeOK
<1>5. CASE WorkerDies
  BY <1>5 DEF WorkerDies, IdleWork, ThrewInv
<1>6. ASSUME NEW s \in Slots, Await(s) PROVE ThrewInv'
  <2>1. \A t \in Slots \ {s} : pc'[t] = pc[t] /\ work'[t] = work[t]
    BY <1>6, AwaitKeeps
  <2>2. SUFFICES pc'[s] \notin Ended => ~work'[s].threw
    BY <2>1 DEF ThrewInv
  <2>3. work[s] \in WorkType /\ (pc[s] \notin Ended => ~work[s].threw)
    BY DEF TypeOK, SlotTypeOK, ThrewInv
  <2> USE DEF Step, Goto, TypeOK, SlotTypeOK
  <2>4. CASE \/ Start(s) \/ Count(s) \/ RecordTotal(s) \/ Open(s)
             \/ ExcelFileGone(s) \/ RowThrows(s) \/ EndOfFile(s)
             \/ Increment(s) \/ DownloadFails(s) \/ UpdateThrows(s)
    <3>1. work' = work /\ pc[s] \notin Ended
      BY <2>4 DEF Start, Count, RecordTotal, Open, ExcelFileGone, RowThrows,
         EndOfFile, Increment, DownloadFails, UpdateThrows, Ended
    <3> QED BY <2>3, <3>1
  <2>5. CASE MarkDone(s) \/ MarkFailed(s) \/ MarkFailedThrows(s) \/ Finally(s)
    BY <2>5 DEF MarkDone, MarkFailed, MarkFailedThrows, Finally, Ended
  <2>6. CASE Resolve(s)         BY <2>3, <2>6 DEF Resolve, WorkType, Ended
  <2>7. CASE ReadRow(s)         BY <2>3, <2>7 DEF ReadRow, WorkType, Ended
  <2>8. CASE Upsert(s)          BY <2>3, <2>8 DEF Upsert, WorkType, Ended
  <2>9. CASE UpsertFails(s)     BY <2>3, <2>9 DEF UpsertFails, WorkType, Ended
  <2>10. CASE UpdateProgress(s)
    BY <2>3, <2>10 DEF UpdateProgress, WorkType, Ended
  <2> QED
    BY <1>6, <2>4, <2>5, <2>6, <2>7, <2>8, <2>9, <2>10 DEF Await
<1> QED BY <1>2, <1>3, <1>4, <1>5, <1>6, NextCases

LEMMA ThrewInvariant == Spec => []ThrewInv
<1>1. Init => ThrewInv
  BY DEF Init, IdleWork, ThrewInv
<1> QED BY <1>1, ThrewInvStep, TypeCorrect, PTL DEF Spec

OutcomeInv == ToldInv /\ OutcomeReported

\* The last awaits of a handler: what they write agrees with what it remembers.
LEMMA ToldByHandler ==
    ASSUME TypeOK, ThrewInv, ToldInv, lockLosses = 0,
           NEW s \in Slots, Await(s), pc'[s] \in Ended
    PROVE  LET j == work[s].job
           IN  IF work'[s].threw
               THEN row'[j].status \in {"failed", "absent"} \/ unreported'[j]
               ELSE row'[j].status \in {"done", "absent"}
<1> DEFINE j == work[s].job
<1>1. /\ j \in Jobs /\ row \in [Jobs -> RowType] /\ work[s] \in WorkType
      /\ pc[s] # "idle"
  BY AwaitKeeps DEF TypeOK, SlotTypeOK, DataTypeOK
<1> USE DEF Step, Goto, TypeOK, SlotTypeOK
<1>2. \/ MarkDone(s) \/ MarkFailed(s) \/ MarkFailedThrows(s) \/ Finally(s)
  BY DEF Await, Start, Resolve, Count, RecordTotal, Open, ExcelFileGone,
     RowThrows, ReadRow, EndOfFile, Upsert, Increment, UpdateProgress,
     DownloadFails, UpsertFails, UpdateThrows, Ended
<1>3. CASE MarkDone(s)
  <2>1. ~work'[s].threw
    BY <1>3 DEF MarkDone, ThrewInv, Ended
  <2>2. row'[j].status \in {"done", "absent"}
    BY <1>1, <1>3 DEF MarkDone, UpdateRow, RowType
  <2> QED BY <2>1, <2>2
<1>4. CASE MarkFailed(s)
  <2>1. work'[s].threw
    BY <1>1, <1>4 DEF MarkFailed, WorkType
  <2>2. row'[j].status \in {"failed", "absent"}
    BY <1>1, <1>4 DEF MarkFailed, UpdateRow, RowType
  <2> QED BY <2>1, <2>2
<1>5. CASE MarkFailedThrows(s)
  <2>1. work'[s].threw
    BY <1>1, <1>5 DEF MarkFailedThrows, WorkType
  <2>2. unreported \in [Jobs -> BOOLEAN]
    BY DEF TypeOK, EnvTypeOK
  <2>3. unreported' = [unreported EXCEPT ![j] = TRUE]
    BY <1>5 DEF MarkFailedThrows
  <2>4. unreported'[j]
    BY <1>1, <2>2, <2>3, Zenon
  <2> QED BY <2>1, <2>4
<1>6. CASE Finally(s)
  <2>1. /\ pc[s] \in Ended /\ work'[s] = work[s] /\ row' = row
        /\ unreported' = unreported
    BY <1>6 DEF Finally, Ended, dataVars, envVars
  <2> QED BY <2>1 DEF ToldInv
<1> QED BY <1>2, <1>3, <1>4, <1>5, <1>6

\* A flag that was raised stays up.
LEMMA UnreportedStays ==
    ASSUME TypeOK, Next, NEW j \in Jobs, unreported[j]
    PROVE  unreported'[j]
<1>1. CASE \E s \in Slots : MarkFailedThrows(s)
  <2>1. PICK s \in Slots : MarkFailedThrows(s)
    BY <1>1
  <2>2. /\ unreported \in [Jobs -> BOOLEAN]
        /\ unreported' = [unreported EXCEPT ![work[s].job] = TRUE]
    BY <2>1 DEF TypeOK, EnvTypeOK, MarkFailedThrows
  <2> QED BY <2>2, Zenon
<1>2. CASE ~ \E s \in Slots : MarkFailedThrows(s)
  <2>1. ASSUME NEW k \in Jobs, Handler(k) PROVE unreported' = unreported
    BY <2>1 DEF Handler, Receive, Reject, CreateJob, UploadFile, AddToQueue,
       EnqueueFails, DeleteContacts, RemoveFromQueue, DeleteRow,
       RemoveFails, DeleteRowFails, envVars
  <2>2. ASSUME NEW s \in Slots, Await(s) PROVE unreported' = unreported
    BY <1>2, <2>2 DEF Await, Start, Resolve, Count, RecordTotal, Open,
       ExcelFileGone, RowThrows, ReadRow, EndOfFile, Upsert, Increment,
       UpdateProgress, MarkDone, MarkFailed, Finally, DownloadFails,
       UpsertFails, UpdateThrows, Step, envVars
  <2> QED BY <2>1, <2>2, QueueKeeps, AsideKeeps, NextCases
<1> QED BY <1>1, <1>2

LEMMA OutcomeInvStep ==
    TypeOK /\ LockInv /\ ThrewInv /\ OutcomeInv /\ [Next]_vars => OutcomeInv'
<1> SUFFICES ASSUME TypeOK, LockInv, ThrewInv, OutcomeInv, [Next]_vars
             PROVE  OutcomeInv'
  OBVIOUS
<1>1. CASE UNCHANGED vars \/ Aside
  BY <1>1, AsideKeeps
  DEF OutcomeInv, ToldInv, OutcomeReported, vars, dataVars, queueVars, slotVars,
      envVars
<1>2. CASE lockLosses' # 0
  BY <1>2 DEF OutcomeInv, ToldInv, OutcomeReported
<1> SUFFICES ASSUME Next, ~Aside, lockLosses' = 0 PROVE OutcomeInv'
  BY <1>1, <1>2
<1>3. lockLosses = 0 /\ ~ \E j \in Jobs : LoseLock(j)
  BY NoLockLost
\* A slot that stays where it is, on a job whose row stays or goes.
<1>4. ASSUME NEW t \in Slots, pc'[t] = pc[t], work'[t] = work[t],
             LET j == work[t].job
             IN  pc[t] # "idle" => row'[j] = row[j] \/ row'[j] = NoRow
      PROVE  pc'[t] \in Ended =>
                LET j == work'[t].job
                IN  IF work'[t].threw
                    THEN row'[j].status \in {"failed", "absent"}
                         \/ unreported'[j]
                    ELSE row'[j].status \in {"done", "absent"}
  <2> SUFFICES ASSUME pc[t] \in Ended PROVE LET j == work[t].job
                IN  IF work[t].threw
                    THEN row'[j].status \in {"failed", "absent"}
                         \/ unreported'[j]
                    ELSE row'[j].status \in {"done", "absent"}
    BY <1>4
  <2>1. work[t].job \in Jobs
    BY DEF TypeOK, SlotTypeOK, Ended
  <2>2. unreported[work[t].job] => unreported'[work[t].job]
    BY <2>1, UnreportedStays
  <2> QED
    BY <1>3, <1>4, <2>1, <2>2 DEF OutcomeInv, ToldInv, NoRow, Ended
\* An entry that stays where it is, of a job whose row stays or goes.
<1>5. ASSUME NEW k \in Jobs, queue'[k] = queue[k], stalls'[k] = stalls[k],
             Settled(k) => row'[k] = row[k] \/ row'[k] = NoRow
      PROVE  stalls'[k] <= MaxStalled =>
                /\ queue'[k] = "completed" =>
                        row'[k].status \in {"done", "absent"}
                /\ queue'[k] = "failed" =>
                        row'[k].status \in {"failed", "absent"} \/ unreported'[k]
  BY <1>3, <1>5, UnreportedStays DEF OutcomeInv, OutcomeReported, NoRow, Settled
<1>6. ASSUME NEW j \in Jobs, Handler(j) PROVE OutcomeInv'
  <2>1. /\ UNCHANGED <<pc, work, stalls>>
        /\ \A k \in Jobs : queue'[k] = queue[k]
                            \/ queue'[k] \notin {"completed", "failed"}
    BY <1>6 DEF Handler, Receive, Reject, CreateJob, UploadFile, AddToQueue,
       EnqueueFails, DeleteContacts, RemoveFromQueue, DeleteRow,
       RemoveFails, DeleteRowFails, queueVars, slotVars, TypeOK, QueueTypeOK
  <2>2. ASSUME NEW k \in Jobs, queue[k] # "absent"
        PROVE  row'[k] = row[k] \/ row'[k] = NoRow
    <3> USE DEF TypeOK, DataTypeOK, dataVars
    <3>1. CASE CreateJob(j)  BY <2>2, <3>1 DEF CreateJob, LockInv
    <3>2. CASE DeleteRow(j)  BY <3>2 DEF DeleteRow
    <3>3. CASE ~CreateJob(j) /\ ~DeleteRow(j)
      BY <1>6, <3>3 DEF Handler, Receive, Reject, UploadFile, AddToQueue,
         EnqueueFails, DeleteContacts, RemoveFromQueue, RemoveFails,
         DeleteRowFails
    <3> QED BY <3>1, <3>2, <3>3
  <2>3. \A t \in Slots : pc[t] # "idle" =>
            work[t].job \in Jobs /\ queue[work[t].job] # "absent"
    BY <1>3, NobodyWorks DEF Working, TypeOK, SlotTypeOK
  <2>4. ToldInv'
    BY <1>4, <2>1, <2>2, <2>3 DEF ToldInv
  <2>5. OutcomeReported'
    BY <1>5, <2>1, <2>2 DEF OutcomeReported, Settled
  <2> QED BY <2>4, <2>5 DEF OutcomeInv
<1>7. ASSUME NEW s \in Slots, Await(s) PROVE OutcomeInv'
  <2> DEFINE j == work[s].job
  <2>1. /\ UNCHANGED <<queue, stalls>> /\ pc[s] # "idle" /\ work'[s].job = j
        /\ \A t \in Slots \ {s} : pc'[t] = pc[t] /\ work'[t] = work[t]
    BY <1>7, AwaitKeeps DEF queueVars
  <2>2. j \in Jobs /\ \A k \in Jobs \ {j} : row'[k] = row[k]
    BY <1>7, AwaitData
  <2>3. \A t \in Slots \ {s} : pc[t] # "idle" =>
            work[t].job \in Jobs \ {j}
    BY <1>3, <2>1 DEF LockInv, TypeOK, SlotTypeOK
  <2>4. ToldInv'
    BY <1>3, <1>4, <1>7, <2>1, <2>2, <2>3, ToldByHandler DEF ToldInv, OutcomeInv
  <2>5. ~Settled(j)
    BY <1>3, <2>1, <2>2, NobodyWorks DEF Settled, Working
  <2>6. OutcomeReported'
    BY <1>5, <2>1, <2>2, <2>5 DEF OutcomeReported
  <2> QED BY <2>4, <2>6 DEF OutcomeInv
<1>8. ASSUME NEW j \in Jobs, QueueStep(j) PROVE OutcomeInv'
  <2>1. UNCHANGED <<dataVars, slotVars>>
    BY <1>8 DEF QueueStep, BackoffEnds, LockExpires, StalledCheck
  <2>2. /\ \A k \in Jobs \ {j} : queue'[k] = queue[k] /\ stalls'[k] = stalls[k]
        /\ \/ queue'[j] = queue[j] /\ stalls'[j] = stalls[j]
           \/ queue'[j] = "waiting"
           \/ stalls'[j] > MaxStalled
    BY <1>8, CountsAssumption
    DEF QueueStep, BackoffEnds, LockExpires, StalledCheck, TypeOK, QueueTypeOK
  <2>3. ToldInv'
    BY <1>4, <2>1 DEF ToldInv, dataVars, slotVars
  <2>4. stalls'[j] > MaxStalled => ~(stalls'[j] <= MaxStalled)
    BY <1>8, CountsAssumption
    DEF QueueStep, BackoffEnds, LockExpires, StalledCheck, TypeOK, QueueTypeOK
  <2>5. OutcomeReported'
    BY <1>5, <2>1, <2>2, <2>4 DEF OutcomeReported, dataVars
  <2> QED BY <2>3, <2>5 DEF OutcomeInv
<1>9. ASSUME NEW s \in Slots, NEW j \in Jobs, Take(s, j) PROVE OutcomeInv'
  <2>1. /\ UNCHANGED <<row, stalls>> /\ pc'[s] \notin Ended
        /\ \A t \in Slots \ {s} : pc'[t] = pc[t] /\ work'[t] = work[t]
        /\ \A k \in Jobs \ {j} : queue'[k] = queue[k]
        /\ queue'[j] = "active"
    BY <1>9 DEF Take, Goto, TypeOK, SlotTypeOK, QueueTypeOK, dataVars, Ended
  <2>2. ToldInv'
    BY <1>4, <2>1 DEF ToldInv
  <2>3. OutcomeReported'
    BY <1>5, <2>1 DEF OutcomeReported
  <2> QED BY <2>2, <2>3 DEF OutcomeInv
<1>10. ASSUME NEW s \in Slots, Settle(s) PROVE OutcomeInv'
  <2> DEFINE j == work[s].job
  <2>1. /\ UNCHANGED <<row, stalls, unreported>> /\ pc[s] = "settle"
        /\ pc'[s] \notin Ended /\ j \in Jobs
        /\ \A t \in Slots \ {s} : pc'[t] = pc[t] /\ work'[t] = work[t]
        /\ \A k \in Jobs \ {j} : queue'[k] = queue[k]
    BY <1>10 DEF Settle, Goto, TypeOK, SlotTypeOK, QueueTypeOK, dataVars,
       envVars, Ended
  <2>2. ToldInv'
    BY <1>4, <2>1 DEF ToldInv
  <2>3. lock[j] = s
    BY <1>3, <2>1 DEF LockInv
  <2>4. queue'[j] = IF ~work[s].threw THEN "completed"
                    ELSE IF attempts[j] + 1 < MaxAttempts THEN "delayed"
                    ELSE "failed"
    BY <1>10, <2>1, <2>3 DEF Settle, TypeOK, QueueTypeOK
  <2>5. IF work[s].threw
        THEN row[j].status \in {"failed", "absent"} \/ unreported[j]
        ELSE row[j].status \in {"done", "absent"}
    BY <1>3, <2>1 DEF OutcomeInv, ToldInv, Ended
  <2>6. OutcomeReported'
    BY <1>5, <2>1, <2>4, <2>5 DEF OutcomeReported
  <2> QED BY <2>2, <2>6 DEF OutcomeInv
<1>11. CASE WorkerDies
  <2>1. UNCHANGED <<row, queue, stalls>> /\ \A t \in Slots : pc'[t] \notin Ended
    BY <1>11 DEF WorkerDies, Ended, dataVars
  <2> QED
    BY <1>5, <2>1 DEF OutcomeInv, ToldInv, OutcomeReported
<1> QED
  BY <1>3, <1>6, <1>7, <1>8, <1>9, <1>10, <1>11, NextCases

\* When the queue is finished with a job its row says how it ended, whatever
\* the number of retries, kills and deletions.  The exceptions are an entry that
\* stalled once too often and an UPDATE to 'failed' that failed itself.
THEOREM OutcomeTold == Spec => []OutcomeReported
<1>1. Init => OutcomeInv
  BY DEF Init, OutcomeInv, ToldInv, OutcomeReported, Ended
<1>2. Spec => []OutcomeInv
  BY <1>1, OutcomeInvStep, TypeCorrect, LockInvariant, ThrewInvariant, PTL
  DEF Spec
<1>3. OutcomeInv => OutcomeReported
  BY DEF OutcomeInv
<1> QED BY <1>2, <1>3, PTL

(***************************************************************************)
(* What a finished job has in the table                                    *)
(***************************************************************************)

Running == Counting \union {"start"}

\* Nothing has been deleted.
Untouched == clears = 0 /\ \A j \in Jobs : del[j] = "idle"

Table == UNION {stored[k] : k \in Jobs}

\* The rows of its file a handler has passed and whose contacts it finds in the
\* table, without those of the batch it still holds.
UpsertedRows(s) ==
    (InTable(work[s].job) \cap (1..work[s].pos)) \
        (IF pc[s] \in {"increment", "progress"} THEN {} ELSE work[s].batch)

Upserted(s) ==
    pc[s] \in Running /\ Untouched =>
        work[s].processed <= Cardinality(UpsertedRows(s))

\* As long as nothing is deleted the table holds the contacts of all the rows a
\* handler has counted as processed.
StoredInv == \A s \in Slots : Upserted(s)

\* An upload that takes contacts from another takes none out of the table.
LEMMA TableAfterStore ==
    ASSUME DataTypeOK, NEW j \in Jobs, NEW cs, Store(j, cs)
    PROVE  Table' = Table \union cs
<1>1. \A k \in Jobs : stored'[k] = IF k = j THEN stored[k] \union cs
                                 ELSE stored[k] \ cs
  BY DEF Store
<1>2. ASSUME NEW x \in Table' PROVE x \in Table \union cs
  <2>1. PICK k \in Jobs : x \in stored'[k]
    BY <1>2 DEF Table
  <2> QED BY <1>1, <2>1 DEF Table
<1>3. ASSUME NEW x \in Table PROVE x \in Table'
  <2>1. PICK k \in Jobs : x \in stored[k]
    BY <1>3 DEF Table
  <2>2. x \in stored'[k] \/ x \in stored'[j]
    BY <1>1, <2>1
  <2> QED BY <2>2 DEF Table
<1>4. cs \subseteq Table'
  <2>1. cs \subseteq stored'[j]
    BY <1>1
  <2> QED BY <2>1 DEF Table
<1> QED BY <1>2, <1>3, <1>4

LEMMA TableGrows ==
    ASSUME TypeOK, NEW s \in Slots, Await(s)
    PROVE  Table \subseteq Table'
<1>1. work[s].job \in Jobs
  BY AwaitData
<1>2. stored' = stored \/ Store(work[s].job, ContactsOf(work[s].job, work[s].batch))
  BY AwaitData
<1>3. CASE stored' = stored
  BY <1>3 DEF Table
<1>4. CASE Store(work[s].job, ContactsOf(work[s].job, work[s].batch))
  BY <1>1, <1>4, TableAfterStore DEF TypeOK
<1> QED BY <1>2, <1>3, <1>4

\* More contacts in the table, more rows found there.
LEMMA InTableGrows ==
    ASSUME NEW j \in Jobs, Table \subseteq Table'
    PROVE  /\ InTable(j) \subseteq InTable(j)'
           /\ IsFiniteSet(InTable(j)) /\ IsFiniteSet(InTable(j)')
           /\ Cardinality(InTable(j)) \in Nat /\ Cardinality(InTable(j)') \in Nat
           /\ Cardinality(InTable(j)) <= Cardinality(InTable(j)')
<1>1. /\ InTable(j) \subseteq InTable(j)'
      /\ InTable(j) \subseteq 1..NumRows[j] /\ InTable(j)' \subseteq 1..NumRows[j]
  BY DEF InTable, Table
<1>2. IsFiniteSet(1..NumRows[j])
  BY FilesAssumption, FS_Interval
<1>3. IsFiniteSet(InTable(j)) /\ IsFiniteSet(InTable(j)')
  BY <1>1, <1>2, FS_Subset
<1> QED BY <1>1, <1>3, FS_Subset, FS_CardinalityType

LEMMA UpsertedFinite ==
    ASSUME SlotTypeOK, NEW s \in Slots, NEW S, S \subseteq 1..work[s].pos
    PROVE  IsFiniteSet(S) /\ Cardinality(S) \in Nat
<1>1. IsFiniteSet(1..work[s].pos)
  BY FS_Interval DEF SlotTypeOK, WorkType
<1> QED BY <1>1, FS_Subset, FS_CardinalityType

\* A handler that counts no further row and loses none stays within the bound.
LEMMA UpsertedGrows ==
    ASSUME TypeOK, TypeOK', NEW s \in Slots, Upserted(s),
           pc'[s] \in Running => pc[s] \in Running,
           work'[s].job = work[s].job,
           work'[s].processed = work[s].processed,
           Untouched' =>
              Untouched /\ UpsertedRows(s) \subseteq UpsertedRows(s)'
    PROVE  Upserted(s)'
<1> DEFINE old == UpsertedRows(s)
           new == UpsertedRows(s)'
<1> SUFFICES ASSUME pc'[s] \in Running, Untouched'
             PROVE  work[s].processed <= Cardinality(new)
  BY DEF Upserted
<1>1. work[s].processed <= Cardinality(old) /\ old \subseteq new
  BY DEF Upserted
<1>2. old \subseteq 1..work[s].pos /\ new \subseteq 1..work'[s].pos
  BY DEF UpsertedRows
<1>3. Cardinality(old) \in Nat /\ IsFiniteSet(new) /\ Cardinality(new) \in Nat
  <2>1. IsFiniteSet(1..work'[s].pos)
    BY FS_Interval DEF TypeOK, SlotTypeOK, WorkType
  <2> QED BY <1>2, <2>1, UpsertedFinite, FS_Subset, FS_CardinalityType
  DEF TypeOK
<1>4. Cardinality(old) <= Cardinality(new)
  BY <1>1, <1>3, FS_Subset
<1>5. work[s].processed \in Nat
  BY DEF TypeOK, SlotTypeOK, WorkType
<1> HIDE DEF old, new
<1> QED BY <1>1, <1>3, <1>4, <1>5

LEMMA UpsertCounts ==
    ASSUME TypeOK, TypeOK', StoredInv, NEW s \in Slots, Upsert(s)
    PROVE  Upserted(s)'
<1> DEFINE w == work[s]
           old == UpsertedRows(s)
           new == UpsertedRows(s)'
<1>1. /\ pc[s] = "upsert" /\ pc'[s] = "increment" /\ w \in WorkType
      /\ w.job \in Jobs /\ w.batch \subseteq 1..w.pos /\ UNCHANGED <<del, clears>>
      /\ Store(w.job, ContactsOf(w.job, w.batch)) /\ w.pos <= NumRows[w.job]
  BY DEF Upsert, Step, Goto, TypeOK, SlotTypeOK, httpVars, envVars
<1>2. work'[s] = [w EXCEPT !.processed = @ + Cardinality(w.batch)]
  BY DEF Upsert, TypeOK, SlotTypeOK
<1>3. /\ work'[s].job = w.job /\ work'[s].pos = w.pos
      /\ work'[s].processed = w.processed + Cardinality(w.batch)
  BY <1>1, <1>2 DEF WorkType
<1>4. old \cap w.batch = {} /\ old \union w.batch \subseteq new
  <2>1. Table' = Table \union ContactsOf(w.job, w.batch)
    BY <1>1, TableAfterStore DEF TypeOK
  <2>2. InTable(w.job) \subseteq InTable(w.job)'
    <3>1. PICK k \in Jobs : k = w.job
      BY <1>1
    <3>2. InTable(k) \subseteq InTable(k)'
      BY <2>1, InTableGrows
    <3> QED BY <1>3, <3>1, <3>2 DEF InTable
  <2>3. w.batch \subseteq 1..NumRows[w.job]
    BY <1>1, FilesAssumption DEF WorkType
  <2>4. ASSUME NEW r \in w.batch PROVE r \in InTable(w.job)'
    <3>1. PICK k \in Jobs : k = w.job
      BY <1>1
    <3>2. ContactOf[k][r] \in Table'
      BY <2>1, <3>1 DEF ContactsOf
    <3>3. r \in InTable(k)'
      BY <2>3, <3>1, <3>2 DEF InTable, Table
    <3> QED BY <1>3, <3>1, <3>3 DEF InTable
  <2>5. new = InTable(w.job)' \cap (1..w.pos)
    BY <1>1, <1>3 DEF UpsertedRows, InTable
  <2>6. old = (InTable(w.job) \cap (1..w.pos)) \ w.batch
    BY <1>1 DEF UpsertedRows
  <2> QED BY <1>1, <2>2, <2>4, <2>5, <2>6
<1>5. /\ IsFiniteSet(old) /\ Cardinality(old) \in Nat
      /\ IsFiniteSet(w.batch) /\ Cardinality(w.batch) \in Nat
      /\ IsFiniteSet(new) /\ Cardinality(new) \in Nat
  <2>1. old \subseteq 1..w.pos /\ new \subseteq 1..w.pos
    BY <1>3 DEF UpsertedRows
  <2> QED BY <1>1, <2>1, UpsertedFinite DEF TypeOK
<1>6. Cardinality(old) + Cardinality(w.batch) <= Cardinality(new)
  <2>1. Cardinality(old \union w.batch)
          = Cardinality(old) + Cardinality(w.batch) - Cardinality(old \cap w.batch)
    BY <1>5, FS_Union
  <2> HIDE DEF old, new, w
  <2>2. Cardinality(old \cap w.batch) = 0
    BY <1>4, FS_EmptySet, Zenon
  <2>3. Cardinality(old \union w.batch) <= Cardinality(new)
    BY <1>4, <1>5, FS_Subset
  <2> QED BY <1>5, <2>1, <2>2, <2>3
<1>7. Untouched => w.processed <= Cardinality(old)
  BY <1>1 DEF StoredInv, Upserted, Running, Counting
<1>8. w.processed \in Nat
  BY <1>1 DEF WorkType
<1>9. Untouched => work'[s].processed <= Cardinality(new)
  <2> HIDE DEF old, new, w
  <2> QED BY <1>3, <1>5, <1>6, <1>7, <1>8
<1>10. Untouched' => Untouched
  BY <1>1 DEF Untouched
<1> QED BY <1>9, <1>10 DEF Upserted

LEMMA StoredInvStep ==
    TypeOK /\ TypeOK' /\ StoredInv /\ [Next]_vars => StoredInv'
<1> SUFFICES ASSUME TypeOK, TypeOK', StoredInv, [Next]_vars
             PROVE  StoredInv'
  OBVIOUS
\* A slot that stays where it is, while nobody deletes anything.
<1>1. ASSUME NEW t \in Slots, pc'[t] = pc[t], work'[t] = work[t],
             Untouched' => Untouched /\ Table \subseteq Table'
      PROVE  Upserted(t)'
  <2>1. CASE pc[t] = "idle"
    BY <1>1, <2>1 DEF Upserted, Running, Counting
  <2>2. CASE pc[t] # "idle"
    <3>1. work[t].job \in Jobs
      BY <2>2 DEF TypeOK, SlotTypeOK
    <3>2. Untouched' => InTable(work[t].job) \subseteq InTable(work[t].job)'
      BY <1>1, <3>1, InTableGrows
    <3>3. Untouched' => UpsertedRows(t) \subseteq UpsertedRows(t)'
      BY <1>1, <3>2 DEF UpsertedRows, InTable
    <3> QED BY <1>1, <3>3, UpsertedGrows DEF StoredInv
  <2> QED BY <2>1, <2>2
<1>2. ASSUME UNCHANGED <<stored, del, clears, pc, work>> PROVE StoredInv'
  BY <1>1, <1>2 DEF StoredInv, Untouched, Table
<1>3. CASE UNCHANGED vars
  BY <1>2, <1>3 DEF vars, dataVars, httpVars, slotVars, envVars
<1>3a. CASE Aside
  <2>1. UNCHANGED <<pc, work, del>>
    BY <1>3a, AsideKeeps DEF slotVars, httpVars
  <2>2. CASE UNCHANGED <<stored, clears>>
    BY <1>2, <2>1, <2>2
  <2>3. CASE DeleteSegment
    <3>1. ~Untouched'
      BY <2>3 DEF DeleteSegment, Untouched, TypeOK, EnvTypeOK
    <3> QED BY <3>1 DEF StoredInv, Upserted
  <2> QED
    BY <1>3a, <2>2, <2>3 DEF Aside, Unlink, UnlinkFails, dataVars, envVars
<1>4. ASSUME NEW j \in Jobs, Handler(j) PROVE StoredInv'
  <2> USE DEF TypeOK, DataTypeOK, HttpTypeOK, dataVars, envVars
  <2>1. UNCHANGED <<pc, work>> /\ (Untouched' => Untouched /\ stored' = stored)
    <3>1. CASE DeleteContacts(j)
      <4>1. del' = [del EXCEPT ![j] = "queue"] /\ UNCHANGED slotVars
        BY <3>1 DEF DeleteContacts
      <4> QED BY <4>1 DEF slotVars, Untouched
    <3>2. CASE \/ Receive(j) \/ Reject(j) \/ CreateJob(j) \/ UploadFile(j)
               \/ AddToQueue(j) \/ EnqueueFails(j)
      <4>1. UNCHANGED <<stored, del, clears, slotVars>>
        BY <3>2 DEF Receive, Reject, CreateJob, UploadFile, AddToQueue,
           EnqueueFails
      <4> QED BY <4>1 DEF slotVars, Untouched
    <3>3. CASE \/ RemoveFromQueue(j) \/ DeleteRow(j) \/ RemoveFails(j)
               \/ DeleteRowFails(j)
      <4>1. /\ UNCHANGED slotVars
            /\ \E to \in {"row", "finished", "error"} :
                    del' = [del EXCEPT ![j] = to]
        BY <3>3 DEF RemoveFromQueue, DeleteRow, RemoveFails, DeleteRowFails
      <4> QED BY <4>1 DEF slotVars, Untouched
    <3> QED BY <1>4, <3>1, <3>2, <3>3 DEF Handler
  <2>2. Untouched' => Table \subseteq Table'
    BY <2>1 DEF Table
  <2> QED BY <1>1, <2>1, <2>2 DEF StoredInv
<1>5. ASSUME NEW j \in Jobs, QueueStep(j) \/ LoseLock(j) PROVE StoredInv'
  <2>1. UNCHANGED <<dataVars, httpVars, clears>>
    BY <1>5, QueueKeeps
  <2>2. UNCHANGED <<pc, work>>
    BY <1>5 DEF QueueStep, BackoffEnds, LockExpires, StalledCheck, LoseLock,
       slotVars
  <2> QED BY <1>2, <2>1, <2>2 DEF dataVars, httpVars
<1>6. ASSUME NEW s \in Slots, NEW j \in Jobs, Take(s, j) PROVE StoredInv'
  <2>1. UNCHANGED <<stored, del, clears>>
    BY <1>6, QueueKeeps DEF dataVars, httpVars
  <2>2. /\ work'[s].processed = 0 /\ work'[s].pos = 0
        /\ \A t \in Slots \ {s} : pc'[t] = pc[t] /\ work'[t] = work[t]
    BY <1>6 DEF Take, Goto, IdleWork, TypeOK, SlotTypeOK
  <2>3. Upserted(s)'
    <3>1. UpsertedRows(s)' \subseteq 1..work'[s].pos
      BY DEF UpsertedRows
    <3>2. Cardinality(UpsertedRows(s)') \in Nat
      <4>1. IsFiniteSet(1..work'[s].pos)
        BY <2>2, FS_Interval
      <4> QED BY <3>1, <4>1, FS_Subset, FS_CardinalityType
    <3>3. 0 <= Cardinality(UpsertedRows(s)')
      BY <3>2
    <3> QED BY <2>2, <3>3 DEF Upserted
  <2>4. (Untouched' => Untouched) /\ Table \subseteq Table'
    BY <2>1 DEF Untouched, Table
  <2> QED BY <1>1, <2>2, <2>3, <2>4 DEF StoredInv
<1>7. ASSUME NEW s \in Slots, Settle(s) PROVE StoredInv'
  <2>1. UNCHANGED <<stored, del, clears>>
    BY <1>7, QueueKeeps DEF dataVars, httpVars
  <2>2. /\ pc'[s] \notin Running
        /\ \A t \in Slots \ {s} : pc'[t] = pc[t] /\ work'[t] = work[t]
    BY <1>7 DEF Settle, Goto, TypeOK, SlotTypeOK, Running, Counting
  <2>3. (Untouched' => Untouched) /\ Table \subseteq Table'
    BY <2>1 DEF Untouched, Table
  <2> QED BY <1>1, <2>2, <2>3 DEF StoredInv, Upserted
<1>8. CASE WorkerDies
  BY <1>8 DEF WorkerDies, StoredInv, Upserted, Running, Counting
<1>9. ASSUME NEW s \in Slots, Await(s) PROVE StoredInv'
  <2> DEFINE w == work[s]
             j == work[s].job
  <2>1. /\ UNCHANGED <<del, clears>> /\ pc[s] # "idle" /\ work'[s].job = j
        /\ \A t \in Slots \ {s} : pc'[t] = pc[t] /\ work'[t] = work[t]
    BY <1>9, AwaitKeeps DEF httpVars
  <2>2. (Untouched' => Untouched) /\ Table \subseteq Table'
    BY <1>9, <2>1, TableGrows DEF Untouched
  <2>3. w \in WorkType /\ w.batch \subseteq 1..w.pos /\ j \in Jobs
    BY <2>1 DEF TypeOK, SlotTypeOK
  <2>4. InTable(j) \subseteq InTable(j)'
    <3>1. PICK k \in Jobs : k = j
      BY <2>3
    <3>2. InTable(k) \subseteq InTable(k)'
      BY <2>2, InTableGrows
    <3> QED BY <2>1, <3>1, <3>2 DEF InTable
  <2>5. ASSUME NEW t \in Slots \ {s} PROVE Upserted(t)'
    BY <1>1, <2>1, <2>2, <2>5
  <2>6. Upserted(s)'
    <3> USE DEF Step, Goto, TypeOK, SlotTypeOK
    <3>1. CASE Upsert(s)
      BY <3>1, UpsertCounts
    <3>2. ASSUME pc'[s] \in Running => pc[s] \in Running,
                 work'[s].processed = w.processed,
                 UpsertedRows(s) \subseteq UpsertedRows(s)'
          PROVE  Upserted(s)'
      BY <2>1, <2>2, <3>2, UpsertedGrows DEF StoredInv
    <3>3. CASE \/ MarkDone(s) \/ ExcelFileGone(s) \/ RowThrows(s)
               \/ MarkFailed(s) \/ Finally(s) \/ DownloadFails(s)
               \/ UpdateThrows(s) \/ MarkFailedThrows(s)
      <4>1. pc'[s] \notin Running
        BY <3>3 DEF MarkDone, ExcelFileGone, RowThrows, MarkFailed, Finally,
           DownloadFails, UpdateThrows, MarkFailedThrows, Running, Counting
      <4> QED BY <4>1 DEF Upserted
    <3>4. CASE \/ Start(s) \/ Count(s) \/ RecordTotal(s) \/ Open(s)
               \/ EndOfFile(s) \/ Increment(s)
      <4>1. /\ pc[s] \in Running /\ work' = work
            /\ pc[s] \in {"increment", "progress"}
                    <=> pc'[s] \in {"increment", "progress"}
        BY <3>4 DEF Start, Count, RecordTotal, Open, EndOfFile, Increment,
           Running, Counting, dataVars
      <4> QED BY <2>4, <3>2, <4>1 DEF UpsertedRows, InTable
    <3>5. CASE Resolve(s)
      <4>1. /\ pc[s] = "resolve" /\ pc'[s] = "count"
            /\ work'[s] = [w EXCEPT !.file = TRUE]
        BY <3>5 DEF Resolve, dataVars
      <4>2. /\ work'[s].pos = w.pos /\ work'[s].batch = w.batch
            /\ work'[s].processed = w.processed
        BY <2>3, <4>1 DEF WorkType
      <4> QED
        BY <2>1, <2>4, <3>2, <4>1, <4>2 DEF UpsertedRows, InTable, Running,
           Counting
    <3>6. CASE ReadRow(s)
      <4> DEFINE r == w.pos + 1
      <4>1. /\ pc[s] = "read" /\ pc'[s] \in {"read", "upsert"}
           
            /\ work'[s].pos = r /\ work'[s].processed = w.processed
            /\ work'[s].batch \subseteq w.batch \union {r}
        BY <2>3, <3>6 DEF ReadRow, WorkType, dataVars
      <4>2. 1..w.pos \subseteq 1..r /\ r \notin 1..w.pos
        BY <2>3 DEF WorkType
      <4> HIDE DEF r
      <4> QED
        BY <2>1, <2>4, <3>2, <4>1, <4>2 DEF UpsertedRows, InTable, Running,
           Counting
    <3>7. CASE UpsertFails(s)
      <4>1. /\ pc[s] = "upsert" /\ pc'[s] = "increment"
            /\ work'[s].pos = w.pos /\ work'[s].processed = w.processed
        BY <2>3, <3>7 DEF UpsertFails, WorkType, dataVars
      <4> QED
        BY <2>1, <2>4, <3>2, <4>1 DEF UpsertedRows, InTable, Running, Counting
    <3>8. CASE UpdateProgress(s)
      <4>1. CASE pc'[s] = "catch"
        BY <4>1 DEF Upserted, Running, Counting
      <4>2. CASE pc'[s] # "catch"
        <5>1. /\ pc[s] = "progress" /\ pc'[s] = "read"
              /\ work'[s].pos = w.pos /\ work'[s].processed = w.processed
              /\ work'[s].batch = {}
          BY <2>3, <3>8, <4>2 DEF UpdateProgress, WorkType, dataVars
        <5> QED
          BY <2>1, <2>4, <3>2, <5>1 DEF UpsertedRows, InTable, Running, Counting
      <4> QED BY <4>1, <4>2
    <3> QED
      BY <1>9, <3>1, <3>3, <3>4, <3>5, <3>6, <3>7, <3>8 DEF Await
  <2> QED BY <2>5, <2>6 DEF StoredInv
<1> QED BY <1>3, <1>3a, <1>4, <1>5, <1>6, <1>7, <1>8, <1>9, NextCases

LEMMA StoredInvariant == Spec => []StoredInv
<1>1. Init => StoredInv
  BY DEF Init, StoredInv, Upserted, Running, Counting
<1> QED BY <1>1, StoredInvStep, TypeCorrect, PTL DEF Spec

\* An await turns a row into 'done' only as MarkDone, with the handler's counts.
LEMMA AwaitDone ==
    ASSUME TypeOK, ReportInv, lockLosses = 0, NEW s \in Slots, Await(s),
           LET j == work[s].job
           IN  row'[j].status = "done" /\ row'[j] # row[j]
    PROVE  /\ pc[s] = "done"
           /\ row'[work[s].job].processed = work[s].processed
           /\ row'[work[s].job].failed = work[s].failed
<1> DEFINE j == work[s].job
<1>1. /\ j \in Jobs /\ row \in [Jobs -> RowType] /\ row[j] \in RowType
  BY AwaitKeeps DEF TypeOK, SlotTypeOK, DataTypeOK
<1> USE DEF Step, UpdateRow
<1>2. CASE MarkDone(s)     BY <1>1, <1>2 DEF MarkDone, RowType
<1>3. CASE Start(s)        BY <1>1, <1>3 DEF Start, RowType
<1>4. CASE RecordTotal(s)  BY <1>1, <1>4 DEF RecordTotal, RowType
<1>5. CASE MarkFailed(s)   BY <1>1, <1>5 DEF MarkFailed, RowType
<1>6. CASE Increment(s)
  <2>1. row[j].status \in {"processing", "absent"}
    BY <1>6 DEF Increment, ReportInv, Counting
  <2> QED BY <1>1, <1>6, <2>1 DEF Increment, RowType
<1>7. CASE \/ Resolve(s) \/ Count(s) \/ Open(s) \/ ExcelFileGone(s)
           \/ RowThrows(s) \/ ReadRow(s) \/ EndOfFile(s) \/ Upsert(s)
           \/ UpdateProgress(s) \/ Finally(s) \/ DownloadFails(s)
           \/ UpsertFails(s) \/ UpdateThrows(s) \/ MarkFailedThrows(s)
  <2>1. row' = row
    BY <1>7 DEF Resolve, Count, Open, ExcelFileGone, RowThrows, ReadRow,
       EndOfFile, Upsert, UpdateProgress, Finally, DownloadFails, UpsertFails,
       UpdateThrows, MarkFailedThrows, dataVars
  <2> QED BY <2>1
<1> QED BY <1>2, <1>3, <1>4, <1>5, <1>6, <1>7 DEF Await

LEMMA DoneIsStoredStep ==
    TypeOK /\ ReportInv /\ StoredInv /\ DoneIsStored /\ [Next]_vars
        => DoneIsStored'
<1> SUFFICES ASSUME TypeOK, ReportInv, StoredInv, DoneIsStored,
                    [Next]_vars, lockLosses' = 0, Untouched', NEW k \in Jobs,
                    row'[k].status = "done"
             PROVE  row'[k].processed <= Cardinality(InTable(k)')
  BY DEF DoneIsStored, Untouched
<1>1. ASSUME lockLosses = 0, Untouched, row'[k] = row[k], Table \subseteq Table'
      PROVE  row'[k].processed <= Cardinality(InTable(k)')
  <2>1. row[k].processed <= Cardinality(InTable(k)) /\ row[k].processed \in Nat
    BY <1>1 DEF DoneIsStored, Untouched, TypeOK, DataTypeOK, RowType
  <2> QED BY <1>1, <2>1, InTableGrows
<1>2. CASE UNCHANGED vars
  BY <1>1, <1>2 DEF vars, dataVars, httpVars, envVars, Untouched, Table
<1> SUFFICES ASSUME Next PROVE row'[k].processed <= Cardinality(InTable(k)')
  BY <1>2
<1>3. lockLosses = 0
  BY NoLockLost
<1>4. ASSUME NEW j \in Jobs, Handler(j)
      PROVE  row'[k].processed <= Cardinality(InTable(k)')
  <2> USE DEF TypeOK, DataTypeOK, HttpTypeOK, Untouched, envVars
  <2>1. CASE \/ DeleteContacts(j) \/ RemoveFromQueue(j) \/ DeleteRow(j)
             \/ RemoveFails(j) \/ DeleteRowFails(j)
    <3>1. \E to \in {"queue", "row", "finished", "error"} :
                del' = [del EXCEPT ![j] = to]
      BY <2>1 DEF DeleteContacts, RemoveFromQueue, DeleteRow, RemoveFails,
         DeleteRowFails
    <3> QED BY <3>1
  <2>2. CASE CreateJob(j)
    <3>1. /\ UNCHANGED <<stored, del, clears>>
          /\ row' = [row EXCEPT ![j] = [NoRow EXCEPT !.status = "queued"]]
      BY <2>2 DEF CreateJob
    <3> QED BY <1>1, <1>3, <3>1 DEF NoRow, Table
  <2>3. CASE Receive(j) \/ Reject(j) \/ UploadFile(j) \/ AddToQueue(j)
             \/ EnqueueFails(j)
    <3>1. UNCHANGED <<row, stored, del, clears>>
      BY <2>3 DEF Receive, Reject, UploadFile, AddToQueue, EnqueueFails,
         dataVars
    <3> QED BY <1>1, <1>3, <3>1 DEF Table
  <2> QED BY <1>4, <2>1, <2>2, <2>3 DEF Handler
<1>5. ASSUME NEW s \in Slots, Await(s)
      PROVE  row'[k].processed <= Cardinality(InTable(k)')
  <2> DEFINE j == work[s].job
  <2>1. UNCHANGED <<del, clears>> /\ pc[s] # "idle" /\ work'[s].job = j
    BY <1>5, AwaitKeeps DEF httpVars
  <2>2. /\ j \in Jobs /\ \A i \in Jobs \ {j} : row'[i] = row[i]
        /\ Table \subseteq Table' /\ Untouched
    BY <1>5, <2>1, AwaitData, TableGrows DEF Untouched
  <2>3. CASE row'[k] = row[k]
    BY <1>1, <1>3, <2>2, <2>3
  <2>4. CASE row'[k] # row[k]
    <3>1. k = j /\ pc[s] = "done" /\ row'[k].processed = work[s].processed
      BY <1>3, <1>5, <2>2, <2>4, AwaitDone
    <3>2. work[s].processed <= Cardinality(UpsertedRows(s))
      BY <2>2, <3>1 DEF StoredInv, Upserted, Running, Counting
    <3>3. UpsertedRows(s) \subseteq InTable(k)
      BY <3>1 DEF UpsertedRows
    <3>4. /\ Cardinality(UpsertedRows(s)) <= Cardinality(InTable(k))
          /\ Cardinality(UpsertedRows(s)) \in Nat
      BY <2>2, <3>3, InTableGrows, FS_Subset, FS_CardinalityType
    <3>5. work[s].processed \in Nat
      BY DEF TypeOK, SlotTypeOK, WorkType
    <3> QED BY <2>2, <3>1, <3>2, <3>4, <3>5, InTableGrows
  <2> QED BY <2>3, <2>4
<1>6. CASE \/ \E j \in Jobs : QueueStep(j) \/ LoseLock(j)
           \/ \E s \in Slots : Settle(s) \/ \E j \in Jobs : Take(s, j)
           \/ WorkerDies
  BY <1>1, <1>3, <1>6, QueueKeeps DEF dataVars, httpVars, Untouched, Table
<1>7. CASE Aside
  <2>1. ~DeleteSegment
    BY DEF DeleteSegment, Untouched, TypeOK, EnvTypeOK
  <2>2. UNCHANGED <<row, stored, del, clears>>
    BY <1>7, <2>1 DEF Aside, Unlink, UnlinkFails, dataVars, httpVars, envVars
  <2> QED BY <1>1, <1>3, <2>2 DEF Untouched, Table
<1> QED BY <1>4, <1>5, <1>6, <1>7, NextCases

\* A job reported 'done' with n processed rows has n rows at least whose contacts
\* are in the table, whoever is credited with them, as long as nothing is
\* deleted: no batch is counted that was not stored, or counted twice, whatever
\* earlier attempts left behind and whatever rows and uploads share a contact.
THEOREM DoneStored == Spec => []DoneIsStored
<1>1. Init => DoneIsStored
  BY DEF Init, DoneIsStored, NoRow
<1>2. ResultInv => ReportInv
  BY DEF ResultInv
<1> QED
  BY <1>1, <1>2, DoneIsStoredStep, TypeCorrect, ResultInvariant,
     StoredInvariant, PTL
  DEF Spec

(***************************************************************************)
(* The progress of a first run                                             *)
(***************************************************************************)

\* How far the row's counter is, seen from the handler of a first run: it trails
\* the rows the handler has read by those of the batch.
Ahead(s) ==
    LET r == row[work[s].job]
        n == Cardinality(work[s].batch)
    IN  /\ pc[s] \in {"start", "resolve", "count", "total"} => r.processed = 0
        /\ pc[s] \in {"open", "read", "upsert", "increment", "progress", "done"} =>
              r.status = "absent" \/ r.total = NumRows[work[s].job]
        /\ pc[s] \in {"open", "read", "upsert", "increment"} =>
              r.processed + n <= work[s].pos
        /\ pc[s] = "progress" => r.processed <= work[s].pos

FirstRun(j) == attempts[j] = 0 /\ stalls[j] = 0

FirstRunOf(j) ==
    /\ queue[j] = "delayed" => attempts[j] > 0
    /\ api[j] # "accepted" => row[j].processed = 0
    /\ FirstRun(j) =>
          /\ row[j].processed <= row[j].total
          /\ queue[j] = "waiting" => row[j].processed = 0
          /\ \A s \in Slots : Working(s, j) => Ahead(s)

FirstRunInv == lockLosses = 0 => \A j \in CsvJobs : FirstRunOf(j)

\* A batch is no longer than the rows that were read.
LEMMA BatchBound ==
    ASSUME SlotTypeOK, NEW s \in Slots
    PROVE  Cardinality(work[s].batch) <= work[s].pos
<1>1. work[s].pos \in Nat /\ work[s].batch \subseteq 1..work[s].pos
  BY DEF SlotTypeOK, WorkType
<1>2. IsFiniteSet(1..work[s].pos) /\ Cardinality(1..work[s].pos) = work[s].pos
  <2> DEFINE p == work[s].pos
  <2>1. 1 \in Int /\ p \in Int
    BY <1>1
  <2>2. /\ IsFiniteSet(1..p)
        /\ Cardinality(1..p) = IF 1 > p THEN 0 ELSE p - 1 + 1
    BY <2>1, FS_Interval
  <2> HIDE DEF p
  <2> QED BY <1>1, <2>2 DEF p
<1> QED BY <1>1, <1>2, FS_Subset

\* What an await does to the row and the position of a first run.
LEMMA AheadAwait ==
    ASSUME TypeOK, CountInv, NEW s \in Slots, Await(s), work[s].job \in CsvJobs,
           Ahead(s), row[work[s].job].processed <= row[work[s].job].total
    PROVE  Ahead(s)' /\ row'[work[s].job].processed <= row'[work[s].job].total
<1> DEFINE w == work[s]
           j == work[s].job
           n == Cardinality(work[s].batch)
<1>1. /\ j \in Jobs /\ row \in [Jobs -> RowType] /\ row[j] \in RowType
      /\ w \in WorkType /\ pc[s] # "idle" /\ work'[s].job = j
      /\ NumRows[j] \in Nat
  BY AwaitKeeps, FilesAssumption DEF TypeOK, SlotTypeOK, DataTypeOK
<1>2. /\ w.pos \in Nat /\ w.processed \in Nat /\ w.failed \in Nat /\ n \in Nat
      /\ row[j].processed \in Nat /\ row[j].total \in Nat
  BY <1>1, BatchLength DEF TypeOK, WorkType, RowType
<1>3. Counted(s)
  BY DEF CountInv
<1> USE DEF Step, Goto, UpdateRow
<1>4. ASSUME row' = row, pc'[s] \in {"catch", "finally", "settle"}
      PROVE  Ahead(s)' /\ row'[j].processed <= row'[j].total
  BY <1>4 DEF Ahead
<1>5. ASSUME row' = row, work' = work,
             \/ {pc[s], pc'[s]} \subseteq {"start", "resolve", "count", "total"}
             \/ {pc[s], pc'[s]} \subseteq {"open", "read", "upsert"}
             \/ pc[s] = "read" /\ pc'[s] = "done"
      PROVE  Ahead(s)' /\ row'[j].processed <= row'[j].total
  BY <1>1, <1>5 DEF Ahead
<1>6. CASE Start(s)
  <2>1. /\ pc[s] = "start" /\ pc'[s] = "resolve" /\ work' = work
        /\ row'[j].processed = row[j].processed
        /\ row'[j].total = row[j].total
    BY <1>1, <1>6 DEF Start, RowType, TypeOK, SlotTypeOK
  <2> QED BY <1>1, <2>1 DEF Ahead
<1>7. CASE RecordTotal(s)
  <2>1. /\ pc[s] = "total" /\ pc'[s] = "open" /\ work' = work
        /\ row'[j].processed = row[j].processed
        /\ \/ row' = row /\ row[j].status = "absent"
           \/ row'[j].total = NumRows[j]
    BY <1>1, <1>7 DEF RecordTotal, RowType, TotalRows, TypeOK, SlotTypeOK
  <2>2. row[j].processed = 0 /\ w.pos = 0 /\ w.batch = {}
    BY <1>3, <2>1 DEF Ahead, Counted, Fetching
  <2>3. n = 0
    BY <2>2, FS_EmptySet, Zenon
  <2> QED BY <1>1, <1>2, <2>1, <2>2, <2>3 DEF Ahead
<1>8. CASE Increment(s)
  <2>1. /\ pc[s] = "increment" /\ pc'[s] = "progress" /\ work' = work
        /\ \/ row' = row /\ row[j].status = "absent"
           \/ /\ row[j].status # "absent"
              /\ row'[j].processed = row[j].processed + n
              /\ row'[j].total = row[j].total
              /\ row'[j].status = row[j].status
    BY <1>1, <1>8 DEF Increment, RowType, TypeOK, SlotTypeOK
  <2>2. w.pos <= NumRows[j]
    BY <1>3, <2>1 DEF Counted
  <2>3. row[j].processed + n <= w.pos
        /\ (row[j].status = "absent" \/ row[j].total = NumRows[j])
    BY <2>1 DEF Ahead
  <2>4. row'[j].processed <= w.pos /\ row'[j].processed <= row'[j].total
    BY <1>1, <1>2, <2>1, <2>2, <2>3
  <2>5. row'[j].status = "absent" \/ row'[j].total = NumRows[j]
    BY <2>1, <2>3
  <2> QED BY <1>1, <2>1, <2>4, <2>5 DEF Ahead
<1>9. CASE MarkDone(s)
  <2>1. /\ pc[s] = "done" /\ pc'[s] = "finally"
        /\ \/ row' = row
           \/ /\ row[j].status # "absent"
              /\ row'[j].processed = w.processed
              /\ row'[j].total = row[j].total
    BY <1>1, <1>9 DEF MarkDone, RowType, TypeOK, SlotTypeOK
  <2>2. w.processed + w.failed = NumRows[j]
        /\ (row[j].status = "absent" \/ row[j].total = NumRows[j])
    BY <1>3, <2>1 DEF Ahead, Counted
  <2> QED BY <1>2, <2>1, <2>2 DEF Ahead
<1>10. CASE MarkFailed(s)
  <2>1. /\ pc'[s] = "finally" /\ row'[j].processed = row[j].processed
        /\ row'[j].total = row[j].total
    BY <1>1, <1>10 DEF MarkFailed, RowType, TypeOK, SlotTypeOK
  <2> QED BY <2>1 DEF Ahead
<1>11. CASE \/ ExcelFileGone(s) \/ RowThrows(s) \/ Finally(s)
            \/ DownloadFails(s) \/ UpdateThrows(s) \/ MarkFailedThrows(s)
  BY <1>4, <1>11 DEF ExcelFileGone, RowThrows, Finally, DownloadFails,
     UpdateThrows, MarkFailedThrows, dataVars, TypeOK, SlotTypeOK
<1>12. CASE Count(s) \/ Open(s) \/ EndOfFile(s)
  <2>1. row' = row /\ work' = work
    BY <1>12 DEF Count, Open, EndOfFile, dataVars
  <2>2. \/ pc[s] = "count" /\ pc'[s] = "total"
        \/ pc[s] = "open" /\ pc'[s] = "read"
        \/ pc[s] = "read" /\ pc'[s] \in {"done", "upsert"}
    BY <1>12 DEF Count, Open, EndOfFile, TypeOK, SlotTypeOK
  <2> QED BY <1>5, <2>1, <2>2
<1>13. CASE Resolve(s)
  <2>1. pc[s] = "resolve" /\ pc'[s] = "count" /\ row' = row
    BY <1>13 DEF Resolve, dataVars, TypeOK, SlotTypeOK
  <2> QED BY <1>1, <2>1 DEF Ahead
<1>14. CASE ReadRow(s)
  <2> DEFINE r == w.pos + 1
             new == Cardinality(work'[s].batch)
  <2>1. /\ pc[s] = "read" /\ pc'[s] \in {"read", "upsert"} /\ row' = row
        /\ work'[s].pos = r
        /\ work'[s].batch = w.batch \/ work'[s].batch = w.batch \union {r}
    BY <1>1, <1>14 DEF ReadRow, WorkType, dataVars, TypeOK, SlotTypeOK
  <2>2. new \in Nat /\ new <= n + 1
    <3>1. IsFiniteSet(w.batch)
      BY BatchLength DEF TypeOK
    <3>2. CASE work'[s].batch = w.batch
      BY <1>2, <3>2
    <3>3. CASE work'[s].batch = w.batch \union {r}
      <4>1. Cardinality(w.batch \union {r}) =
                IF r \in w.batch THEN n ELSE n + 1
        BY <3>1, FS_AddElement
      <4>2. new = Cardinality(w.batch \union {r})
        BY <3>3, Zenon
      <4> HIDE DEF w, n, r, new
      <4> QED BY <1>2, <4>1, <4>2
    <3> QED BY <2>1, <3>2, <3>3
  <2>3. row[j].processed + n <= w.pos
        /\ (row[j].status = "absent" \/ row[j].total = NumRows[j])
    BY <2>1 DEF Ahead
  <2>4. row[j].processed + new <= r
    BY <1>2, <2>2, <2>3
  <2> HIDE DEF r
  <2> QED BY <1>1, <2>1, <2>3, <2>4 DEF Ahead
<1>15. CASE Upsert(s) \/ UpsertFails(s)
  <2>1. /\ pc[s] = "upsert" /\ pc'[s] = "increment" /\ row' = row
        /\ work'[s].pos = w.pos /\ work'[s].batch = w.batch
    BY <1>1, <1>15 DEF Upsert, UpsertFails, WorkType, dataVars, TypeOK,
       SlotTypeOK
  <2> QED BY <1>1, <2>1 DEF Ahead
<1>16. CASE UpdateProgress(s)
  <2>1. CASE pc'[s] = "catch"
    BY <1>4, <1>16, <2>1 DEF UpdateProgress, dataVars
  <2>2. CASE pc'[s] # "catch"
    <3>1. /\ pc[s] = "progress" /\ pc'[s] = "read" /\ row' = row
          /\ work'[s].pos = w.pos /\ work'[s].batch = {}
      BY <1>1, <1>16, <2>2 DEF UpdateProgress, WorkType, dataVars, TypeOK,
         SlotTypeOK
    <3>2. Cardinality(work'[s].batch) = 0
      BY <3>1, FS_EmptySet, Zenon
    <3>3. row[j].processed + 0 <= w.pos
          /\ (row[j].status = "absent" \/ row[j].total = NumRows[j])
      BY <1>2, <3>1 DEF Ahead
    <3> QED BY <1>1, <3>1, <3>2, <3>3 DEF Ahead
  <2> QED BY <2>1, <2>2
<1> QED
  BY <1>6, <1>7, <1>8, <1>9, <1>10, <1>11, <1>12, <1>13, <1>14, <1>15, <1>16
  DEF Await

LEMMA FirstRunInvStep ==
    TypeOK /\ LockInv /\ CountInv /\ FirstRunInv /\ [Next]_vars => FirstRunInv'
<1> SUFFICES ASSUME TypeOK, LockInv, CountInv, FirstRunInv, [Next]_vars,
                    lockLosses' = 0, NEW k \in CsvJobs
             PROVE  FirstRunOf(k)'
  BY DEF FirstRunInv
<1>1. k \in Jobs /\ row[k] \in RowType
  BY FilesAssumption DEF TypeOK, DataTypeOK
\* Nothing happened to the job.
<1>2. ASSUME lockLosses = 0, row'[k] = row[k], queue'[k] = queue[k],
             attempts'[k] = attempts[k], stalls'[k] = stalls[k],
             api'[k] = api[k] \/ "accepted" \notin {api[k], api'[k]},
             \A t \in Slots : Working(t, k)' =>
                Working(t, k) /\ pc'[t] = pc[t] /\ work'[t] = work[t]
      PROVE  FirstRunOf(k)'
  <2>1. FirstRunOf(k)
    BY <1>2 DEF FirstRunInv
  <2>2. FirstRun(k)' = FirstRun(k)
    BY <1>2 DEF FirstRun
  <2>3. ASSUME NEW t \in Slots, Working(t, k)', Ahead(t) PROVE Ahead(t)'
    BY <1>2, <2>3 DEF Ahead, Working
  <2> QED BY <1>2, <2>1, <2>2, <2>3 DEF FirstRunOf
<1>3. CASE UNCHANGED vars \/ Aside
  BY <1>2, <1>3, AsideKeeps
  DEF vars, dataVars, queueVars, httpVars, slotVars, envVars, Working
<1> SUFFICES ASSUME Next, ~Aside PROVE FirstRunOf(k)'
  BY <1>3
<1>4. lockLosses = 0 /\ FirstRunOf(k) /\ ~ \E j \in Jobs : LoseLock(j)
  BY NoLockLost DEF FirstRunInv
<1>5. ASSUME NEW j \in Jobs, Handler(j) PROVE FirstRunOf(k)'
  <2>1. UNCHANGED <<attempts, stalls, pc, work>>
    BY <1>5 DEF Handler, Receive, Reject, CreateJob, UploadFile, AddToQueue,
       EnqueueFails, DeleteContacts, RemoveFromQueue, DeleteRow,
       RemoveFails, DeleteRowFails, queueVars, slotVars
  <2> USE DEF TypeOK, DataTypeOK, HttpTypeOK, QueueTypeOK
  <2>2. CASE CreateJob(j) /\ k = j
    <3>1. row'[k] = [NoRow EXCEPT !.status = "queued"] /\ queue'[k] = queue[k]
          /\ queue[k] = "absent"
      BY <1>1, <2>2 DEF CreateJob, LockInv, queueVars
    <3>2. \A t \in Slots : ~Working(t, k)'
      BY <1>1, <1>4, <2>1, <3>1, NobodyWorks DEF Working
    <3> QED BY <3>1, <3>2 DEF FirstRunOf, NoRow
  <2>3. CASE AddToQueue(j) /\ k = j
    <3>1. /\ row'[k] = row[k] /\ queue'[k] = "waiting" /\ row[k].processed = 0
          /\ queue[k] = "absent"
      BY <1>1, <1>4, <2>3 DEF AddToQueue, LockInv, dataVars, FirstRunOf
    <3>2. \A t \in Slots : ~Working(t, k)'
      BY <1>1, <1>4, <2>1, <3>1, NobodyWorks DEF Working
    <3>3. 0 <= row[k].total
      BY <1>1 DEF RowType
    <3> QED BY <3>1, <3>2, <3>3 DEF FirstRunOf
  <2>4. CASE DeleteRow(j) /\ k = j
    <3>1. row'[k] = NoRow /\ queue'[k] = queue[k]
      BY <1>1, <2>4 DEF DeleteRow, queueVars
    <3>2. ASSUME NEW t \in Slots, Working(t, k)' PROVE Ahead(t)'
      <4>1. work'[t] = work[t] /\ work[t].job = k
        BY <2>1, <3>2 DEF Working
      <4>2. Cardinality(work[t].batch) <= work[t].pos
        BY BatchBound
      <4>3. Cardinality(work[t].batch) \in Nat /\ work[t].pos \in Nat
        BY BatchLength DEF SlotTypeOK, WorkType
      <4>4. 0 + Cardinality(work[t].batch) <= work[t].pos /\ 0 <= work[t].pos
        BY <4>2, <4>3
      <4> QED BY <3>1, <4>1, <4>4 DEF Ahead, NoRow
    <3>3. queue'[k] = "delayed" => attempts'[k] > 0
      BY <1>4, <2>1, <3>1 DEF FirstRunOf
    <3> QED BY <3>1, <3>2, <3>3 DEF FirstRunOf, NoRow
  <2>5. CASE RemoveFromQueue(j) /\ k = j
    <3>1. row'[k] = row[k] /\ UNCHANGED api
          /\ (queue'[k] = queue[k] \/ queue'[k] = "absent")
      BY <1>1, <2>5 DEF RemoveFromQueue, dataVars
    <3>2. ASSUME NEW t \in Slots, Ahead(t), work[t].job = k PROVE Ahead(t)'
      BY <2>1, <3>1, <3>2 DEF Ahead
    <3>3. /\ FirstRun(k)' = FirstRun(k)
          /\ \A t \in Slots : Working(t, k)' => Working(t, k) /\ work[t].job = k
      BY <2>1 DEF FirstRun, Working
    <3> QED BY <1>4, <2>1, <3>1, <3>2, <3>3 DEF FirstRunOf
  <2>6. CASE \/ k # j
             \/ \/ Receive(j) \/ Reject(j) \/ UploadFile(j) \/ EnqueueFails(j)
                \/ DeleteContacts(j) \/ RemoveFails(j) \/ DeleteRowFails(j)
    <3>1. row'[k] = row[k] /\ queue'[k] = queue[k]
      BY <1>1, <1>5, <2>6 DEF Handler, Receive, Reject, CreateJob, UploadFile,
         AddToQueue, EnqueueFails, DeleteContacts, RemoveFromQueue, DeleteRow,
         RemoveFails, DeleteRowFails, dataVars, queueVars
    <3>2. api'[k] = api[k] \/ "accepted" \notin {api[k], api'[k]}
      BY <1>1, <1>5, <2>6 DEF Handler, Receive, Reject, CreateJob, UploadFile,
         AddToQueue, EnqueueFails, DeleteContacts, RemoveFromQueue, DeleteRow,
         RemoveFails, DeleteRowFails
    <3> QED BY <1>2, <1>4, <2>1, <3>1, <3>2 DEF Working
  <2> QED BY <1>5, <2>2, <2>3, <2>4, <2>5, <2>6 DEF Handler
<1>6. ASSUME NEW s \in Slots, Await(s) PROVE FirstRunOf(k)'
  <2>1. /\ UNCHANGED <<api, queue, attempts, stalls>> /\ pc[s] # "idle"
        /\ work'[s].job = work[s].job
        /\ \A t \in Slots \ {s} : pc'[t] = pc[t] /\ work'[t] = work[t]
    BY <1>6, AwaitKeeps DEF httpVars, queueVars
  <2>2. CASE work[s].job # k
    <3>1. row'[k] = row[k]
      BY <1>1, <1>6, <2>2, AwaitData
    <3> QED BY <1>2, <1>4, <2>1, <2>2, <3>1 DEF Working
  <2>3. CASE work[s].job = k
    <3>1. /\ Working(s, k) /\ lock[k] = s
          /\ \A t \in Slots \ {s} : ~Working(t, k)'
      BY <1>4, <2>1, <2>3 DEF LockInv, Working
    <3>2. FirstRun(k)' = FirstRun(k) /\ queue[k] = "active"
      BY <1>1, <2>1, <3>1, <1>4, NobodyWorks DEF FirstRun
    <3>3. CASE FirstRun(k)
      <4>1. Ahead(s)' /\ row'[k].processed <= row'[k].total
        BY <1>4, <1>6, <2>3, <3>1, <3>3, AheadAwait DEF FirstRunOf
      <4>2. api[k] = "accepted"
        BY <1>1, <3>2 DEF LockInv
      <4> QED BY <2>1, <3>1, <3>2, <4>1, <4>2 DEF FirstRunOf
    <3>4. CASE ~FirstRun(k)
      <4>1. api[k] = "accepted"
        BY <1>1, <3>2 DEF LockInv
      <4> QED BY <2>1, <3>2, <3>4, <4>1 DEF FirstRunOf
    <3> QED BY <3>3, <3>4
  <2> QED BY <2>2, <2>3
<1>7. ASSUME NEW j \in Jobs, QueueStep(j) PROVE FirstRunOf(k)'
  <2>1. UNCHANGED <<row, api, attempts, pc, work>>
    BY <1>7 DEF QueueStep, BackoffEnds, LockExpires, StalledCheck, dataVars,
       httpVars, slotVars
  <2>2. \/ queue'[k] = queue[k] /\ stalls'[k] = stalls[k]
        \/ queue[k] = "delayed" /\ queue'[k] = "waiting"
        \/ queue'[k] \in {"waiting", "failed"} /\ stalls'[k] > 0
    BY <1>1, <1>7 DEF QueueStep, BackoffEnds, LockExpires, StalledCheck, TypeOK,
       QueueTypeOK
  <2>3. CASE queue'[k] = queue[k] /\ stalls'[k] = stalls[k]
    BY <1>2, <1>4, <2>1, <2>3 DEF Working
  <2>4. CASE queue[k] = "delayed" /\ queue'[k] = "waiting"
    <3>1. attempts'[k] > 0
      BY <1>4, <2>1, <2>4 DEF FirstRunOf
    <3> QED BY <1>4, <2>1, <2>4, <3>1 DEF FirstRunOf, FirstRun
  <2>5. CASE queue'[k] \in {"waiting", "failed"} /\ stalls'[k] > 0
    BY <1>4, <2>1, <2>5 DEF FirstRunOf, FirstRun
  <2> QED BY <2>2, <2>3, <2>4, <2>5
<1>8. ASSUME NEW s \in Slots, NEW j \in Jobs, Take(s, j) PROVE FirstRunOf(k)'
  <2>1. /\ UNCHANGED <<row, api, attempts, stalls>> /\ pc'[s] = "start"
        /\ work'[s].job = j /\ queue[j] = "waiting"
        /\ \A t \in Slots \ {s} : pc'[t] = pc[t] /\ work'[t] = work[t]
        /\ queue' = [queue EXCEPT ![j] = "active"]
    BY <1>8 DEF Take, Goto, IdleWork, TypeOK, SlotTypeOK, dataVars, httpVars
  <2>2. CASE k # j
    <3>1. queue'[k] = queue[k]
      BY <2>1, <2>2
    <3> QED BY <1>2, <1>4, <2>1, <2>2, <3>1 DEF Working
  <2>3. CASE k = j
    <3>1. queue'[k] = "active"
      BY <1>1, <2>1, <2>3 DEF TypeOK, QueueTypeOK
    <3>2. \A t \in Slots \ {s} : ~Working(t, k)'
      BY <1>1, <1>4, <2>1, <2>3, NobodyWorks DEF Working
    <3>3. FirstRun(k)' => FirstRun(k) /\ row'[k].processed = 0
      BY <1>4, <2>1, <2>3 DEF FirstRun, FirstRunOf
    <3>4. FirstRun(k)' => Ahead(s)'
      BY <2>1, <2>3, <3>3 DEF Ahead
    <3> QED BY <1>4, <2>1, <3>1, <3>2, <3>3, <3>4 DEF FirstRunOf
  <2> QED BY <2>2, <2>3
<1>9. ASSUME NEW s \in Slots, Settle(s) PROVE FirstRunOf(k)'
  <2> DEFINE j == work[s].job
  <2>1. /\ UNCHANGED <<row, api, stalls>> /\ pc'[s] = "idle" /\ j \in Jobs
        /\ pc[s] # "idle"
        /\ \A t \in Slots \ {s} : pc'[t] = pc[t] /\ work'[t] = work[t]
        /\ \A i \in Jobs \ {j} : queue'[i] = queue[i] /\ attempts'[i] = attempts[i]
    BY <1>9 DEF Settle, Goto, TypeOK, SlotTypeOK, QueueTypeOK, dataVars,
       httpVars
  <2>2. CASE k # j
    BY <1>1, <1>2, <1>4, <2>1, <2>2 DEF Working
  <2>3. CASE k = j
    <3>1. lock[k] = s /\ queue[k] = "active"
      BY <1>1, <1>4, <2>1, <2>3, NobodyWorks DEF LockInv, Working
    <3>2. attempts'[k] > 0
      BY <1>1, <1>9, <2>3, <3>1 DEF Settle, TypeOK, QueueTypeOK
    <3>3. api[k] = "accepted"
      BY <1>1, <3>1 DEF LockInv
    <3> QED BY <2>1, <3>2, <3>3 DEF FirstRunOf, FirstRun
  <2> QED BY <2>2, <2>3
<1>10. CASE WorkerDies
  <2>1. /\ UNCHANGED <<row, api, queue, attempts, stalls>>
        /\ \A t \in Slots : ~Working(t, k)'
    BY <1>10 DEF WorkerDies, Working, dataVars, httpVars
  <2> QED BY <1>2, <1>4, <2>1
<1> QED BY <1>4, <1>5, <1>6, <1>7, <1>8, <1>9, <1>10, NextCases

\* During the first run of a CSV job the counter shown never passes the total:
\* RecordTotal comes before the first increment, and each increment adds rows
\* that were read once.
THEOREM FirstRunBounded == Spec => []FirstRunProgress
<1>1. Init => FirstRunInv
  BY FilesAssumption
  DEF Init, FirstRunInv, FirstRunOf, FirstRun, NoRow, Working
<1>2. Spec => []FirstRunInv
  BY <1>1, FirstRunInvStep, TypeCorrect, LockInvariant, CountInvariant, PTL
  DEF Spec
<1>3. FirstRunInv => FirstRunProgress
  BY DEF FirstRunInv, FirstRunOf, FirstRun, FirstRunProgress
<1> QED BY <1>2, <1>3, PTL

(***************************************************************************)
(* Temporary files                                                         *)
(***************************************************************************)

\* Where a handler knows the path of its file, and where it is on its way out.
Located == {"count", "total", "open", "read", "upsert", "increment", "progress",
            "done"}
Leaving == {"catch", "finally", "settle"}

\* Multer's file is there, and nobody has asked for its end, or failed to.
Kept(j) == upload[j] /\ unlinks[j] = 0 /\ lost[j] = 0

\* While the file is kept, every attempt that is over cost a fault.
LocalJob(j) ==
    /\ queue[j] = "active" => lock[j] \in Slots
    /\ api[j] # "accepted" => attempts[j] = 0
    /\ Kept(j) => attempts[j] <= faults
    /\ Settled(j) /\ faults < MaxAttempts => ~Kept(j)

\* A handler that leaves without the path of its file failed before it had one;
\* one that had it has called unlink when it settles.
LocalSlot(s) ==
    /\ pc[s] \in Located => work[s].file
    /\ pc[s] \in Ended => work[s].file \/ work[s].threw
    /\ pc[s] = "settle" /\ work[s].file => ~Kept(work[s].job)
    /\ pc[s] \in Leaving /\ ~work[s].file /\ Kept(work[s].job) =>
          attempts[work[s].job] < faults

LocalInv ==
    ~UseS3 /\ crashes = 0 /\ lockLosses = 0 =>
        /\ \A j \in Jobs : LocalJob(j)
        /\ \A s \in Slots : LocalSlot(s)

\* A step of a handler that runs.
LEMMA LocalAwait ==
    ASSUME TypeOK, ~UseS3, NEW s \in Slots, Await(s), LocalSlot(s),
           LocalJob(work[s].job)
    PROVE  /\ LocalSlot(s)'
           /\ faults' \in Nat /\ faults <= faults'
           /\ \A k \in Jobs : Kept(k)' => Kept(k)
<1> DEFINE j == work[s].job
<1>1. /\ j \in Jobs /\ work[s] \in WorkType /\ pc[s] # "idle"
      /\ unlinks \in [Jobs -> Nat] /\ faults \in Nat
      /\ work'[s].job = j /\ attempts' = attempts /\ attempts[j] \in Nat
  BY AwaitKeeps
  DEF TypeOK, SlotTypeOK, FileTypeOK, EnvTypeOK, QueueTypeOK, queueVars
<1> USE DEF Step, Goto, TypeOK, SlotTypeOK, Located, Leaving, Ended
<1>1a. UNCHANGED <<upload, unlinks, lost>> => \A k \in Jobs : Kept(k)' = Kept(k)
  BY DEF Kept
\* The local variables that matter stay, and so does the file.
<1>2. ASSUME UNCHANGED <<upload, unlinks, lost>>, faults' = faults,
             work'[s].file = work[s].file, work'[s].threw = work[s].threw,
             \/ {pc[s], pc'[s]} \subseteq Located
             \/ pc'[s] \in {"resolve", "start"}
             \/ pc[s] \in Located /\ pc'[s] = "catch"
      PROVE  LocalSlot(s)'
  BY <1>1, <1>1a, <1>2 DEF LocalSlot
<1>3. CASE Start(s) \/ Count(s) \/ RecordTotal(s) \/ Open(s) \/ EndOfFile(s)
           \/ Increment(s) \/ ExcelFileGone(s) \/ RowThrows(s)
  <2>1. UNCHANGED <<upload, unlinks, lost>> /\ faults' = faults /\ work' = work
    BY <1>3 DEF Start, Count, RecordTotal, Open, EndOfFile, Increment,
       ExcelFileGone, RowThrows, fileVars, envVars
  <2>2. \/ {pc[s], pc'[s]} \subseteq Located
        \/ pc'[s] = "resolve"
        \/ pc[s] \in Located /\ pc'[s] = "catch"
    BY <1>3 DEF Start, Count, RecordTotal, Open, EndOfFile, Increment,
       ExcelFileGone, RowThrows
  <2> QED BY <1>1, <1>1a, <1>2, <2>1, <2>2
<1>4. CASE ReadRow(s) \/ Upsert(s) \/ UpdateProgress(s)
  <2>1. UNCHANGED <<upload, unlinks, lost>> /\ faults' = faults
    BY <1>4 DEF ReadRow, Upsert, UpdateProgress, fileVars, envVars
  <2>2. pc[s] \in Located /\ pc'[s] \in Located \union {"catch"}
    BY <1>4 DEF ReadRow, Upsert, UpdateProgress
  <2>3. work'[s].file = work[s].file /\ work'[s].threw = work[s].threw
    BY <1>1, <1>4 DEF ReadRow, Upsert, UpdateProgress, WorkType
  <2> QED BY <1>1, <1>1a, <1>2, <2>1, <2>2, <2>3
<1>5. CASE Resolve(s)
  <2>1. pc'[s] = "count" /\ work'[s].file /\ UNCHANGED <<upload, unlinks, lost>> /\ faults' = faults
    BY <1>1, <1>5 DEF Resolve, WorkType, envVars
  <2> QED BY <1>1, <1>1a, <2>1 DEF LocalSlot
<1>6. CASE UpsertFails(s)
  <2>1. /\ pc[s] = "upsert" /\ pc'[s] = "increment" /\ UNCHANGED <<upload, unlinks, lost>>
        /\ faults' = faults + 1 /\ work'[s].file = work[s].file
    BY <1>1, <1>6 DEF UpsertFails, WorkType, fileVars
  <2> QED BY <1>1, <1>1a, <2>1 DEF LocalSlot
<1>7. CASE UpdateThrows(s)
  <2>1. /\ pc'[s] = "catch" /\ UNCHANGED <<upload, unlinks, lost>> /\ faults' = faults + 1
        /\ work' = work
    BY <1>7 DEF UpdateThrows, fileVars
  <2> QED BY <1>1, <1>1a, <2>1 DEF LocalSlot, LocalJob
<1>8. CASE MarkDone(s)
  <2>1. /\ pc[s] = "done" /\ pc'[s] = "finally" /\ work' = work
        /\ UNCHANGED <<upload, unlinks, lost>> /\ faults' = faults
    BY <1>8 DEF MarkDone, fileVars, envVars
  <2> QED BY <1>1, <1>1a, <2>1 DEF LocalSlot
<1>9. CASE MarkFailed(s) \/ MarkFailedThrows(s)
  <2>1. /\ pc[s] = "catch" /\ pc'[s] = "finally" /\ UNCHANGED <<upload, unlinks, lost>>
        /\ work'[s].threw /\ work'[s].file = work[s].file
        /\ faults' = faults \/ faults' = faults + 1
    BY <1>1, <1>9 DEF MarkFailed, MarkFailedThrows, WorkType, fileVars, envVars
  <2> QED BY <1>1, <1>1a, <2>1 DEF LocalSlot
<1>10. CASE Finally(s)
  <2>1. /\ pc[s] = "finally" /\ pc'[s] = "settle" /\ work' = work
        /\ faults' = faults /\ UNCHANGED <<upload, lost>>
        /\ unlinks' = IF work[s].file THEN [unlinks EXCEPT ![j] = @ + 1]
                      ELSE unlinks
    BY <1>10 DEF Finally, envVars
  <2>2. work[s].file => ~Kept(j)'
    BY <1>1, <2>1 DEF Kept
  <2>3. \A k \in Jobs : Kept(k)' => Kept(k)
    BY <1>1, <2>1 DEF Kept
  <2> QED BY <1>1, <2>1, <2>2, <2>3 DEF LocalSlot
<1>11. CASE DownloadFails(s)
  BY <1>11 DEF DownloadFails
<1> QED
  BY <1>3, <1>4, <1>5, <1>6, <1>7, <1>8, <1>9, <1>10, <1>11 DEF Await

LEMMA LocalInvStep ==
    TypeOK /\ TypeOK' /\ LockInv /\ LocalInv /\ [Next]_vars => LocalInv'
<1> SUFFICES ASSUME TypeOK, TypeOK', LockInv, LocalInv, [Next]_vars,
                    ~UseS3, crashes' = 0, lockLosses' = 0
             PROVE  /\ \A j \in Jobs : LocalJob(j)'
                    /\ \A s \in Slots : LocalSlot(s)'
  BY DEF LocalInv
<1> USE DEF Ended, Leaving, Located
<1>1. CASE UNCHANGED vars
  BY <1>1 DEF LocalInv, LocalJob, LocalSlot, Kept, Settled, vars, queueVars,
              fileVars, httpVars, slotVars, envVars
<1> SUFFICES ASSUME Next PROVE /\ \A j \in Jobs : LocalJob(j)'
                               /\ \A s \in Slots : LocalSlot(s)'
  BY <1>1
<1>2. /\ lockLosses = 0 /\ ~ \E j \in Jobs : LoseLock(j)
      /\ crashes = 0 /\ ~WorkerDies
  <2>1. lockLosses = 0 /\ ~ \E j \in Jobs : LoseLock(j)
    BY NoLockLost
  <2>2. ~WorkerDies
    BY DEF WorkerDies, TypeOK, EnvTypeOK
  <2>3. ASSUME NEW j \in Jobs, Handler(j) \/ QueueStep(j) PROVE crashes' = crashes
    BY <2>3 DEF Handler, Receive, Reject, CreateJob, UploadFile, AddToQueue,
       EnqueueFails, DeleteContacts, RemoveFromQueue, DeleteRow,
       RemoveFails, DeleteRowFails, QueueStep, BackoffEnds, LockExpires,
       StalledCheck,
       envVars
  <2>4. ASSUME NEW s \in Slots,
               Await(s) \/ Settle(s) \/ \E j \in Jobs : Take(s, j)
        PROVE  crashes' = crashes
    BY <2>4, AwaitKeeps DEF Settle, Take, envVars
  <2>5. Aside => crashes' = crashes
    BY AsideKeeps
  <2> QED BY <2>1, <2>2, <2>3, <2>4, <2>5, NextCases
<1>3. /\ \A j \in Jobs : LocalJob(j)
      /\ \A s \in Slots : LocalSlot(s)
  BY <1>2 DEF LocalInv
<1>4. faults \in Nat /\ faults' \in Nat /\ MaxAttempts \in Nat
  BY CountsAssumption DEF TypeOK, EnvTypeOK
\* A handler at work: its entry is active, so that its upload was accepted.
<1>5. \A t \in Slots : pc[t] # "idle" =>
        /\ work[t].job \in Jobs /\ lock[work[t].job] = t
        /\ queue[work[t].job] = "active" /\ api[work[t].job] = "accepted"
  BY <1>2, NobodyWorks DEF LockInv, Working, TypeOK, SlotTypeOK
<1>5a. UNCHANGED <<upload, unlinks, lost>> => \A k \in Jobs : Kept(k)' = Kept(k)
  BY DEF Kept
\* Jobs and slots a step leaves as they were, but for a fault or an unlink.
<1>6. ASSUME NEW k \in Jobs, queue'[k] = queue[k], lock'[k] = lock[k],
             attempts'[k] = attempts[k], faults <= faults',
             api'[k] # "accepted" => api[k] # "accepted",
             Kept(k)' => Kept(k)
      PROVE  LocalJob(k)'
  <2>1. attempts[k] \in Nat
    BY DEF TypeOK, QueueTypeOK
  <2> QED BY <1>3, <1>4, <1>6, <2>1 DEF LocalJob, Settled
<1>7. ASSUME NEW t \in Slots, pc'[t] = pc[t], work'[t] = work[t],
             faults <= faults',
             pc[t] # "idle" => /\ attempts'[work[t].job] = attempts[work[t].job]
                               /\ Kept(work[t].job)' => Kept(work[t].job)
      PROVE  LocalSlot(t)'
  <2>1. pc[t] # "idle" => attempts[work[t].job] \in Nat
    BY <1>5 DEF TypeOK, QueueTypeOK
  <2> QED BY <1>3, <1>4, <1>7, <2>1 DEF LocalSlot
<1>8. ASSUME NEW j \in Jobs, Handler(j)
      PROVE  /\ \A k \in Jobs : LocalJob(k)'
             /\ \A s \in Slots : LocalSlot(s)'
  <2> USE DEF TypeOK, QueueTypeOK, HttpTypeOK
  <2>1. UNCHANGED <<attempts, lock, pc, work>>
    BY <1>8 DEF Handler, Receive, Reject, CreateJob, UploadFile, AddToQueue,
       EnqueueFails, DeleteContacts, RemoveFromQueue, DeleteRow,
       RemoveFails, DeleteRowFails, queueVars, slotVars
  <2>2. faults <= faults'
    <3>1. faults' = faults \/ faults' = faults + 1
      BY <1>8 DEF Handler, Receive, Reject, CreateJob, UploadFile, AddToQueue,
         EnqueueFails, DeleteContacts, RemoveFromQueue, DeleteRow,
         RemoveFails, DeleteRowFails, envVars
    <3> QED BY <1>4, <3>1
  <2>3. CASE Receive(j)
    <3>1. /\ api[j] = "idle" /\ api' = [api EXCEPT ![j] = "received"]
          /\ upload' = [upload EXCEPT ![j] = TRUE] /\ queue' = queue
      BY <2>3 DEF Receive, queueVars
    <3>2. \A k \in Jobs \ {j} : Kept(k)' = Kept(k) /\ api'[k] = api[k]
      BY <2>3 DEF Receive, Kept, FileTypeOK
    <3>3. queue[j] = "absent" /\ attempts[j] = 0
      BY <1>3, <3>1 DEF LocalJob, LockInv
    <3>4. LocalJob(j)'
      BY <1>4, <2>1, <3>1, <3>3 DEF LocalJob, Settled
    <3>5. \A t \in Slots : LocalSlot(t)'
      BY <1>5, <1>7, <2>1, <2>2, <3>1, <3>2
    <3> QED BY <1>6, <2>1, <2>2, <3>1, <3>2, <3>4, <3>5
  <2>4. CASE ~Receive(j)
    <3>1. \A k \in Jobs : Kept(k)' = Kept(k)
      BY <1>5a, <1>8, <2>4 DEF Handler, Reject, CreateJob, UploadFile,
         AddToQueue,
         EnqueueFails, DeleteContacts, RemoveFromQueue, DeleteRow,
         RemoveFails, DeleteRowFails, fileVars
    <3>2. \A k \in Jobs : api'[k] # "accepted" => api[k] # "accepted"
      BY <1>8, <2>4 DEF Handler, Reject, CreateJob, UploadFile, AddToQueue,
         EnqueueFails, DeleteContacts, RemoveFromQueue, DeleteRow,
         RemoveFails, DeleteRowFails
    <3>3. \A k \in Jobs : queue'[k] = queue[k] \/ queue'[k] \in {"waiting", "absent"}
      BY <1>8, <2>4 DEF Handler, Reject, CreateJob, UploadFile, AddToQueue,
         EnqueueFails, DeleteContacts, RemoveFromQueue, DeleteRow,
         RemoveFails, DeleteRowFails, queueVars
    <3>4. ASSUME NEW k \in Jobs, queue'[k] \in {"waiting", "absent"}
          PROVE  LocalJob(k)'
      <4>1. attempts[k] \in Nat
        OBVIOUS
      <4> QED
        BY <1>3, <1>4, <2>1, <2>2, <3>1, <3>2, <3>4, <4>1 DEF LocalJob, Settled
    <3>5. \A t \in Slots : LocalSlot(t)'
      BY <1>5, <1>7, <2>1, <2>2, <3>1
    <3> QED BY <1>6, <2>1, <2>2, <3>1, <3>2, <3>3, <3>4, <3>5
  <2> QED BY <2>3, <2>4
<1>9. ASSUME NEW j \in Jobs, QueueStep(j)
      PROVE  /\ \A k \in Jobs : LocalJob(k)'
             /\ \A s \in Slots : LocalSlot(s)'
  <2>1. /\ UNCHANGED <<attempts, faults, api, pc, work>>
        /\ \A k \in Jobs : Kept(k)' = Kept(k)
    BY <1>5a, <1>9 DEF QueueStep, BackoffEnds, LockExpires, StalledCheck,
       fileVars, httpVars, slotVars, envVars
  <2>2. faults <= faults' /\ attempts[j] \in Nat
    BY <1>4, <2>1 DEF TypeOK, QueueTypeOK
  <2>3. \/ queue' = [queue EXCEPT ![j] = "waiting"] /\ lock' = lock
        \/ queue[j] # "active" /\ queue' = queue /\ lock' = [lock EXCEPT ![j] = Free]
    <3>1. queue[j] = "active" => lock[j] \in Slots
      BY <1>3 DEF LocalJob
    <3> QED
      BY <1>9, <3>1, NamesAssumption
      DEF QueueStep, BackoffEnds, LockExpires, StalledCheck
  <2>4. LocalJob(j)'
    BY <1>3, <2>1, <2>2, <2>3 DEF LocalJob, Settled, TypeOK, QueueTypeOK
  <2>5. \A k \in Jobs \ {j} : queue'[k] = queue[k] /\ lock'[k] = lock[k]
    BY <2>3 DEF TypeOK, QueueTypeOK
  <2> QED BY <1>5, <1>6, <1>7, <2>1, <2>2, <2>4, <2>5
<1>10. ASSUME NEW s \in Slots, NEW j \in Jobs, Take(s, j)
       PROVE  /\ \A k \in Jobs : LocalJob(k)'
              /\ \A t \in Slots : LocalSlot(t)'
  <2>1. /\ UNCHANGED <<attempts, faults, api>> /\ pc'[s] = "start"
        /\ \A k \in Jobs : Kept(k)' = Kept(k)
        /\ \A t \in Slots \ {s} : pc'[t] = pc[t] /\ work'[t] = work[t]
        /\ queue' = [queue EXCEPT ![j] = "active"] /\ lock' = [lock EXCEPT ![j] = s]
    BY <1>5a, <1>10 DEF Take, Goto, TypeOK, SlotTypeOK, fileVars, httpVars,
       envVars
  <2>2. faults <= faults' /\ attempts[j] \in Nat
    BY <1>4, <2>1 DEF TypeOK, QueueTypeOK
  <2>3. LocalSlot(s)'
    BY <2>1 DEF LocalSlot
  <2>4. LocalJob(j)'
    BY <1>3, <2>1, <2>2 DEF LocalJob, Settled, TypeOK, QueueTypeOK
  <2>5. \A k \in Jobs \ {j} : queue'[k] = queue[k] /\ lock'[k] = lock[k]
    BY <2>1 DEF TypeOK, QueueTypeOK
  <2> QED BY <1>5, <1>6, <1>7, <2>1, <2>2, <2>3, <2>4, <2>5
<1>11. ASSUME NEW s \in Slots, Settle(s)
       PROVE  /\ \A k \in Jobs : LocalJob(k)'
              /\ \A t \in Slots : LocalSlot(t)'
  <2>0. PICK j \in Jobs : j = work[s].job
    BY <1>5, <1>11 DEF Settle
  <2>1. /\ UNCHANGED <<faults, api>> /\ pc[s] = "settle" /\ pc'[s] = "idle"
        /\ \A k \in Jobs : Kept(k)' = Kept(k)
        /\ \A t \in Slots \ {s} : pc'[t] = pc[t] /\ work'[t] = work[t]
    BY <1>5a, <1>11 DEF Settle, Goto, TypeOK, SlotTypeOK, fileVars, httpVars,
       envVars
  <2>2. /\ lock[j] = s /\ api[j] = "accepted"
        /\ attempts[j] \in Nat /\ faults <= faults'
    BY <1>4, <1>5, <2>0, <2>1 DEF TypeOK, QueueTypeOK
  <2>3. /\ attempts' = [attempts EXCEPT ![j] = attempts[j] + 1]
        /\ queue' = [queue EXCEPT ![j] =
                IF ~work[s].threw THEN "completed"
                ELSE IF attempts[j] + 1 < MaxAttempts THEN "delayed" ELSE "failed"]
        /\ lock' = [lock EXCEPT ![j] = Free]
    BY <1>11, <2>0, <2>2 DEF Settle
  <2>4. LocalSlot(s)
    BY <1>3
  <2>5. Kept(j) => work[s].threw /\ attempts[j] < faults
    BY <2>0, <2>1, <2>4 DEF LocalSlot
  <2>6. LocalJob(j)'
    <3>1. queue'[j] # "active" /\ attempts'[j] = attempts[j] + 1
      BY <2>2, <2>3 DEF TypeOK, QueueTypeOK
    <3>2. work[s].threw /\ Settled(j)' => attempts[j] + 1 >= MaxAttempts
      BY <1>4, <2>2, <2>3 DEF TypeOK, QueueTypeOK, Settled
    <3> QED BY <1>4, <2>1, <2>2, <2>5, <3>1, <3>2 DEF LocalJob
  <2>7. LocalSlot(s)'
    BY <2>1 DEF LocalSlot
  <2>8. \A k \in Jobs \ {j} : /\ queue'[k] = queue[k] /\ lock'[k] = lock[k]
                             /\ attempts'[k] = attempts[k]
    BY <2>3 DEF TypeOK, QueueTypeOK
  <2>9. \A t \in Slots \ {s} : pc[t] # "idle" => work[t].job \in Jobs \ {j}
    BY <1>5, <2>0, <2>2
  <2>10. \A k \in Jobs \ {j} : LocalJob(k)'
    BY <1>6, <2>1, <2>2, <2>8
  <2>11. ASSUME NEW t \in Slots \ {s}
         PROVE  LocalSlot(t)'
    <3>1. pc[t] # "idle" => /\ attempts'[work[t].job] = attempts[work[t].job]
                            /\ Kept(work[t].job)' = Kept(work[t].job)
      BY <2>1, <2>8, <2>9
    <3> QED BY <1>7, <2>1, <2>2, <3>1
  <2> QED BY <2>2, <2>6, <2>7, <2>10, <2>11
<1>12. ASSUME NEW s \in Slots, Await(s)
       PROVE  /\ \A k \in Jobs : LocalJob(k)'
              /\ \A t \in Slots : LocalSlot(t)'
  <2>1. /\ UNCHANGED <<queue, lock, attempts, api>> /\ pc[s] # "idle"
        /\ \A t \in Slots \ {s} : pc'[t] = pc[t] /\ work'[t] = work[t]
    BY <1>12, AwaitKeeps DEF queueVars, httpVars
  <2>2. /\ LocalSlot(s)' /\ faults <= faults'
        /\ \A k \in Jobs : Kept(k)' => Kept(k)
    BY <1>3, <1>5, <1>12, <2>1, LocalAwait
  <2>3. \A k \in Jobs : LocalJob(k)'
    BY <1>6, <2>1, <2>2
  <2>4. \A t \in Slots \ {s} : LocalSlot(t)'
    BY <1>5, <1>7, <2>1, <2>2
  <2> QED BY <2>2, <2>3, <2>4
<1>13. CASE Aside
  <2>1. UNCHANGED <<queue, lock, attempts, api, pc, work>>
    BY <1>13, AsideKeeps DEF queueVars, httpVars, slotVars
  <2>2. faults <= faults'
    <3>1. faults' \in {faults, faults + 1}
      BY FaultsGrow
    <3> QED BY <1>4, <3>1
  <2>3. ASSUME NEW j \in Jobs, Unlink(j) PROVE \A k \in Jobs : Kept(k)' => Kept(k)
    BY <2>3 DEF Unlink, Kept, TypeOK, FileTypeOK
  <2>4. ASSUME NEW j \in Jobs, UnlinkFails(j)
        PROVE  \A k \in Jobs : Kept(k)' => Kept(k)
    BY <2>4 DEF UnlinkFails, Kept, TypeOK, FileTypeOK
  <2>5. \A k \in Jobs : Kept(k)' => Kept(k)
    BY <1>5a, <1>13, <2>3, <2>4 DEF Aside, DeleteSegment, fileVars
  <2>6. \A k \in Jobs : LocalJob(k)'
    BY <1>6, <2>1, <2>2, <2>5
  <2>7. \A t \in Slots : LocalSlot(t)'
    BY <1>5, <1>7, <2>1, <2>2, <2>5
  <2> QED BY <2>6, <2>7
<1> QED BY <1>2, <1>8, <1>9, <1>10, <1>11, <1>12, <1>13, NextCases

\* On local storage a settled job leaves no temp file behind once its unlinks have
\* called back, unless one of them failed, the worker was killed, a lock was lost,
\* or so many calls failed that every attempt may have ended before the handler
\* had the path.
THEOREM LocalFileGone == Spec => []LocalFileDeleted
<1>1. Init => LocalInv
  BY DEF Init, LocalInv, LocalJob, LocalSlot, Kept, Located, Leaving, Ended,
     Settled
<1>2. Spec => []LocalInv
  BY <1>1, LocalInvStep, TypeCorrect, LockInvariant, PTL DEF Spec
<1>3. LocalInv => LocalFileDeleted
  BY DEF LocalInv, LocalJob, Kept, LocalFileDeleted
<1> QED BY <1>2, <1>3, PTL

(***************************************************************************)
(* Downloads                                                               *)
(***************************************************************************)

\* Each download belongs to a handler that still has it, to an unlink under way,
\* to an unlink that failed or was never made, or to another call that failed.
DownloadsOf(j) ==
    IF UseS3
    THEN /\ unlinks[j] + Cardinality(Holding(j)) <= downloads[j]
         /\ downloads[j] <= faults + lost[j] + unlinks[j] + Cardinality(Holding(j))
    ELSE downloads[j] = 0

DownloadInv ==
    /\ \A j \in Jobs : DownloadsOf(j)
    /\ \A s \in Slots : pc[s] \in {"start", "resolve"} => ~work[s].file

LEMMA SlotSets ==
    ASSUME NEW S \in SUBSET Slots, NEW T \in SUBSET Slots, NEW s,
           T \subseteq S \union {s}
    PROVE  /\ Cardinality(S) \in Nat /\ Cardinality(T) \in Nat
           /\ Cardinality(T) <= Cardinality(S) + 1
           /\ T \subseteq S => Cardinality(T) <= Cardinality(S)
           /\ s \notin S /\ T = S \union {s} => Cardinality(T) = Cardinality(S) + 1
<1>1. IsFiniteSet(S) /\ IsFiniteSet(T)
  BY NamesAssumption, FS_Subset
<1>2. Cardinality(S) \in Nat /\ Cardinality(T) \in Nat
  BY <1>1, FS_CardinalityType
<1>3. /\ IsFiniteSet(S \union {s})
      /\ Cardinality(S \union {s}) =
            IF s \in S THEN Cardinality(S) ELSE Cardinality(S) + 1
  BY <1>1, FS_AddElement
<1>4. Cardinality(T) <= Cardinality(S \union {s})
  BY <1>3, FS_Subset
<1>5. T \subseteq S => Cardinality(T) <= Cardinality(S)
  BY <1>1, FS_Subset
<1>6. ASSUME s \notin S, T = S \union {s}
      PROVE  Cardinality(T) = Cardinality(S) + 1
  <2>1. Cardinality(T) = Cardinality(S \union {s})
    BY <1>6, Zenon
  <2> QED BY <1>3, <1>6, <2>1
<1>7. Cardinality(S \union {s}) <= Cardinality(S) + 1
  BY <1>2, <1>3
<1>8. Cardinality(T) <= Cardinality(S) + 1
  <2>1. Cardinality(S \union {s}) \in Nat
    BY <1>3, FS_CardinalityType
  <2> QED BY <1>2, <1>4, <1>7, <2>1
<1> QED BY <1>2, <1>5, <1>6, <1>8

\* What an await does to the downloads and the unlinks: it creates a download,
\* fails to, calls unlink, or leaves both alone.
LEMMA DownloadAwait ==
    ASSUME TypeOK, UseS3, NEW s \in Slots, Await(s)
    PROVE  LET j == work[s].job
           IN  /\ lost' = lost
               /\ \/ /\ pc[s] = "resolve" /\ pc'[s] = "count" /\ work'[s].file
                     /\ downloads' = [downloads EXCEPT ![j] = downloads[j] + 1]
                     /\ unlinks' = unlinks /\ faults' = faults
                  \/ /\ pc[s] = "resolve" /\ pc'[s] = "catch"
                     /\ work'[s].file = work[s].file
                     /\ \/ downloads' = downloads
                        \/ downloads' = [downloads EXCEPT ![j] = downloads[j] + 1]
                     /\ unlinks' = unlinks /\ faults' = faults + 1
                  \/ /\ pc[s] = "finally" /\ pc'[s] = "settle"
                     /\ unlinks' = IF work[s].file
                                   THEN [unlinks EXCEPT ![j] = unlinks[j] + 1]
                                   ELSE unlinks
                     /\ downloads' = downloads /\ faults' = faults
                  \/ /\ pc[s] # "settle" /\ pc'[s] \notin {"idle", "start", "settle"}
                     /\ pc'[s] = "resolve" => pc[s] = "start"
                     /\ work'[s].file = work[s].file
                     /\ downloads' = downloads /\ unlinks' = unlinks
                     /\ faults' \in {faults, faults + 1}
<1> USE DEF Step, Goto, TypeOK, SlotTypeOK, WorkType, fileVars, envVars
<1>1. CASE Resolve(s)        BY <1>1 DEF Resolve
<1>2. CASE DownloadFails(s)  BY <1>2 DEF DownloadFails
<1>3. CASE Finally(s)        BY <1>3 DEF Finally
<1>4. CASE \/ Start(s) \/ Count(s) \/ RecordTotal(s) \/ Open(s)
           \/ ExcelFileGone(s) \/ RowThrows(s) \/ EndOfFile(s) \/ Increment(s)
           \/ MarkDone(s) \/ UpdateThrows(s)
  BY <1>4 DEF Start, Count, RecordTotal, Open, ExcelFileGone, RowThrows,
     EndOfFile, Increment, MarkDone, UpdateThrows
<1>5. CASE ReadRow(s)           BY <1>5 DEF ReadRow
<1>6. CASE Upsert(s)            BY <1>6 DEF Upsert
<1>7. CASE UpdateProgress(s)    BY <1>7 DEF UpdateProgress
<1>8. CASE MarkFailed(s)        BY <1>8 DEF MarkFailed
<1>9. CASE UpsertFails(s)       BY <1>9 DEF UpsertFails
<1>10. CASE MarkFailedThrows(s) BY <1>10 DEF MarkFailedThrows
<1> QED
  BY <1>1, <1>2, <1>3, <1>4, <1>5, <1>6, <1>7, <1>8, <1>9, <1>10 DEF Await

\* On local storage nothing is ever downloaded.
LEMMA NoDownloads ==
    ASSUME TypeOK, Next, ~UseS3
    PROVE  downloads' = downloads
<1>1. ASSUME NEW s \in Slots, Await(s) PROVE downloads' = downloads
  BY <1>1 DEF Await, Start, Resolve, Count, RecordTotal, Open,
     ExcelFileGone, RowThrows, ReadRow, EndOfFile, Upsert, Increment,
     UpdateProgress, MarkDone, MarkFailed, Finally, DownloadFails,
     UpsertFails, UpdateThrows, MarkFailedThrows, fileVars
<1>2. ASSUME NEW j \in Jobs, Handler(j) PROVE downloads' = downloads
  BY <1>2 DEF Handler, Receive, Reject, CreateJob, UploadFile, AddToQueue,
     EnqueueFails, DeleteContacts, RemoveFromQueue, DeleteRow,
     RemoveFails, DeleteRowFails, fileVars
<1>3. Aside => downloads' = downloads
  BY DEF Aside, Unlink, UnlinkFails, DeleteSegment, fileVars
<1> QED BY <1>1, <1>2, <1>3, NextCases, QueueKeeps

\* A handler that starts has no path yet.
LEMMA NoPathYet ==
    ASSUME TypeOK, DownloadInv, Next
    PROVE  \A s \in Slots : pc'[s] \in {"start", "resolve"} => ~work'[s].file
<1>1. ASSUME NEW s \in Slots, Await(s)
      PROVE  pc'[s] \in {"start", "resolve"} =>
                 pc[s] = "start" /\ work'[s] = work[s]
  <2> USE DEF Step, Goto, TypeOK, SlotTypeOK
  <2>1. CASE Start(s)
    BY <2>1 DEF Start
  <2>2. CASE ~Start(s)
    <3>1. pc'[s] \notin {"start", "resolve"}
      BY <1>1, <2>2 DEF Await, Resolve, Count, RecordTotal, Open,
         ExcelFileGone, RowThrows, ReadRow, EndOfFile, Upsert, Increment,
         UpdateProgress, MarkDone, MarkFailed, Finally, DownloadFails,
         UpsertFails, UpdateThrows, MarkFailedThrows
    <3> QED BY <3>1
  <2> QED BY <2>1, <2>2
<1>2. ASSUME NEW s \in Slots, NEW j \in Jobs, Take(s, j)
      PROVE  ~work'[s].file /\ \A t \in Slots \ {s} :
                pc'[t] = pc[t] /\ work'[t] = work[t]
  BY <1>2 DEF Take, Goto, IdleWork, TypeOK, SlotTypeOK
<1>3. ASSUME NEW s \in Slots, Settle(s)
      PROVE  pc'[s] = "idle" /\ \A t \in Slots \ {s} :
                pc'[t] = pc[t] /\ work'[t] = work[t]
  BY <1>3 DEF Settle, Goto, TypeOK, SlotTypeOK
<1>4. ASSUME NEW j \in Jobs, Handler(j) \/ QueueStep(j) \/ LoseLock(j)
      PROVE  pc' = pc /\ work' = work
  BY <1>4 DEF Handler, Receive, Reject, CreateJob, UploadFile, AddToQueue,
     EnqueueFails, DeleteContacts, RemoveFromQueue, DeleteRow,
     RemoveFails, DeleteRowFails, QueueStep, BackoffEnds, LockExpires,
     StalledCheck, LoseLock, slotVars
<1>5. WorkerDies => \A t \in Slots : pc'[t] = "idle"
  BY DEF WorkerDies
<1>6. Aside => pc' = pc /\ work' = work
  BY AsideKeeps DEF slotVars
<1> QED
  BY <1>1, <1>2, <1>3, <1>4, <1>5, <1>6, NextCases, AwaitKeeps DEF DownloadInv

LEMMA DownloadInvStep ==
    TypeOK /\ TypeOK' /\ DownloadInv /\ [Next]_vars => DownloadInv'
<1> SUFFICES ASSUME TypeOK, TypeOK', DownloadInv, [Next]_vars
             PROVE  DownloadInv'
  OBVIOUS
<1>1. /\ pc \in [Slots -> Labels] /\ downloads \in [Jobs -> Int]
      /\ unlinks \in [Jobs -> Nat] /\ lost \in [Jobs -> Nat] /\ faults \in Nat
      /\ \A s \in Slots : pc[s] # "idle" => work[s].job \in Jobs
  BY DEF TypeOK, SlotTypeOK, FileTypeOK, EnvTypeOK
<1>2. \A j : /\ Holding(j) \in SUBSET Slots /\ Holding(j)' \in SUBSET Slots
             /\ Cardinality(Holding(j)) \in Nat
             /\ Cardinality(Holding(j)') \in Nat
  <2>1. \A j : Holding(j)' \in SUBSET Slots
    BY DEF Holding
  <2> QED BY <2>1, HoldingCount, SlotSets
<1>3. CASE UNCHANGED vars
  BY <1>3 DEF DownloadInv, DownloadsOf, Holding, Working, vars, fileVars,
     slotVars, envVars
<1>4. ASSUME Next, ~UseS3
      PROVE  \A j \in Jobs : DownloadsOf(j)'
  BY <1>4, NoDownloads DEF DownloadInv, DownloadsOf
<1>5. ASSUME Next, UseS3
      PROVE  \A j \in Jobs : DownloadsOf(j)'
  <2>1. ASSUME NEW j \in Jobs
        PROVE  /\ unlinks[j] + Cardinality(Holding(j)) <= downloads[j]
               /\ downloads[j] <= faults + lost[j] + unlinks[j]
                                    + Cardinality(Holding(j))
    BY <1>5 DEF DownloadInv, DownloadsOf
  <2>2. faults' \in Nat /\ faults' \in {faults, faults + 1}
    BY <1>5, FaultsGrow DEF TypeOK, EnvTypeOK
  <2>3. ASSUME NEW j \in Jobs, downloads'[j] = downloads[j],
               unlinks'[j] = unlinks[j], lost'[j] = lost[j],
               Holding(j)' = Holding(j)
        PROVE  DownloadsOf(j)'
    <3>1. Cardinality(Holding(j)') = Cardinality(Holding(j))
      BY <2>3, Zenon
    <3> QED BY <1>1, <1>2, <1>5, <2>1, <2>2, <2>3, <3>1 DEF DownloadsOf
  <2>4. ASSUME UNCHANGED <<downloads, unlinks, lost>>,
               \A t \in Slots : \/ pc'[t] = pc[t] /\ work'[t] = work[t]
                                \/ pc[t] \in {"idle", "settle"} /\ ~work'[t].file
                                \/ pc[t] \in {"idle", "settle"} /\ pc'[t] = "idle"
        PROVE  \A j \in Jobs : DownloadsOf(j)'
    <3>1. \A j \in Jobs, t \in Slots : t \in Holding(j)' <=> t \in Holding(j)
      BY <2>4 DEF Holding, Working
    <3>2. \A j \in Jobs : Holding(j)' = Holding(j)
      BY <1>2, <3>1
    <3> QED BY <2>3, <2>4, <3>2
  <2>5. ASSUME NEW k \in Jobs, Handler(k) \/ QueueStep(k) \/ LoseLock(k)
        PROVE  \A j \in Jobs : DownloadsOf(j)'
    <3>1. UNCHANGED <<downloads, unlinks, lost, pc, work>>
      BY <2>5 DEF Handler, Receive, Reject, CreateJob, UploadFile, AddToQueue,
         EnqueueFails, DeleteContacts, RemoveFromQueue, DeleteRow,
         RemoveFails, DeleteRowFails, QueueStep, BackoffEnds, LockExpires,
         StalledCheck, LoseLock, fileVars, slotVars
    <3> QED BY <2>4, <3>1
  <2>6. ASSUME NEW s \in Slots, NEW k \in Jobs, Take(s, k)
        PROVE  \A j \in Jobs : DownloadsOf(j)'
    <3>1. /\ UNCHANGED <<downloads, unlinks, lost>>
          /\ pc[s] = "idle" /\ ~work'[s].file
          /\ \A t \in Slots \ {s} : pc'[t] = pc[t] /\ work'[t] = work[t]
      BY <2>6 DEF Take, Goto, IdleWork, fileVars, TypeOK, SlotTypeOK
    <3> QED BY <2>4, <3>1
  <2>7. ASSUME NEW s \in Slots, Settle(s)
        PROVE  \A j \in Jobs : DownloadsOf(j)'
    <3>1. /\ UNCHANGED <<downloads, unlinks, lost>>
          /\ pc[s] = "settle" /\ pc'[s] = "idle"
          /\ \A t \in Slots \ {s} : pc'[t] = pc[t] /\ work'[t] = work[t]
      BY <2>7 DEF Settle, Goto, fileVars, TypeOK, SlotTypeOK
    <3> QED BY <2>4, <3>1
  <2>8. ASSUME WorkerDies, NEW j \in Jobs
        PROVE  DownloadsOf(j)'
    <3>1. /\ downloads' = downloads /\ unlinks'[j] = 0
          /\ lost'[j] = lost[j] + unlinks[j] + Cardinality(Holding(j))
          /\ \A s \in Slots : pc'[s] = "idle"
      BY <2>8 DEF WorkerDies
    <3>2. Holding(j)' = {}
      BY <3>1 DEF Holding, Working
    <3>3. Cardinality(Holding(j)') = 0
      BY <3>2, FS_EmptySet, Zenon
    <3> QED BY <1>1, <1>2, <1>5, <2>1, <2>2, <3>1, <3>3 DEF DownloadsOf
  <2>9. ASSUME Aside
        PROVE  \A j \in Jobs : DownloadsOf(j)'
    <3>1. UNCHANGED <<pc, work>> /\ \A j \in Jobs : Holding(j)' = Holding(j)
      BY <2>9, AsideKeeps DEF slotVars, Holding, Working
    <3>2. ASSUME NEW k \in Jobs, Unlink(k) \/ UnlinkFails(k), NEW j \in Jobs
          PROVE  DownloadsOf(j)'
      <4>1. CASE j # k
        <5>1. /\ downloads'[j] = downloads[j] /\ unlinks'[j] = unlinks[j]
              /\ lost'[j] = lost[j]
          BY <1>1, <3>2, <4>1 DEF Unlink, UnlinkFails
        <5> QED BY <2>3, <3>1, <5>1
      <4>2. CASE j = k
        <5>1. Cardinality(Holding(j)') = Cardinality(Holding(j))
          BY <3>1, Zenon
        <5>2. /\ unlinks'[j] = unlinks[j] - 1
              /\ \/ downloads'[j] = downloads[j] - 1 /\ lost'[j] = lost[j]
                 \/ /\ downloads'[j] = downloads[j] /\ lost'[j] = lost[j] + 1
                    /\ faults' = faults + 1
          BY <1>1, <1>5, <3>2, <4>2 DEF Unlink, UnlinkFails
        <5> QED BY <1>1, <1>2, <1>5, <2>1, <2>2, <5>1, <5>2 DEF DownloadsOf
      <4> QED BY <4>1, <4>2
    <3>3. DeleteSegment => \A j \in Jobs : DownloadsOf(j)'
      BY <2>4, <3>1 DEF DeleteSegment, fileVars
    <3> QED BY <2>9, <3>2, <3>3 DEF Aside
  <2>10. ASSUME NEW s \in Slots, Await(s)
         PROVE  \A j \in Jobs : DownloadsOf(j)'
    <3>1. /\ pc[s] # "idle" /\ pc'[s] # "idle" /\ lost' = lost
          /\ \A t \in Slots \ {s} : pc'[t] = pc[t] /\ work'[t] = work[t]
          /\ work'[s].job = work[s].job
      <4>1. pc'[s] # "idle" /\ lost' = lost
        BY <1>5, <2>10, DownloadAwait
      <4> QED BY <2>10, <4>1, AwaitKeeps
    <3>2. PICK k \in Jobs : k = work[s].job
      BY <1>1, <3>1
    <3>3. ASSUME NEW j \in Jobs
          PROVE  /\ j # k => Holding(j)' = Holding(j)
                 /\ Holding(k)' = IF work'[s].file /\ pc'[s] # "settle"
                                  THEN Holding(k) \union {s} ELSE Holding(k) \ {s}
      <4>1. j # k => \A t \in Slots : t \in Holding(j)' <=> t \in Holding(j)
        BY <3>1, <3>2 DEF Holding, Working
      <4>2. \A t \in Slots \ {s} : t \in Holding(k)' <=> t \in Holding(k)
        BY <3>1, <3>2 DEF Holding, Working
      <4>3. s \in Holding(k)' <=> work'[s].file /\ pc'[s] # "settle"
        BY <3>1, <3>2 DEF Holding, Working
      <4> QED BY <1>2, <4>1, <4>2, <4>3
    <3>4. s \in Holding(k) <=> work[s].file /\ pc[s] # "settle"
      BY <3>1, <3>2 DEF Holding, Working
    <3>5. ASSUME NEW j \in Jobs, j # k PROVE DownloadsOf(j)'
      <4>1. downloads'[j] = downloads[j] /\ unlinks'[j] = unlinks[j]
        BY <1>1, <1>5, <2>10, <3>2, <3>5, DownloadAwait
      <4> QED BY <2>3, <3>1, <3>3, <3>5, <4>1
    <3>6. ASSUME /\ pc[s] = "resolve" /\ pc'[s] = "count" /\ work'[s].file
                 /\ downloads' = [downloads EXCEPT ![k] = downloads[k] + 1]
                 /\ unlinks' = unlinks /\ faults' = faults
          PROVE  DownloadsOf(k)'
      <4>1. s \notin Holding(k) /\ Holding(k)' = Holding(k) \union {s}
        BY <3>3, <3>4, <3>6 DEF DownloadInv
      <4>2. Cardinality(Holding(k)') = Cardinality(Holding(k)) + 1
        BY <1>2, <4>1, SlotSets
      <4> QED
        BY <1>1, <1>2, <1>5, <2>1, <2>2, <3>1, <3>6, <4>2 DEF DownloadsOf
    <3>7. ASSUME /\ pc[s] = "resolve" /\ pc'[s] = "catch"
                 /\ work'[s].file = work[s].file
                 /\ \/ downloads' = downloads
                    \/ downloads' = [downloads EXCEPT ![k] = downloads[k] + 1]
                 /\ unlinks' = unlinks /\ faults' = faults + 1
          PROVE  DownloadsOf(k)'
      <4>1. Holding(k)' = Holding(k)
        BY <3>3, <3>4, <3>7
      <4>2. Cardinality(Holding(k)') = Cardinality(Holding(k))
        BY <4>1, Zenon
      <4> QED
        BY <1>1, <1>2, <1>5, <2>1, <2>2, <3>1, <3>7, <4>2 DEF DownloadsOf
    <3>8. ASSUME /\ pc[s] = "finally" /\ pc'[s] = "settle"
                 /\ unlinks' = IF work[s].file
                               THEN [unlinks EXCEPT ![k] = unlinks[k] + 1]
                               ELSE unlinks
                 /\ downloads' = downloads /\ faults' = faults
          PROVE  DownloadsOf(k)'
      <4>1. Holding(k)' = Holding(k) \ {s}
        BY <3>3, <3>8
      <4>2. work[s].file => Cardinality(Holding(k)) = Cardinality(Holding(k)') + 1
        <5>1. work[s].file => s \notin Holding(k)' /\ Holding(k) = Holding(k)' \union {s}
          BY <3>4, <3>8, <4>1
        <5>2. Holding(k) \subseteq Holding(k)' \union {s}
          BY <4>1
        <5> QED BY <1>2, <5>1, <5>2, SlotSets
      <4>3. ~work[s].file => Cardinality(Holding(k)') = Cardinality(Holding(k))
        <5>1. ~work[s].file => Holding(k)' = Holding(k)
          BY <3>4, <4>1
        <5> QED BY <5>1, Zenon
      <4> QED
        BY <1>1, <1>2, <1>5, <2>1, <2>2, <3>1, <3>8, <4>2, <4>3 DEF DownloadsOf
    <3>9. ASSUME /\ pc[s] # "settle" /\ pc'[s] \notin {"idle", "start", "settle"}
                 /\ work'[s].file = work[s].file
                 /\ downloads' = downloads /\ unlinks' = unlinks
          PROVE  DownloadsOf(k)'
      <4>1. Holding(k)' = Holding(k)
        BY <3>3, <3>4, <3>9
      <4> QED BY <2>3, <3>1, <3>9, <4>1
    <3>10. DownloadsOf(k)'
      BY <1>5, <2>10, <3>2, <3>6, <3>7, <3>8, <3>9, DownloadAwait
    <3> QED BY <3>5, <3>10
  <2> QED
    BY <1>5, <2>5, <2>6, <2>7, <2>8, <2>9, <2>10, NextCases
<1> QED BY <1>3, <1>4, <1>5, NoPathYet DEF DownloadInv

\* The downloads on disk are those of handlers at work, those whose unlink is
\* under way, those whose unlink failed or was never made, and at most one for
\* each other call that failed.
THEOREM DownloadsBounded == Spec => []DownloadsAccounted
<1>1. Init => DownloadInv
  <2> SUFFICES ASSUME Init PROVE DownloadInv
    OBVIOUS
  <2>1. \A j : Holding(j) = {}
    BY DEF Init, Holding, Working
  <2>2. \A j : Cardinality(Holding(j)) = 0
    BY <2>1, FS_EmptySet, Zenon
  <2> QED BY <2>2 DEF Init, DownloadInv, DownloadsOf, IdleWork
<1>2. Spec => []DownloadInv
  BY <1>1, DownloadInvStep, TypeCorrect, PTL DEF Spec
<1>3. TypeOK /\ DownloadInv => DownloadsAccounted
  <2> SUFFICES ASSUME TypeOK, DownloadInv, NEW j \in Jobs
               PROVE  /\ downloads[j] >= 0
                      /\ downloads[j] <= faults + lost[j] + unlinks[j]
                                            + Cardinality(Holding(j))
    BY DEF DownloadsAccounted
  <2>1. /\ downloads[j] \in Int /\ faults \in Nat /\ lost[j] \in Nat
        /\ unlinks[j] \in Nat /\ Cardinality(Holding(j)) \in Nat
    BY HoldingCount DEF TypeOK, FileTypeOK, EnvTypeOK
  <2> QED BY <2>1 DEF DownloadInv, DownloadsOf
<1> QED BY <1>2, <1>3, TypeCorrect, PTL

(***************************************************************************)
(* What the simulation needs besides the invariants above                  *)
(***************************************************************************)

\* An upload has no row before enqueue has inserted it, and a handler that
\* upserts, or has upserted, holds at least one row.
BornInv == \A j \in Jobs : api[j] \in {"idle", "received"} => ~Present(j)
BatchInv == \A s \in Slots : pc[s] \in {"upsert", "increment"} => work[s].batch # {}

LEMMA BornInvStep == TypeOK /\ BornInv /\ [Next]_vars => BornInv'
<1> SUFFICES ASSUME TypeOK, BornInv, [Next]_vars PROVE BornInv'
  OBVIOUS
<1> USE DEF BornInv, Present
<1>1. CASE UNCHANGED vars \/ Aside
  BY <1>1, AsideKeeps DEF vars, dataVars, httpVars
<1>2. ASSUME NEW j \in Jobs, Handler(j) PROVE BornInv'
  <2> USE DEF TypeOK, DataTypeOK, HttpTypeOK, dataVars
  <2>1. CASE CreateJob(j)  BY <2>1 DEF CreateJob
  <2>2. CASE DeleteRow(j)  BY <2>2 DEF DeleteRow, NoRow
  <2>3. CASE Receive(j) \/ Reject(j) \/ EnqueueFails(j)
    BY <2>3 DEF Receive, Reject, EnqueueFails
  <2>4. CASE UploadFile(j) \/ AddToQueue(j)
    BY <2>4 DEF UploadFile, AddToQueue
  <2>5. CASE DeleteContacts(j) \/ RemoveFromQueue(j) \/ RemoveFails(j) \/ DeleteRowFails(j)
    BY <2>5 DEF DeleteContacts, RemoveFromQueue, RemoveFails, DeleteRowFails
  <2> QED BY <1>2, <2>1, <2>2, <2>3, <2>4, <2>5 DEF Handler
<1>3. ASSUME NEW s \in Slots, Await(s) PROVE BornInv'
  <2>1. UNCHANGED <<api, del>>
    BY <1>3, AwaitKeeps DEF httpVars
  <2>2. \A k \in Jobs : (Present(k)' <=> Present(k))
    BY <1>3, AwaitData
  <2> QED BY <2>1, <2>2
<1>4. CASE \/ \E j \in Jobs : QueueStep(j) \/ LoseLock(j)
           \/ \E s \in Slots : Settle(s) \/ \E j \in Jobs : Take(s, j)
           \/ WorkerDies
  BY <1>4, QueueKeeps DEF dataVars, httpVars
<1> QED BY <1>1, <1>2, <1>3, <1>4, NextCases

LEMMA BornInvariant == Spec => []BornInv
<1>1. Init => BornInv
  BY DEF Init, BornInv, Present, NoRow
<1> QED BY <1>1, BornInvStep, TypeCorrect, PTL DEF Spec

LEMMA BatchInvStep == TypeOK /\ BatchInv /\ [Next]_vars => BatchInv'
<1> SUFFICES ASSUME TypeOK, BatchInv, [Next]_vars PROVE BatchInv'
  OBVIOUS
<1>1. ASSUME \A s \in Slots :
                \/ pc'[s] \notin {"upsert", "increment"}
                \/ pc'[s] = pc[s] /\ work'[s] = work[s]
      PROVE  BatchInv'
  BY <1>1 DEF BatchInv
<1>2. CASE UNCHANGED vars \/ Aside
  BY <1>1, <1>2, AsideKeeps DEF vars, slotVars
<1>3. ASSUME NEW j \in Jobs, Handler(j) \/ QueueStep(j) \/ LoseLock(j)
      PROVE  BatchInv'
  <2>1. UNCHANGED slotVars
    BY <1>3 DEF Handler, Receive, Reject, CreateJob, UploadFile, AddToQueue,
       EnqueueFails, DeleteContacts, RemoveFromQueue, DeleteRow,
       RemoveFails, DeleteRowFails, QueueStep, BackoffEnds, LockExpires,
       StalledCheck,
       LoseLock
  <2> QED BY <1>1, <2>1 DEF slotVars
<1>4. CASE WorkerDies
  BY <1>1, <1>4 DEF WorkerDies
<1>5. ASSUME NEW s \in Slots, Settle(s) \/ \E j \in Jobs : Take(s, j)
      PROVE  BatchInv'
  BY <1>1, <1>5 DEF Settle, Take, Goto, TypeOK, SlotTypeOK
<1>6. ASSUME NEW s \in Slots, Await(s)
      PROVE  BatchInv'
  <2>1. \A t \in Slots \ {s} : pc'[t] = pc[t] /\ work'[t] = work[t]
    BY <1>6, AwaitKeeps
  <2>2. pc'[s] \in {"upsert", "increment"} => work'[s].batch # {}
    <3> USE DEF Step, Goto, TypeOK, SlotTypeOK
    <3>1. CASE ReadRow(s)
      <4>1. pc'[s] \in {"upsert", "increment"} =>
                Cardinality(work'[s].batch) >= BatchSize
        BY <3>1 DEF ReadRow, WorkType
      <4>2. work'[s].batch = {} => Cardinality(work'[s].batch) = 0
        BY FS_EmptySet, Zenon
      <4> QED BY <4>1, <4>2, CountsAssumption
    <3>2. CASE EndOfFile(s)
      BY <3>2 DEF EndOfFile
    <3>3. CASE Upsert(s) \/ UpsertFails(s)
      <4>1. pc[s] = "upsert" /\ work'[s].batch = work[s].batch
        BY <3>3 DEF Upsert, UpsertFails, WorkType
      <4> QED BY <4>1 DEF BatchInv
    <3>4. CASE ~(ReadRow(s) \/ EndOfFile(s) \/ Upsert(s) \/ UpsertFails(s))
      <4>1. pc'[s] \notin {"upsert", "increment"}
        BY <1>6, <3>4 DEF Await, Start, Resolve, Count, RecordTotal, Open,
           ExcelFileGone, RowThrows, Increment, UpdateProgress, MarkDone,
           MarkFailed, Finally, DownloadFails, UpdateThrows, MarkFailedThrows
      <4> QED BY <4>1
    <3> QED BY <3>1, <3>2, <3>3, <3>4
  <2> QED BY <2>1, <2>2 DEF BatchInv
<1> QED BY <1>2, <1>3, <1>4, <1>5, <1>6, NextCases

LEMMA BatchInvariant == Spec => []BatchInv
<1>1. Init => BatchInv
  BY DEF Init, BatchInv
<1> QED BY <1>1, BatchInvStep, TypeCorrect, PTL DEF Spec

(***************************************************************************)
(* The simulation                                                          *)
(***************************************************************************)

Runs == {j \in Jobs : \E s \in Slots : Working(s, j)}

\* What holds before a step of a pipeline that has lost no lock.
Bound ==
    /\ TypeOK /\ LockInv /\ CountInv /\ ResultInv /\ StoredInv
    /\ BornInv /\ BatchInv /\ lockLosses = 0

\* The steps of the ingest and delete handlers create a row, purge, remove, or
\* are not seen.
LEMMA HandlerSimulates ==
    ASSUME Bound, NEW j \in Jobs, Handler(j)
    PROVE  \/ UNCHANGED <<row, stored, Runs>>
           \/ Lifecycle!Create(j) \/ Lifecycle!Purge(j) \/ Lifecycle!Remove(j)
<1>1. Runs' = Runs
  BY DEF Handler, Receive, Reject, CreateJob, UploadFile, AddToQueue,
     EnqueueFails, DeleteContacts, RemoveFromQueue, DeleteRow,
     RemoveFails, DeleteRowFails, slotVars, Runs, Working
<1>2. CASE CreateJob(j)
  BY <1>1, <1>2
  DEF CreateJob, Bound, BornInv, Present, Runs, Lifecycle!Create, NoRow,
      Lifecycle!NoRow
<1>3. CASE DeleteContacts(j)
  BY <1>1, <1>3 DEF DeleteContacts, Runs, Lifecycle!Purge
<1>4. CASE DeleteRow(j)
  BY <1>1, <1>4 DEF DeleteRow, Runs, Lifecycle!Remove, NoRow, Lifecycle!NoRow
<1>5. CASE \/ Receive(j) \/ Reject(j) \/ UploadFile(j) \/ AddToQueue(j)
           \/ EnqueueFails(j) \/ RemoveFromQueue(j) \/ RemoveFails(j) \/ DeleteRowFails(j)
  BY <1>1, <1>5 DEF Receive, Reject, UploadFile, AddToQueue, EnqueueFails,
     RemoveFromQueue, RemoveFails, DeleteRowFails, dataVars
<1> QED BY <1>2, <1>3, <1>4, <1>5 DEF Handler

\* A slot that takes an entry begins a run, one that settles ends it, and a kill
\* ends them all.
LEMMA QueueSimulates ==
    ASSUME Bound,
           \/ \E j \in Jobs : QueueStep(j)
           \/ \E s \in Slots : Settle(s) \/ \E j \in Jobs : Take(s, j)
           \/ WorkerDies
    PROVE  \/ UNCHANGED <<row, stored, Runs>>
           \/ \E j \in Jobs : Lifecycle!Begin(j) \/ Lifecycle!End(j)
           \/ Lifecycle!Kill
<1>1. UNCHANGED <<row, stored>>
  BY QueueKeeps DEF dataVars
<1> USE DEF Bound
<1>2. ASSUME NEW j \in Jobs, QueueStep(j)
      PROVE  Runs' = Runs
  BY <1>2 DEF QueueStep, BackoffEnds, LockExpires, StalledCheck, slotVars,
     Runs, Working
<1>3. ASSUME NEW s \in Slots, NEW j \in Jobs, Take(s, j)
      PROVE  Lifecycle!Begin(j)
  <2>1. /\ pc[s] = "idle" /\ pc'[s] = "start" /\ work'[s].job = j
        /\ \A t \in Slots \ {s} : pc'[t] = pc[t] /\ work'[t] = work[t]
        /\ queue[j] = "waiting"
    BY <1>3 DEF Take, Goto, IdleWork, TypeOK, SlotTypeOK
  <2>2. j \notin Runs
    BY <2>1, NobodyWorks DEF Runs
  <2>3. \A k \in Jobs : k \in Runs' <=> k \in Runs \/ k = j
    BY <2>1 DEF Runs, Working
  <2>4. Runs' = Runs \union {j}
    BY <2>3 DEF Runs
  <2> QED BY <1>1, <2>2, <2>4 DEF Lifecycle!Begin, Runs
<1>4. ASSUME NEW s \in Slots, Settle(s)
      PROVE  \E j \in Jobs : Lifecycle!End(j)
  <2>1. /\ pc[s] = "settle" /\ pc'[s] = "idle"
        /\ \A t \in Slots \ {s} : pc'[t] = pc[t] /\ work'[t] = work[t]
    BY <1>4 DEF Settle, Goto, TypeOK, SlotTypeOK
  <2>2. PICK j \in Jobs : j = work[s].job
    BY <2>1 DEF TypeOK, SlotTypeOK
  <2>3. \A t \in Slots \ {s} : ~Working(t, j)
    BY <2>1, <2>2 DEF LockInv, Working
  <2>4. \A k \in Jobs : k \in Runs' <=> k \in Runs /\ k # j
    BY <2>1, <2>2, <2>3 DEF Runs, Working
  <2>5. Runs' = Runs \ {j}
    BY <2>4 DEF Runs
  <2> QED BY <1>1, <2>5 DEF Lifecycle!End, Runs
<1>5. CASE WorkerDies
  <2>1. Runs' = {}
    BY <1>5 DEF WorkerDies, Runs, Working
  <2> QED BY <1>1, <2>1 DEF Lifecycle!Kill, Runs
<1> QED BY <1>1, <1>2, <1>3, <1>4, <1>5

\* A run that has been announced shows it, unless the row is gone.
LEMMA RunningRow ==
    ASSUME Bound, NEW s \in Slots, pc[s] \in Counting, Present(work[s].job)
    PROVE  row[work[s].job].status = "processing"
BY DEF Bound, ResultInv, ReportInv, Present

\* An await of processJob writes the row as a run may, imports a batch, or is
\* not seen.
LEMMA AwaitSimulates ==
    ASSUME Bound, NEW s \in Slots, Await(s)
    PROVE  \/ UNCHANGED <<row, stored, Runs>>
           \/ \E j \in Jobs :
                \/ Lifecycle!Start(j) \/ Lifecycle!Import(j)
                \/ Lifecycle!Progress(j) \/ Lifecycle!Finish(j)
                \/ Lifecycle!Fail(j)
<1> USE DEF Bound
<1>1. /\ pc[s] # "idle" /\ pc'[s] # "idle"
      /\ \A t \in Slots \ {s} : pc'[t] = pc[t] /\ work'[t] = work[t]
      /\ work'[s].job = work[s].job
  <2>1. pc'[s] # "idle"
    BY DEF Await, Start, Resolve, Count, RecordTotal, Open, ExcelFileGone,
       RowThrows, ReadRow, EndOfFile, Upsert, Increment, UpdateProgress,
       MarkDone, MarkFailed, Finally, DownloadFails, UpsertFails,
       UpdateThrows, MarkFailedThrows, Step, Goto, TypeOK, SlotTypeOK
  <2> QED BY <2>1, AwaitKeeps
<1>2. PICK j \in Jobs : j = work[s].job
  BY <1>1 DEF TypeOK, SlotTypeOK
<1>3. Runs' = Runs
  <2>1. \A t \in Slots, k \in Jobs : Working(t, k)' <=> Working(t, k)
    BY <1>1 DEF Working
  <2> QED BY <2>1 DEF Runs
<1>4. j \in Runs
  BY <1>1, <1>2 DEF Runs, Working
<1>5. /\ row \in [Jobs -> RowType] /\ NumRows[j] \in Nat
      /\ work[s] \in WorkType /\ work[s].batch \subseteq 1..work[s].pos
  BY FilesAssumption DEF TypeOK, DataTypeOK, SlotTypeOK
<1> USE DEF Step, UpdateRow
<1>6. CASE UNCHANGED <<row, stored>>
  BY <1>3, <1>6
<1>7. ASSUME Start(s), Present(j)
      PROVE  Lifecycle!Start(j)
  <2>1. /\ row' = [row EXCEPT ![j].status = "processing", ![j].total = row[j].total]
        /\ stored' = stored
    BY <1>2, <1>5, <1>7 DEF Start, Present, RowType
  <2> QED
    BY <1>3, <1>4, <1>7, <2>1
    DEF Lifecycle!Start, Lifecycle!Writes, Runs, Present
<1>8. ASSUME RecordTotal(s), Present(j)
      PROVE  Lifecycle!Start(j)
  <2>1. /\ row' = [row EXCEPT ![j].status = "processing", ![j].total = TotalRows(j)]
        /\ stored' = stored
    BY <1>2, <1>5, <1>8 DEF RecordTotal, Present, RowType
  <2>2. TotalRows(j) \in 0..NumRows[j]
    BY <1>5 DEF TotalRows
  <2> QED
    BY <1>3, <1>4, <1>8, <2>1, <2>2
    DEF Lifecycle!Start, Lifecycle!Writes, Runs, Present
<1>9. ASSUME Increment(s), Present(j)
      PROVE  Lifecycle!Progress(j)
  <2> DEFINE n == Cardinality(work[s].batch)
  <2>1. /\ row' = [row EXCEPT ![j].processed = @ + n]
        /\ stored' = stored /\ pc[s] = "increment"
    BY <1>2, <1>5, <1>9 DEF Increment, Present, RowType
  <2>2. n \in 1..NumRows[j]
    <3>1. n \in Nat /\ n # 0
      <4>1. work[s].batch # {} /\ IsFiniteSet(work[s].batch)
        <5>1. IsFiniteSet(1..work[s].pos)
          BY <1>5, FS_Interval DEF WorkType
        <5> QED BY <1>5, <2>1, <5>1, FS_Subset DEF BatchInv
      <4> QED BY <4>1, FS_EmptySet, FS_CardinalityType
    <3>2. n <= work[s].pos
      BY BatchBound DEF TypeOK
    <3>3. work[s].pos \in Nat /\ work[s].pos <= NumRows[j]
      BY <1>2, <1>5, <2>1 DEF CountInv, Counted, WorkType
    <3> HIDE DEF n
    <3> QED BY <1>5, <3>1, <3>2, <3>3
  <2>3. row[j].status = "processing"
    BY <1>2, <1>9, <2>1, RunningRow DEF Counting
  <2> HIDE DEF n
  <2> QED
    BY <1>3, <1>4, <1>9, <2>1, <2>2, <2>3
    DEF Lifecycle!Progress, Lifecycle!Writes, Runs, Present
<1>10. ASSUME MarkDone(s), Present(j)
       PROVE  Lifecycle!Finish(j)
  <2> DEFINE n == work[s].processed
  <2>1. /\ row' = [row EXCEPT ![j].status = "done", ![j].processed = n,
                              ![j].failed = work[s].failed]
        /\ stored' = stored /\ pc[s] = "done"
    BY <1>2, <1>5, <1>10 DEF MarkDone, Present, RowType
  <2>2. n \in 0..NumRows[j] /\ work[s].failed = NumRows[j] - n
    BY <1>2, <1>5, <2>1 DEF CountInv, Counted, WorkType
  <2>3. row[j].status = "processing"
    BY <1>2, <1>10, <2>1, RunningRow DEF Counting
  <2> HIDE DEF n
  <2> QED
    BY <1>3, <1>4, <1>10, <2>1, <2>2, <2>3
    DEF Lifecycle!Finish, Lifecycle!Writes, Runs, Present
<1>11. ASSUME MarkFailed(s), Present(j)
       PROVE  Lifecycle!Fail(j)
  <2>1. row' = [row EXCEPT ![j].status = "failed"] /\ stored' = stored
    BY <1>2, <1>5, <1>11 DEF MarkFailed, Present, RowType
  <2> QED
    BY <1>3, <1>4, <1>11, <2>1
    DEF Lifecycle!Fail, Lifecycle!Writes, Runs, Present
<1>12. ASSUME Upsert(s)
       PROVE  Lifecycle!Import(j)
  <2>1. /\ Store(j, ContactsOf(j, work[s].batch))
        /\ row' = row /\ pc[s] = "upsert"
    BY <1>2, <1>12 DEF Upsert
  <2>2. work[s].batch \in SUBSET (1..NumRows[j])
    <3>1. work[s].pos \in Nat /\ work[s].pos <= NumRows[j]
      BY <1>2, <1>5, <2>1 DEF CountInv, Counted, WorkType
    <3> QED BY <1>5, <3>1
  <2>3. stored' = [k \in Jobs |->
                    IF k = j THEN stored[k] \union {ContactOf[j][r] : r \in work[s].batch}
                    ELSE stored[k] \ {ContactOf[j][r] : r \in work[s].batch}]
    BY <2>1 DEF Store, ContactsOf
  <2> QED BY <1>3, <1>4, <2>1, <2>2, <2>3 DEF Lifecycle!Import, Runs
<1>13. CASE \/ Start(s) \/ RecordTotal(s) \/ Increment(s) \/ MarkDone(s)
            \/ MarkFailed(s)
  <2>1. ~Present(j) => UNCHANGED <<row, stored>>
    BY <1>2, <1>13 DEF Start, RecordTotal, Increment, MarkDone, MarkFailed,
       Present
  <2> QED BY <1>6, <1>7, <1>8, <1>9, <1>10, <1>11, <1>13, <2>1
<1>14. CASE \/ Resolve(s) \/ Count(s) \/ Open(s) \/ ExcelFileGone(s)
            \/ RowThrows(s) \/ ReadRow(s) \/ EndOfFile(s) \/ UpdateProgress(s)
            \/ Finally(s) \/ DownloadFails(s) \/ UpsertFails(s)
            \/ UpdateThrows(s) \/ MarkFailedThrows(s)
  <2>1. UNCHANGED <<row, stored>>
    BY <1>14 DEF Resolve, Count, Open, ExcelFileGone, RowThrows, ReadRow,
       EndOfFile, UpdateProgress, Finally, DownloadFails, UpsertFails,
       UpdateThrows, MarkFailedThrows, dataVars
  <2> QED BY <1>6, <2>1
<1> QED BY <1>12, <1>13, <1>14 DEF Await

\* Retries, re-runs of stalled entries, kills and deletions look, to whoever
\* polls the row, like runs that start, advance, finish or fail one at a time.
THEOREM Refinement == Spec /\ [](lockLosses = 0) => ImplementsLifecycle
<1>1. Init => Lifecycle!Init
  BY DEF Init, Lifecycle!Init, NoRow, Lifecycle!NoRow, Working
<1>2. Bound /\ Bound' /\ [Next]_vars => [Lifecycle!Next]_(Lifecycle!vars)
  <2> SUFFICES ASSUME Bound, Bound', [Next]_vars
               PROVE  [Lifecycle!Next]_(Lifecycle!vars)
    OBVIOUS
  <2>1. CASE UNCHANGED vars
    BY <2>1 DEF vars, dataVars, slotVars, Lifecycle!vars, Working
  <2>2. CASE Next
    <3>1. ~ \E j \in Jobs : LoseLock(j)
      BY <2>2, NoLockLost DEF Bound
    <3>2. CASE UNCHANGED <<row, stored, Runs>>
      BY <3>2 DEF Lifecycle!vars, Runs
    <3>3. ASSUME NEW j \in Jobs, Handler(j)
          PROVE  Lifecycle!Next \/ UNCHANGED <<row, stored, Runs>>
      BY <3>3, HandlerSimulates DEF Lifecycle!Next
    <3>4. ASSUME NEW s \in Slots, Await(s)
          PROVE  Lifecycle!Next \/ UNCHANGED <<row, stored, Runs>>
      BY <3>4, AwaitSimulates DEF Lifecycle!Next
    <3>5. CASE \/ \E j \in Jobs : QueueStep(j)
               \/ \E s \in Slots : Settle(s) \/ \E j \in Jobs : Take(s, j)
               \/ WorkerDies
      <4>1. Lifecycle!Next \/ UNCHANGED <<row, stored, Runs>>
        BY <3>5, QueueSimulates DEF Lifecycle!Next
      <4> QED BY <3>2, <4>1
    <3>6. CASE Aside
      <4>1. Runs' = Runs /\ row' = row
        BY <3>6, AsideKeeps DEF slotVars, Runs, Working
      <4>2. CASE DeleteSegment
        BY <4>1, <4>2
        DEF DeleteSegment, Runs, Lifecycle!Next, Lifecycle!PurgeAll
      <4>3. CASE ~DeleteSegment
        <5>1. stored' = stored
          BY <3>6, <4>3 DEF Aside, Unlink, UnlinkFails, dataVars
        <5> QED BY <3>2, <4>1, <5>1
      <4> QED BY <4>2, <4>3
    <3> QED BY <2>2, <3>1, <3>2, <3>3, <3>4, <3>5, <3>6, NextCases
  <2> QED BY <2>1, <2>2
<1>3. TypeOK /\ LockInv /\ CountInv /\ ResultInv /\ StoredInv /\ BornInv
        /\ BatchInv /\ lockLosses = 0 => Bound
  BY DEF Bound
<1> QED
  BY <1>1, <1>2, <1>3, TypeCorrect, LockInvariant, CountInvariant,
     ResultInvariant, StoredInvariant, BornInvariant, BatchInvariant, PTL
  DEF Spec, ImplementsLifecycle, Lifecycle!Spec
=============================================================================
