---------------------------- MODULE JobLifecycle ----------------------------
(***************************************************************************)
(* What the import of an upload promises to those who poll its row: one run *)
(* at a time writes it, a run is done only when every row of the file is    *)
(* accounted for, and only a deletion takes the row or its contacts away.   *)
(* Queue, locks, files, retries and faults are the business of the module   *)
(* that implements this one, IngestPipeline.                                *)
(***************************************************************************)
EXTENDS Integers

CONSTANTS Jobs, NumRows, ContactOf

VARIABLES
    row,       \* the upload_jobs row of each job
    stored,    \* the contacts credited to each job
    running    \* the jobs of which a run is under way

vars == <<row, stored, running>>

NoRow == [status |-> "absent", total |-> 0, processed |-> 0, failed |-> 0]

Init ==
    /\ row = [j \in Jobs |-> NoRow]
    /\ stored = [j \in Jobs |-> {}]
    /\ running = {}

Create(j) ==
    /\ row[j].status = "absent"
    /\ row' = [row EXCEPT ![j] = [NoRow EXCEPT !.status = "queued"]]
    /\ UNCHANGED <<stored, running>>

Begin(j) ==
    /\ j \notin running
    /\ running' = running \union {j}
    /\ UNCHANGED <<row, stored>>

\* Only the run of a job writes its row, and only while the row exists.
Writes(j) ==
    j \in running /\ row[j].status # "absent" /\ UNCHANGED <<stored, running>>

\* A run announces itself, whatever earlier runs left in the row, and later the
\* number of rows it found.
Start(j) ==
    /\ Writes(j)
    /\ \E total \in {row[j].total} \union 0..NumRows[j] :
        row' = [row EXCEPT ![j].status = "processing", ![j].total = total]

Progress(j) ==
    /\ Writes(j) /\ row[j].status = "processing"
    /\ \E n \in 1..NumRows[j] : row' = [row EXCEPT ![j].processed = @ + n]

\* A run that announced itself ends with every row of the file counted once.
Finish(j) ==
    /\ Writes(j) /\ row[j].status = "processing"
    /\ \E n \in 0..NumRows[j] :
        row' = [row EXCEPT ![j].status = "done", ![j].processed = n,
                           ![j].failed = NumRows[j] - n]

Fail(j) ==
    /\ Writes(j)
    /\ row' = [row EXCEPT ![j].status = "failed"]

\* A run stores the contacts of some of its rows, and takes those from the jobs
\* that had them.
Import(j) ==
    /\ j \in running
    /\ \E rows \in SUBSET (1..NumRows[j]) :
        LET cs == {ContactOf[j][r] : r \in rows}
        IN  stored' = [k \in Jobs |-> IF k = j THEN stored[k] \union cs
                                      ELSE stored[k] \ cs]
    /\ UNCHANGED <<row, running>>

End(j) ==
    /\ running' = running \ {j}
    /\ UNCHANGED <<row, stored>>

\* The worker is killed: all its runs end at once.
Kill ==
    /\ running' = {}
    /\ UNCHANGED <<row, stored>>

Purge(j) ==
    /\ stored' = [stored EXCEPT ![j] = {}]
    /\ UNCHANGED <<row, running>>

\* The segment's contacts are deleted, those of all jobs.
PurgeAll ==
    /\ stored' = [j \in Jobs |-> {}]
    /\ UNCHANGED <<row, running>>

Remove(j) ==
    /\ row' = [row EXCEPT ![j] = NoRow]
    /\ UNCHANGED <<stored, running>>

Next ==
    \/ \E j \in Jobs :
        \/ Create(j) \/ Purge(j) \/ Remove(j)
        \/ Begin(j) \/ End(j)
        \/ Start(j) \/ Import(j) \/ Progress(j) \/ Finish(j) \/ Fail(j)
    \/ Kill \/ PurgeAll

Spec == Init /\ [][Next]_vars
=============================================================================
