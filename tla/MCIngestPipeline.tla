-------------------------- MODULE MCIngestPipeline --------------------------
(* Instances of IngestPipeline for TLC. *)
EXTENDS IngestPipeline, TLC

CONSTANTS j1, j2

\* With batches of two, j1 fills one batch.  What it leaves for the final flush is
\* nothing on S3 next to another job (one row less makes the run half as large), one
\* row on S3 by itself, and on local storage a row that is turned down.  The first two
\* rows of j1 are about one contact, and so is the only row of j2.  On S3 that row
\* holds a number, so that j2 always fails.
MCNumRows == [j \in Jobs |-> IF j # j1 THEN 1 ELSE IF UseS3 /\ Jobs # {j1} THEN 2 ELSE 3]
MCBadRows == [j \in Jobs |-> IF j = j1 /\ ~UseS3 THEN {3} ELSE {}]
MCTypedRows == [j \in Jobs |-> IF j = j1 \/ ~UseS3 THEN {} ELSE {1}]
MCContactOf ==
    [j \in Jobs |-> [r \in 1..MCNumRows[j] |-> IF r = 3 THEN "b" ELSE "a"]]

\* The slots of a worker are interchangeable.
MCSymmetry == Permutations(Slots)
=============================================================================
