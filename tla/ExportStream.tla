---------------------------- MODULE ExportStream ----------------------------
(***************************************************************************)
(* GET /api/export: the route's preflight query, ExportService.stream, and  *)
(* the route's reaction to a failed stream.  A cursor on a pooled database  *)
(* connection is piped through the CSV formatter into the HTTP response.    *)
(*                                                                          *)
(* Node's streams, express and knex are not under src/: pipe with its back  *)
(* pressure, the events finish and close of a response (the server notices  *)
(* that the client has gone), and the pool are modelled from how the code   *)
(* uses them.  A response whose client has gone takes no more data: write   *)
(* returns false, and no drain follows.  Destroying the source gives its    *)
(* connection back.                                                         *)
(***************************************************************************)
EXTENDS Integers, FiniteSets

CONSTANTS
    Exports,
    NumRows,      \* rows that match the filter
    HighWater,    \* rows the CSV stream holds before its source is paused
    PoolMax       \* connections in the pool

ASSUME SizesAssumption ==
    NumRows \in Nat /\ HighWater \in Nat \ {0} /\ PoolMax \in Nat \ {0}

VARIABLES
    route,        \* where each export's handler stands
    source,       \* the state of its database stream
    left,         \* rows the cursor has yet to return
    buffered,     \* rows in the CSV stream
    sent,         \* rows written to the response; headers go with the first
    ended,        \* res.writableEnded
    gone,         \* the client has gone
    early,        \* history: it had gone before stream listened to close
    json          \* history: the answer was a JSON error

vars == <<route, source, left, buffered, sent, ended, gone, early, json>>

Init ==
    /\ route = [e \in Exports |-> "idle"]
    /\ source = [e \in Exports |-> "none"]
    /\ left = [e \in Exports |-> NumRows]
    /\ buffered = [e \in Exports |-> 0]
    /\ sent = [e \in Exports |-> 0]
    /\ ended = [e \in Exports |-> FALSE]
    /\ gone = [e \in Exports |-> FALSE]
    /\ early = [e \in Exports |-> FALSE]
    /\ json = [e \in Exports |-> FALSE]

Holding(e) == source[e] = "reading"
PoolHasFree == Cardinality({e \in Exports : Holding(e)}) < PoolMax

(***************************************************************************)
(* The handler                                                             *)
(***************************************************************************)

\* Authentication and validation have passed, the preflight query is under way.
Request(e) ==
    /\ route[e] = "idle"
    /\ route' = [route EXCEPT ![e] = "preflight"]
    /\ UNCHANGED <<source, left, buffered, sent, ended, gone, early, json>>

\* SELECT 1 has answered: stream sets up the pipe and its listeners.  A client
\* that has gone meanwhile has had its close event already.
Preflight(e) ==
    /\ route[e] = "preflight" /\ PoolHasFree
    /\ route' = [route EXCEPT ![e] = "stream"]
    /\ source' = [source EXCEPT ![e] = "waiting"]
    /\ early' = [early EXCEPT ![e] = gone[e]]
    /\ UNCHANGED <<left, buffered, sent, ended, gone, json>>

\* The answer of the error handler ends the response.
AnswerJson(e) ==
    /\ route' = [route EXCEPT ![e] = "failed"]
    /\ ended' = [ended EXCEPT ![e] = TRUE]
    /\ json' = [json EXCEPT ![e] = TRUE]

PreflightFails(e) ==
    /\ route[e] = "preflight"
    /\ AnswerJson(e)
    /\ UNCHANGED <<source, left, buffered, sent, gone, early>>

(***************************************************************************)
(* ExportService.stream                                                    *)
(***************************************************************************)

\* The pool has a connection, the cursor is opened.
Acquire(e) ==
    /\ source[e] = "waiting" /\ PoolHasFree
    /\ source' = [source EXCEPT ![e] = "reading"]
    /\ UNCHANGED <<route, left, buffered, sent, ended, gone, early, json>>

\* The pipe takes a row from the cursor while the CSV stream has room.
Read(e) ==
    /\ Holding(e) /\ left[e] > 0 /\ buffered[e] < HighWater
    /\ left' = [left EXCEPT ![e] = @ - 1]
    /\ buffered' = [buffered EXCEPT ![e] = @ + 1]
    /\ UNCHANGED <<route, source, sent, ended, gone, early, json>>

EndOfData(e) ==
    /\ Holding(e) /\ left[e] = 0
    /\ source' = [source EXCEPT ![e] = "ended"]
    /\ UNCHANGED <<route, left, buffered, sent, ended, gone, early, json>>

Write(e) ==
    /\ buffered[e] > 0 /\ ~gone[e] /\ ~ended[e]
    /\ buffered' = [buffered EXCEPT ![e] = @ - 1]
    /\ sent' = [sent EXCEPT ![e] = @ + 1]
    /\ UNCHANGED <<route, source, left, ended, gone, early, json>>

\* The last row is written: pipe ends the response.
EndResponse(e) ==
    /\ route[e] = "stream" /\ source[e] = "ended"
    /\ buffered[e] = 0 /\ ~gone[e] /\ ~ended[e]
    /\ ended' = [ended EXCEPT ![e] = TRUE]
    /\ UNCHANGED <<route, source, left, buffered, sent, gone, early, json>>

\* The finish event of the response: stream resolves.
Finish(e) ==
    /\ route[e] = "stream" /\ ended[e] /\ ~gone[e]
    /\ route' = [route EXCEPT ![e] = "completed"]
    /\ UNCHANGED <<source, left, buffered, sent, ended, gone, early, json>>

\* Both streams are destroyed, with what they hold.
Destroy(e) ==
    /\ source' = [source EXCEPT ![e] =
            IF @ \in {"waiting", "reading"} THEN "destroyed" ELSE @]
    /\ buffered' = [buffered EXCEPT ![e] = 0]

\* Fault: the streams are destroyed, and nobody hears of it.
FailSilently(e) ==
    /\ Destroy(e)
    /\ UNCHANGED <<route, left, sent, ended, gone, early, json>>

\* fail: the streams are destroyed, stream rejects.
Fail(e) ==
    /\ Destroy(e)
    /\ route' = [route EXCEPT ![e] = "catch"]
    /\ UNCHANGED <<left, sent, ended, gone, early, json>>

AcquireTimesOut(e) == source[e] = "waiting" /\ ~PoolHasFree /\ Fail(e)

\* The database stream or the formatter reports an error.
StreamError(e) ==
    /\ route[e] = "stream"
    /\ Holding(e) \/ (source[e] = "ended" /\ buffered[e] > 0)
    /\ Fail(e)

\* Fault: a JSON error whatever has been sent.
CatchWithJson(e) ==
    /\ route[e] = "catch"
    /\ AnswerJson(e)
    /\ UNCHANGED <<source, left, buffered, sent, gone, early>>

\* The route's catch: a JSON error, unless headers and rows are out already.
Catch(e) ==
    /\ route[e] = "catch"
    /\ IF sent[e] = 0 THEN AnswerJson(e)
       ELSE /\ route' = [route EXCEPT ![e] = "failed"]
            /\ ended' = [ended EXCEPT ![e] = TRUE]
            /\ UNCHANGED json
    /\ UNCHANGED <<source, left, buffered, sent, gone, early>>

\* Fault: nobody listens to close.
LeaveUnnoticed(e) ==
    /\ route[e] \notin {"idle", "completed"} /\ ~gone[e]
    /\ gone' = [gone EXCEPT ![e] = TRUE]
    /\ UNCHANGED <<route, source, left, buffered, sent, ended, early, json>>

\* Fault: stream resolves on close.
LeaveCompletes(e) ==
    /\ route[e] = "stream" /\ ~gone[e]
    /\ gone' = [gone EXCEPT ![e] = TRUE]
    /\ Destroy(e)
    /\ route' = [route EXCEPT ![e] = "completed"]
    /\ UNCHANGED <<left, sent, ended, early, json>>

\* The close event of a response whose client has gone: once stream listens, and
\* unless the response has ended, the streams are destroyed.
Leave(e) ==
    /\ route[e] \notin {"idle", "completed"} /\ ~gone[e]
    /\ gone' = [gone EXCEPT ![e] = TRUE]
    /\ IF route[e] # "preflight" /\ ~ended[e] THEN Destroy(e)
       ELSE UNCHANGED <<source, buffered>>
    /\ UNCHANGED <<route, left, sent, ended, early, json>>

(***************************************************************************)
(* The specification                                                       *)
(***************************************************************************)

\* What goes on by itself as long as the client reads.
Flow(e) ==
    \/ Preflight(e) \/ Acquire(e) \/ AcquireTimesOut(e) \/ Read(e)
    \/ EndOfData(e) \/ Write(e) \/ EndResponse(e) \/ Finish(e) \/ Catch(e)

Next ==
    \E e \in Exports :
        Request(e) \/ PreflightFails(e) \/ Flow(e) \/ StreamError(e) \/ Leave(e)

Spec == Init /\ [][Next]_vars

\* The streams flow; clients need not leave, nothing need fail but an acquisition
\* the pool cannot serve.
Fairness == \A e \in Exports : WF_vars(Flow(e))

FairSpec == Spec /\ Fairness

(***************************************************************************)
(* Properties                                                              *)
(***************************************************************************)

ShapesOK ==
    /\ route \in [Exports -> {"idle", "preflight", "stream", "catch",
                              "completed", "failed"}]
    /\ source \in [Exports -> {"none", "waiting", "reading", "ended",
                               "destroyed"}]
    /\ left \in [Exports -> Nat] /\ sent \in [Exports -> Nat]
    /\ buffered \in [Exports -> 0..HighWater]
    /\ ended \in [Exports -> BOOLEAN] /\ gone \in [Exports -> BOOLEAN]
    /\ early \in [Exports -> BOOLEAN] /\ json \in [Exports -> BOOLEAN]

RowsOK == \A e \in Exports : left[e] + buffered[e] + sent[e] <= NumRows
PoolOK == Cardinality({e \in Exports : Holding(e)}) <= PoolMax

\* Shapes of the state; the CSV stream never holds more than HighWater rows, no
\* row is sent twice, and the pool lends no more connections than it has.
TypeOK == ShapesOK /\ RowsOK /\ PoolOK

\* A client is sent rows or a JSON error, never the one after the other, whenever
\* the error comes.
JsonBeforeData == \A e \in Exports : json[e] => sent[e] = 0

\* 'CSV export completed' is logged only when every row was sent, whatever errors
\* and disconnections came on the way.
CompletedIsWhole ==
    \A e \in Exports : route[e] = "completed" => sent[e] = NumRows

\* A connection goes back to the pool, whether the client reads to the end, the
\* stream fails or the client leaves, unless the client had left before stream
\* began to listen.
ConnectionReturnedUnlessEarly ==
    \A e \in Exports : Holding(e) ~> ~Holding(e) \/ early[e]

\* A stream that was begun is reported completed or failed, or its client has
\* gone: it does not wait for ever, not even for the pool.
EveryExportEnds ==
    \A e \in Exports :
        route[e] = "stream" ~> route[e] \in {"completed", "failed"} \/ gone[e]

=============================================================================
