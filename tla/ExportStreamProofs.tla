-------------------------- MODULE ExportStreamProofs ------------------------
(***************************************************************************)
(* Proofs about ExportStream, for any number of exports, rows, buffers and  *)
(* connections: an answer is CSV or JSON and never both, and an export that *)
(* is reported completed has sent every row.                                *)
(***************************************************************************)
EXTENDS ExportStream, TLAPS

\* Before stream is called nothing has flowed.
NotBegun(e) ==
    route[e] \in {"idle", "preflight"} =>
        /\ source[e] = "none" /\ left[e] = NumRows
        /\ buffered[e] = 0 /\ sent[e] = 0 /\ ~ended[e]

\* While the client is there, or once the response has ended by itself, every
\* row is with the cursor, in the CSV stream or sent.
Flowing(e) ==
    route[e] = "stream" /\ (~gone[e] \/ ended[e]) =>
        /\ left[e] + buffered[e] + sent[e] = NumRows
        /\ source[e] = "ended" => left[e] = 0
        /\ ended[e] => source[e] = "ended" /\ buffered[e] = 0

\* A JSON answer ends the response.
JsonEnds(e) == json[e] => sent[e] = 0 /\ ended[e]

Completed(e) == route[e] = "completed" => ended[e] /\ sent[e] = NumRows

\* The inductive invariant.
StreamInv ==
    /\ ShapesOK
    /\ \A e \in Exports :
        NotBegun(e) /\ Flowing(e) /\ JsonEnds(e) /\ Completed(e)

LEMMA StreamInit == Init => StreamInv
    BY SizesAssumption
    DEF Init, StreamInv, ShapesOK, NotBegun, Flowing, JsonEnds, Completed

\* Every action keeps the shapes.
LEMMA ShapesStep ==
    ASSUME ShapesOK, [Next]_vars
    PROVE  ShapesOK'
<1> USE SizesAssumption DEF ShapesOK
<1>1. CASE UNCHANGED vars
    BY <1>1 DEF vars
<1>2. ASSUME NEW e \in Exports,
             Request(e) \/ Preflight(e) \/ PreflightFails(e) \/ Acquire(e)
      PROVE  ShapesOK'
    BY <1>2 DEF Request, Preflight, PreflightFails, AnswerJson, Acquire
<1>3. ASSUME NEW e \in Exports, EndOfData(e) \/ EndResponse(e) \/ Finish(e)
      PROVE  ShapesOK'
    BY <1>3 DEF EndOfData, EndResponse, Finish
<1>7. ASSUME NEW e \in Exports, Read(e)
      PROVE  ShapesOK'
    <2>1. left[e] - 1 \in Nat /\ buffered[e] + 1 \in 0..HighWater
        BY <1>7 DEF Read
    <2> QED
        BY <1>7, <2>1 DEF Read
<1>8. ASSUME NEW e \in Exports, Write(e)
      PROVE  ShapesOK'
    <2>1. sent[e] + 1 \in Nat /\ buffered[e] - 1 \in 0..HighWater
        BY <1>8 DEF Write
    <2> QED
        BY <1>8, <2>1 DEF Write
<1>4. ASSUME NEW e \in Exports, AcquireTimesOut(e) \/ StreamError(e)
      PROVE  ShapesOK'
    BY <1>4 DEF AcquireTimesOut, StreamError, Fail, Destroy
<1>5. ASSUME NEW e \in Exports, Catch(e)
      PROVE  ShapesOK'
    BY <1>5 DEF Catch, AnswerJson
<1>6. ASSUME NEW e \in Exports, Leave(e)
      PROVE  ShapesOK'
    BY <1>6 DEF Leave, Destroy
<1> QED
    BY <1>1, <1>2, <1>3, <1>4, <1>5, <1>6, <1>7, <1>8 DEF Next, Flow

\* What one export's handler does leaves the others as they were.
Same(e) ==
    UNCHANGED <<route[e], source[e], left[e], buffered[e], sent[e], ended[e],
                gone[e], json[e]>>

LEMMA SameKeeps ==
    ASSUME NEW e \in Exports, Same(e),
           NotBegun(e), Flowing(e), JsonEnds(e), Completed(e)
    PROVE  NotBegun(e)' /\ Flowing(e)' /\ JsonEnds(e)' /\ Completed(e)'
    BY DEF Same, NotBegun, Flowing, JsonEnds, Completed

LEMMA OthersSame ==
    ASSUME ShapesOK, NEW e \in Exports, NEW x \in Exports, x # e,
           \/ Request(x) \/ PreflightFails(x) \/ Flow(x) \/ StreamError(x)
           \/ Leave(x)
    PROVE  Same(e)
<1> USE DEF ShapesOK, Same
<1>1. CASE Request(x) \/ PreflightFails(x) \/ Preflight(x) \/ Acquire(x)
    BY <1>1 DEF Request, PreflightFails, AnswerJson, Preflight, Acquire
<1>2. CASE Read(x) \/ EndOfData(x) \/ Write(x) \/ EndResponse(x) \/ Finish(x)
    BY <1>2 DEF Read, EndOfData, Write, EndResponse, Finish
<1>3. CASE AcquireTimesOut(x) \/ StreamError(x)
    BY <1>3 DEF AcquireTimesOut, StreamError, Fail, Destroy
<1>4. CASE Catch(x)
    BY <1>4 DEF Catch, AnswerJson
<1>5. CASE Leave(x)
    BY <1>5 DEF Leave, Destroy
<1> QED
    BY <1>1, <1>2, <1>3, <1>4, <1>5 DEF Flow

\* A step of an export keeps its part of the invariant.
LEMMA OwnStep ==
    ASSUME ShapesOK, NEW e \in Exports,
           NotBegun(e), Flowing(e), JsonEnds(e), Completed(e),
           \/ Request(e) \/ PreflightFails(e) \/ Flow(e) \/ StreamError(e)
           \/ Leave(e)
    PROVE  NotBegun(e)' /\ Flowing(e)' /\ JsonEnds(e)' /\ Completed(e)'
<1> USE SizesAssumption DEF ShapesOK, NotBegun, Flowing, JsonEnds, Completed
<1>1. CASE Request(e)
    BY <1>1 DEF Request
<1>2. CASE PreflightFails(e)
    BY <1>2 DEF PreflightFails, AnswerJson
<1>3. CASE Preflight(e)
    BY <1>3 DEF Preflight
<1>4. CASE Acquire(e)
    BY <1>4 DEF Acquire
<1>5. CASE Read(e)
    BY <1>5 DEF Read, Holding
<1>6. CASE EndOfData(e)
    BY <1>6 DEF EndOfData, Holding
<1>7. CASE Write(e)
    BY <1>7 DEF Write
<1>8. CASE EndResponse(e)
    BY <1>8 DEF EndResponse
<1>9. CASE Finish(e)
    BY <1>9 DEF Finish
<1>10. CASE AcquireTimesOut(e)
    BY <1>10 DEF AcquireTimesOut, Fail, Destroy
<1>11. CASE StreamError(e)
    BY <1>11 DEF StreamError, Fail, Destroy
<1>12. CASE Catch(e)
    BY <1>12 DEF Catch, AnswerJson
<1>13. CASE Leave(e)
    BY <1>13 DEF Leave, Destroy
<1> QED
    BY <1>1, <1>2, <1>3, <1>4, <1>5, <1>6, <1>7, <1>8, <1>9, <1>10, <1>11,
       <1>12, <1>13 DEF Flow

LEMMA StreamStep ==
    ASSUME StreamInv, [Next]_vars
    PROVE  StreamInv'
<1>1. ShapesOK'
    BY ShapesStep DEF StreamInv
<1>2. ASSUME NEW e \in Exports
      PROVE  NotBegun(e)' /\ Flowing(e)' /\ JsonEnds(e)' /\ Completed(e)'
    <2>1. NotBegun(e) /\ Flowing(e) /\ JsonEnds(e) /\ Completed(e)
        BY DEF StreamInv
    <2>2. CASE UNCHANGED vars
        BY <2>1, <2>2, SameKeeps DEF Same, vars
    <2>3. ASSUME NEW x \in Exports,
                 \/ Request(x) \/ PreflightFails(x) \/ Flow(x)
                 \/ StreamError(x) \/ Leave(x)
          PROVE  NotBegun(e)' /\ Flowing(e)' /\ JsonEnds(e)' /\ Completed(e)'
        <3>1. CASE x = e
            BY <2>1, <2>3, <3>1, OwnStep DEF StreamInv
        <3>2. CASE x # e
            BY <2>1, <2>3, <3>2, OthersSame, SameKeeps DEF StreamInv
        <3> QED
            BY <3>1, <3>2
    <2> QED
        BY <2>2, <2>3 DEF Next
<1> QED
    BY <1>1, <1>2 DEF StreamInv

LEMMA StreamInvariant == Spec => []StreamInv
    BY StreamInit, StreamStep, PTL DEF Spec

\* A client is sent rows or a JSON error, never the one after the other, whenever
\* the error comes.
THEOREM NeverBoth == Spec => []JsonBeforeData
<1>1. StreamInv => JsonBeforeData
    BY DEF StreamInv, JsonEnds, JsonBeforeData
<1> QED
    BY <1>1, StreamInvariant, PTL

\* An export that is reported completed has sent every row of the filter.
THEOREM CompletedSentAll == Spec => []CompletedIsWhole
<1>1. StreamInv => CompletedIsWhole
    BY DEF StreamInv, Completed, CompletedIsWhole
<1> QED
    BY <1>1, StreamInvariant, PTL

=============================================================================
