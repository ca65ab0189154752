--------------------------- MODULE QueryApiProofs ---------------------------
(***************************************************************************)
(* Theorems about QueryApi: what a walk with the cursor delivers, what the   *)
(* rate limiter admits, what a shutdown cuts off, what an export selects,    *)
(* and that the parts of a page or a dashboard agree, for tables, filters,   *)
(* pages, windows and limits of every size.                                  *)
(***************************************************************************)
EXTENDS QueryApi, FiniteSetTheorems, WellFoundedInduction, TLAPS

(***************************************************************************)
(* The steps, sorted by what they leave alone                              *)
(***************************************************************************)

TableStep ==
    \/ \E id \in Ids : Import(id) \/ Delete(id)
    \/ \E job \in DOMAIN UploadDay : DeleteJob(job) \/ \E row \in JobRows : UpdateJob(job, row)
    \/ \E ids \in SUBSET Ids, use \in Uses : RecordUsage(ids, use)

WalkStep ==
    \/ \E filter \in WalkFilters, withId \in BOOLEAN : Begin(filter, withId)
    \/ AskOn \/ Limit \/ CountStatement \/ RowsStatement

ReaderStep ==
    \/ \E form \in PageForms :
        \/ Preview(form)
        \/ \E page \in 1 .. TotalPages(Cardinality(Ids)) : AskPage(form, page)
    \/ AskInsights \/ UseData \/ Close
    \/ \E statement \in reader.todo : Statement(statement)

\* A request ends without an answer: its client is gone, or the process.
BreaksOff == (\E client \in {"walk", "reader"} : HandlerEnds(client)) \/ Quit \/ Kill

HangsUp == \E client \in {"walk", "reader"} : HangUp(client)

LEMMA NextSorted ==
    ASSUME Next
    PROVE  \/ TableStep \/ WalkStep \/ ReaderStep \/ Tick \/ Signal \/ DestroyPool
           \/ HangsUp \/ BreaksOff
BY DEF Next, TableStep, WalkStep, ReaderStep, HangsUp, BreaksOff

LEMMA HangsUpKeeps ==
    ASSUME HangsUp
    PROVE  UNCHANGED <<tables, walk, reader, limiter, server, cut>>
BY DEF HangsUp, HangUp

LEMMA BreaksOffKeeps ==
    ASSUME BreaksOff \/ Signal
    PROVE  /\ UNCHANGED <<tables, limiter>>
           /\ walk' \in {walk, NoWalk} /\ reader' \in {reader, NoReader}
BY DEF BreaksOff, HandlerEnds, Quit, Kill, Signal, Exit

\* The tables change under the requests, whose stages and statements stay.
LEMMA TableKeeps ==
    ASSUME TableStep
    PROVE  TablesChange
BY DEF TableStep, Import, Delete, RecordUsage, UpdateJob, DeleteJob

LEMMA ReaderKeeps ==
    ASSUME ReaderStep
    PROVE  UNCHANGED <<tables, walk, limiter, process, events>>
BY DEF ReaderStep, Preview, AskPage, AskInsights, Ask, UseData, Close, Statement

LEMMA WalkKeeps ==
    ASSUME WalkStep
    PROVE  UNCHANGED <<tables, reader, process, events>>
BY DEF WalkStep, Begin, AskOn, Limit, CountStatement, RowsStatement

(***************************************************************************)
(* The records of the two clients                                          *)
(***************************************************************************)

WalkShape ==
    walk = [stage |-> walk.stage, filter |-> walk.filter, withId |-> walk.withId,
            cursor |-> walk.cursor, got |-> walk.got, again |-> walk.again,
            throughout |-> walk.throughout]

ReaderShape ==
    reader = [kind |-> reader.kind, filter |-> reader.filter, page |-> reader.page,
              todo |-> reader.todo, result |-> reader.result, same |-> reader.same]

Shapes == WalkShape /\ ReaderShape

LEMMA ShapesInvariant == Spec => []Shapes
<1>1. Init => Shapes
  BY DEF Init, Shapes, WalkShape, ReaderShape, NoWalk, NoReader
<1>2. Shapes /\ [Next]_vars => Shapes'
  <2> SUFFICES ASSUME Shapes, [Next]_vars PROVE Shapes'
    OBVIOUS
  <2> USE DEF Shapes
  <2>1. CASE UNCHANGED vars
    BY <2>1 DEF vars, WalkShape, ReaderShape
  <2>2. CASE TableStep
    BY <2>2, TableKeeps DEF TablesChange, WalkShape, ReaderShape
  <2>3. CASE WalkStep
    <3>1. ReaderShape'
      BY <2>3, WalkKeeps DEF ReaderShape
    <3>2. WalkShape'
      BY <2>3 DEF WalkStep, Begin, AskOn, Limit, CountStatement, RowsStatement,
         Fetched, NoWalk, WalkShape
    <3> QED BY <3>1, <3>2
  <2>4. CASE ReaderStep
    <3>1. WalkShape'
      BY <2>4, ReaderKeeps DEF WalkShape
    <3>2. ReaderShape'
      BY <2>4 DEF ReaderStep, Preview, AskPage, AskInsights, Ask, UseData,
         Close, Statement, NoReader, ReaderShape
    <3> QED BY <3>1, <3>2
  <2>5. CASE Tick \/ DestroyPool
    BY <2>5 DEF Tick, DestroyPool, WalkShape, ReaderShape
  <2>6. CASE Signal \/ BreaksOff
    BY <2>6, BreaksOffKeeps DEF NoWalk, NoReader, WalkShape, ReaderShape
  <2>7. CASE HangsUp
    BY <2>7, HangsUpKeeps DEF WalkShape, ReaderShape
  <2> QED
    BY <2>1, <2>2, <2>3, <2>4, <2>5, <2>6, <2>7, NextSorted
<1> QED BY <1>1, <1>2, PTL DEF Spec

(***************************************************************************)
(* The shutdown                                                            *)
(***************************************************************************)

\* An orderly shutdown has answered every client that stayed connected; only a second
\* signal or PM2's kill cuts one off.
THEOREM GracefulExit == Spec => []GracefulExitCutsNoOne
<1>1. Init => GracefulExitCutsNoOne
  BY DEF Init, GracefulExitCutsNoOne
<1>2. Shapes /\ GracefulExitCutsNoOne /\ [Next]_vars => GracefulExitCutsNoOne'
  <2> SUFFICES ASSUME Shapes, GracefulExitCutsNoOne, [Next]_vars
               PROVE  GracefulExitCutsNoOne'
    OBVIOUS
  <2>1. ASSUME UNCHANGED <<server, cut>>, Connected' \subseteq Connected
        PROVE  GracefulExitCutsNoOne'
    BY <2>1 DEF GracefulExitCutsNoOne
  <2>2. CASE UNCHANGED vars
    BY <2>1, <2>2 DEF vars, Connected, AtWork, process
  <2>3. CASE TableStep
    <3>1. UNCHANGED <<server, left, cut>>
      BY <2>3, TableKeeps DEF TablesChange, process
    <3>2. walk'.stage = walk.stage
      BY <2>3, TableKeeps DEF TablesChange, Shapes, WalkShape
    <3>3. reader'.todo = reader.todo
      BY <2>3, TableKeeps DEF TablesChange, Shapes, ReaderShape
    <3> QED BY <2>1, <3>1, <3>2, <3>3 DEF Connected, AtWork
  <2>4. CASE WalkStep
    <3>1. UNCHANGED <<server, left, cut, reader>>
      BY <2>4, WalkKeeps DEF process
    <3>2. CASE server \in {"up", "closing"}
      BY <3>1, <3>2 DEF GracefulExitCutsNoOne
    <3>3. CASE walk.stage \in {"limit", "count", "rows"}
      <4>1. "walk" \in AtWork BY <3>3 DEF AtWork
      <4>2. AtWork' \subseteq AtWork BY <3>1, <4>1 DEF AtWork
      <4> QED BY <2>1, <3>1, <4>2 DEF Connected
    <3>4. server \in {"up", "closing"} \/ walk.stage \in {"limit", "count", "rows"}
      BY <2>4 DEF WalkStep, Begin, AskOn, Limit, CountStatement, RowsStatement
    <3> QED BY <3>2, <3>3, <3>4
  <2>5. CASE ReaderStep
    <3>1. UNCHANGED <<server, left, cut, walk>>
      BY <2>5, ReaderKeeps DEF process
    <3>2. CASE server = "up"
      BY <3>1, <3>2 DEF GracefulExitCutsNoOne
    <3>3. CASE reader'.todo = {} \/ reader.todo # {}
      <4>1. AtWork' \subseteq AtWork BY <3>1, <3>3 DEF AtWork
      <4> QED BY <2>1, <3>1, <4>1 DEF Connected
    <3>4. CASE UseData \/ Close
      BY <3>3, <3>4 DEF UseData, Close, NoReader, Shapes, ReaderShape
    <3>5. CASE ~(UseData \/ Close)
      <4>1. server = "up" \/ reader.todo # {}
        BY <2>5, <3>5 DEF ReaderStep, Preview, AskPage, AskInsights, Ask, Statement
      <4> QED BY <3>2, <3>3, <4>1
    <3> QED BY <3>4, <3>5
  <2>6. CASE Tick
    BY <2>1, <2>6 DEF Tick, Connected, AtWork, process
  <2>7. CASE HangsUp
    <3>1. UNCHANGED <<server, cut, walk, reader>> /\ left \subseteq left'
      BY <2>7 DEF HangsUp, HangUp
    <3> QED BY <2>1, <3>1 DEF Connected, AtWork
  <2>8. ASSUME NEW client \in {"walk", "reader"}, HandlerEnds(client)
        PROVE  GracefulExitCutsNoOne'
    <3>1. UNCHANGED <<server, cut>> /\ left' = left \ {client}
      BY <2>8 DEF HandlerEnds
    <3>2. client \notin AtWork' /\ AtWork' \subseteq AtWork
      BY <2>8 DEF HandlerEnds, AtWork, NoWalk, NoReader
    <3> QED BY <2>1, <3>1, <3>2 DEF Connected
  <2>9. ASSUME NEW how, Exit(how),
               \/ how \in {"aborted", "killed"}
               \/ server = "destroyed"
        PROVE  GracefulExitCutsNoOne'
    <3>1. Connected' = {}
      BY <2>9 DEF Exit, Connected, AtWork, NoWalk, NoReader
    <3>2. cut' => Connected # {}
      BY <2>9 DEF Exit
    <3> QED BY <2>9, <3>1, <3>2 DEF Exit, GracefulExitCutsNoOne
  <2>10. CASE Signal \/ Quit \/ Kill
    <3>1. CASE \E how : Exit(how) /\ (how \in {"aborted", "killed"} \/ server = "destroyed")
      BY <2>9, <3>1
    <3>2. CASE Signal /\ server = "up"
      BY <3>2 DEF Signal, GracefulExitCutsNoOne
    <3>3. Signal /\ server # "up" => Exit("aborted")
      BY DEF Signal
    <3>4. Kill => Exit("killed")
      BY DEF Kill
    <3>5. Quit => server = "destroyed" /\ \E code : Exit(code)
      BY DEF Quit
    <3> QED BY <2>10, <3>1, <3>2, <3>3, <3>4, <3>5
  <2>11. CASE DestroyPool
    BY <2>11 DEF DestroyPool, Connected, AtWork, GracefulExitCutsNoOne
  <2> QED
    BY <2>2, <2>3, <2>4, <2>5, <2>6, <2>7, <2>8, <2>10, <2>11, NextSorted DEF BreaksOff
<1> QED BY <1>1, <1>2, ShapesInvariant, PTL DEF Spec

(***************************************************************************)
(* The limiter                                                             *)
(***************************************************************************)

Requests == [age : 1 .. Window, nth : Nat]

\* The requests of the window that is open, which began with the oldest of them,
\* and those of the windows before it.
Begun == Window - window.left + 1
Current == {request \in admitted : window.left > 0 /\ request.age <= Begun}
Earlier == admitted \ Current

WindowType ==
    /\ window = [hits |-> window.hits, left |-> window.left]
    /\ window.hits \in Nat /\ window.left \in 0 .. Window
    /\ admitted \in SUBSET Requests /\ IsFiniteSet(admitted)

\* Of the windows before the open one only the last still counts, and its first
\* request has become too old.
LimiterInv ==
    /\ WindowType
    /\ \A request \in Newest : request.nth <= Cardinality(Newest)
    /\ window.left = 0 => Newest = {}
    /\ Cardinality(Earlier) <= MaxHits - 1
    /\ window.left > 0 =>
        /\ Cardinality(Current) <= window.hits /\ Cardinality(Current) <= MaxHits
        /\ \E first \in Current : first.age = Begun

LEMMA Sizes == PageSize \in Nat \ {0} /\ MaxHits \in Nat \ {0} /\ Window \in Nat \ {0}
BY SizesAssumption

\* Requests of the last ticks grow older, those beyond the window are forgotten.
Young(requests) == {recent \in requests : recent.age < Window}
Aged(requests) == {[request EXCEPT !.age = @ + 1] : request \in Young(requests)}

LEMMA AgedBound ==
    ASSUME NEW requests, IsFiniteSet(requests)
    PROVE  /\ IsFiniteSet(Aged(requests))
           /\ Cardinality(Aged(requests)) \in Nat
           /\ Cardinality(Aged(requests)) <= Cardinality(Young(requests))
           /\ Cardinality(Young(requests)) <= Cardinality(requests)
           /\ Cardinality(Young(requests)) \in Nat
           /\ Cardinality(requests) \in Nat
<1> DEFINE f == [request \in Young(requests) |-> [request EXCEPT !.age = @ + 1]]
<1>1. IsFiniteSet(Young(requests)) /\ Cardinality(Young(requests)) <= Cardinality(requests)
  <2>1. Young(requests) \in SUBSET requests
    BY DEF Young
  <2> QED BY <2>1, FS_Subset
<1>2. f \in Surjection(Young(requests), Aged(requests))
  BY DEF Surjection, Aged
<1> HIDE DEF f
<1>3. /\ IsFiniteSet(Aged(requests))
      /\ Cardinality(Aged(requests)) <= Cardinality(Young(requests))
  BY <1>1, <1>2, FS_Surjection
<1> QED BY <1>1, <1>3, FS_CardinalityType

LEMMA AgedType ==
    ASSUME NEW requests \in SUBSET Requests
    PROVE  /\ Aged(requests) \in SUBSET Requests
           /\ \A request \in Aged(requests) : request.age >= 2
           /\ \A request \in Young(requests) :
                [request EXCEPT !.age = @ + 1] \in Aged(requests)
BY Sizes DEF Aged, Young, Requests

\* The parts of what was admitted are finite.
LEMMA PartsFinite ==
    ASSUME WindowType
    PROVE  /\ IsFiniteSet(Current) /\ IsFiniteSet(Earlier) /\ IsFiniteSet(Newest)
           /\ Cardinality(Current) \in Nat /\ Cardinality(Earlier) \in Nat
           /\ Cardinality(Newest) \in Nat
           /\ Cardinality(admitted) <= Cardinality(Current) + Cardinality(Earlier)
<1>1. /\ Current \in SUBSET admitted /\ Earlier \in SUBSET admitted
      /\ Newest \in SUBSET admitted /\ Current \union Earlier = admitted
  BY DEF Current, Earlier, Newest
<1>2. IsFiniteSet(Current) /\ IsFiniteSet(Earlier) /\ IsFiniteSet(Newest)
  BY <1>1, FS_Subset DEF WindowType
<1>3. /\ Cardinality(Current) \in Nat /\ Cardinality(Earlier) \in Nat
      /\ Cardinality(Newest) \in Nat
      /\ Cardinality(Current \cap Earlier) \in Nat
  BY <1>2, FS_CardinalityType, FS_Intersection
<1>4. Cardinality(Current \union Earlier)
        = Cardinality(Current) + Cardinality(Earlier) - Cardinality(Current \cap Earlier)
  BY <1>2, FS_Union
<1>5. Cardinality(admitted) = Cardinality(Current \union Earlier)
  BY <1>1, Zenon
<1> QED BY <1>2, <1>3, <1>4, <1>5

LEMMA LimitKeeps ==
    ASSUME LimiterInv, Limit
    PROVE  LimiterInv'
<1> DEFINE new == [age |-> 1, nth |-> Cardinality(Newest) + 1]
<1>1. /\ window.hits \in Nat /\ window.left \in 0 .. Window
      /\ IsFiniteSet(admitted) /\ admitted \in SUBSET Requests
      /\ Window \in Nat \ {0} /\ MaxHits \in Nat \ {0}
      /\ WindowType
  BY Sizes DEF LimiterInv, WindowType
<1>2. /\ IsFiniteSet(Current) /\ IsFiniteSet(Earlier) /\ IsFiniteSet(Newest)
      /\ Cardinality(Current) \in Nat /\ Cardinality(Earlier) \in Nat
      /\ Cardinality(Newest) \in Nat
  BY <1>1, PartsFinite
<1>3. new \notin admitted /\ new \in Requests
  <2>1. new \notin Newest
    BY <1>2 DEF LimiterInv
  <2> QED BY <1>1, <1>2, <2>1 DEF Newest, Requests
<1>4. Cardinality(Newest \union {new}) = Cardinality(Newest) + 1
  <2>1. new \notin Newest
    BY <1>3 DEF Newest
  <2> HIDE DEF new
  <2> QED BY <1>2, <2>1, FS_AddElement
<1>5. CASE window.left = 0
  <2>1. window' = [hits |-> 1, left |-> Window] /\ admitted' = admitted \union {new}
    BY <1>1, <1>5 DEF Limit, Count
  <2>2. Newest' = Newest \union {new}
    BY <2>1 DEF Newest
  <2>3. Current' = {new} /\ Earlier' = Earlier
    <3>1. Begun' = 1 /\ window'.left > 0
      BY <1>1, <2>1 DEF Begun
    <3>2. \A request \in admitted : request.age \in 1 .. Window /\ request.age # 1
      BY <1>1, <1>5 DEF LimiterInv, Newest, Requests
    <3>3. Current' = {new}
      BY <1>1, <2>1, <3>1, <3>2 DEF Current
    <3>4. Earlier = admitted
      BY <1>5 DEF Earlier, Current
    <3>5. Earlier' = admitted' \ Current'
      BY DEF Earlier
    <3> QED BY <1>3, <2>1, <3>3, <3>4, <3>5
  <2>4. WindowType'
    <3>1. IsFiniteSet(admitted')
      BY <1>1, <2>1, FS_AddElement
    <3> QED BY <1>1, <1>3, <2>1, <3>1 DEF WindowType
  <2>5. Cardinality(Current') = 1 /\ Cardinality(Earlier') = Cardinality(Earlier)
    BY <2>3, FS_Singleton, Zenon
  <2>6. Cardinality(Newest') = Cardinality(Newest) + 1
    BY <1>4, <2>2, Zenon
  <2>7. \A request \in Newest' : request.nth <= Cardinality(Newest')
    BY <1>1, <1>2, <2>2, <2>6 DEF LimiterInv, Newest, Requests
  <2>8. \E first \in Current' : first.age = Begun'
    BY <1>1, <2>1, <2>3 DEF Begun
  <2> HIDE DEF new
  <2> QED
    BY <1>1, <1>2, <2>1, <2>4, <2>5, <2>7, <2>8 DEF LimiterInv
<1>6. CASE window.left > 0 /\ window.hits < MaxHits
  <2>1. /\ window' = [window EXCEPT !.hits = window.hits + 1]
        /\ window'.hits = window.hits + 1 /\ window'.left = window.left
        /\ admitted' = admitted \union {new}
    BY <1>1, <1>6 DEF Limit, Count, WindowType
  <2>2. Newest' = Newest \union {new}
    BY <2>1 DEF Newest
  <2>3. Current' = Current \union {new} /\ Earlier' = Earlier /\ new \notin Current
    <3>1. Begun' = Begun /\ 1 <= Begun
      BY <1>1, <1>6, <2>1 DEF Begun
    <3>2. Current' = Current \union {new}
      BY <1>6, <2>1, <3>1 DEF Current
    <3>3. new \notin Current
      BY <1>3 DEF Current
    <3>4. Earlier' = admitted' \ Current'
      BY DEF Earlier
    <3> QED BY <1>3, <2>1, <3>2, <3>3, <3>4 DEF Earlier
  <2>4. WindowType'
    <3>1. IsFiniteSet(admitted')
      BY <1>1, <2>1, FS_AddElement
    <3> QED BY <1>1, <1>3, <2>1, <3>1 DEF WindowType
  <2>5. /\ Cardinality(Current') = Cardinality(Current) + 1
        /\ Cardinality(Earlier') = Cardinality(Earlier)
    <3>1. Cardinality(Current \union {new}) = Cardinality(Current) + 1
      <4> HIDE DEF new
      <4> QED BY <1>2, <2>3, FS_AddElement
    <3> QED BY <2>3, <3>1, Zenon
  <2>6. Cardinality(Newest') = Cardinality(Newest) + 1
    BY <1>4, <2>2, Zenon
  <2>7. \A request \in Newest' : request.nth <= Cardinality(Newest')
    BY <1>1, <1>2, <2>2, <2>6 DEF LimiterInv, Newest, Requests
  <2>8. \E first \in Current' : first.age = Begun'
    <3>1. Begun' = Begun
      BY <2>1 DEF Begun
    <3> QED BY <1>6, <2>3, <3>1 DEF LimiterInv
  <2> HIDE DEF new
  <2> QED
    BY <1>1, <1>2, <1>6, <2>1, <2>4, <2>5, <2>7, <2>8 DEF LimiterInv
<1>7. CASE window.left > 0 /\ window.hits >= MaxHits
  <2>1. /\ window' = [hits |-> window'.hits, left |-> window'.left]
        /\ window'.hits \in Nat /\ window'.hits >= window.hits
        /\ window'.left = window.left
        /\ admitted' = admitted
    BY <1>1, <1>7 DEF Limit, Count, WindowType
  <2>2. Newest' = Newest /\ Begun' = Begun
    BY <2>1 DEF Newest, Begun
  <2>3. Current' = Current
    BY <2>1, <2>2 DEF Current
  <2>4. Earlier' = Earlier
    BY <2>1, <2>3 DEF Earlier
  <2>5. WindowType'
    BY <1>1, <2>1 DEF WindowType
  <2>6. /\ Cardinality(Current') = Cardinality(Current)
        /\ Cardinality(Earlier') = Cardinality(Earlier)
        /\ Cardinality(Newest') = Cardinality(Newest)
    BY <2>2, <2>3, <2>4, Zenon
  <2> QED
    BY <1>1, <1>2, <1>7, <2>1, <2>2, <2>3, <2>5, <2>6 DEF LimiterInv
<1> QED BY <1>1, <1>5, <1>6, <1>7

LEMMA TickKeeps ==
    ASSUME LimiterInv, Tick
    PROVE  LimiterInv'
<1>1. /\ window.hits \in Nat /\ window.left \in 0 .. Window
      /\ IsFiniteSet(admitted) /\ admitted \in SUBSET Requests
      /\ Window \in Nat \ {0} /\ MaxHits \in Nat \ {0}
      /\ WindowType
  BY Sizes DEF LimiterInv, WindowType
<1>2. /\ IsFiniteSet(Current) /\ IsFiniteSet(Earlier)
      /\ Current \in SUBSET admitted /\ Earlier \in SUBSET admitted
      /\ Cardinality(Current) \in Nat /\ Cardinality(Earlier) \in Nat
  BY <1>1, PartsFinite DEF Current, Earlier
<1>3. admitted' = Aged(admitted)
  BY DEF Tick, Aged, Young
<1>4. /\ window' = [hits |-> window'.hits, left |-> window'.left]
      /\ window'.hits = IF window.left <= 1 THEN 0 ELSE window.hits
      /\ window'.left = IF window.left = 0 THEN 0 ELSE window.left - 1
  BY <1>1 DEF Tick, WindowType
<1>5. WindowType'
  <2>1. IsFiniteSet(admitted') /\ admitted' \in SUBSET Requests
    BY <1>1, <1>3, AgedBound, AgedType
  <2> QED BY <1>1, <1>4, <2>1 DEF WindowType
<1>6. Newest' = {}
  <2>1. \A request \in admitted' : request.age >= 2
    BY <1>1, <1>3, AgedType
  <2> QED BY <2>1 DEF Newest
<1>7. CASE window.left = 0
  <2>1. Current' = {} /\ Earlier' = Aged(admitted) /\ Earlier = admitted
    <3>1. Current' = {} /\ Current = {}
      BY <1>4, <1>7 DEF Current
    <3> QED BY <1>3, <3>1 DEF Earlier
  <2>2. /\ Cardinality(Aged(admitted)) \in Nat
        /\ Cardinality(Aged(admitted)) <= Cardinality(admitted)
    BY <1>1, AgedBound, FS_CardinalityType
  <2>3. /\ Cardinality(Earlier') = Cardinality(Aged(admitted))
        /\ Cardinality(Earlier) = Cardinality(admitted)
    BY <2>1, Zenon
  <2> QED
    BY <1>1, <1>2, <1>4, <1>5, <1>6, <1>7, <2>2, <2>3 DEF LimiterInv
<1>8. CASE window.left = 1
  <2>1. Current = admitted
    BY <1>1, <1>8 DEF Current, Begun, Requests
  <2>2. PICK first \in admitted : first.age = Window
    BY <1>1, <1>8 DEF LimiterInv, Begun, Current
  <2>3. Young(admitted) \subseteq admitted \ {first}
    BY <1>1, <2>2 DEF Young
  <2>4. Cardinality(Young(admitted)) <= Cardinality(admitted) - 1
    <3>1. /\ IsFiniteSet(admitted \ {first})
          /\ Cardinality(admitted \ {first}) = Cardinality(admitted) - 1
      BY <1>1, <2>2, FS_RemoveElement
    <3> QED BY <2>3, <3>1, FS_Subset
  <2>5. Current' = {} /\ Earlier' = Aged(admitted)
    <3>1. Current' = {}
      BY <1>4, <1>8 DEF Current
    <3> QED BY <1>3, <3>1 DEF Earlier
  <2>6. /\ Cardinality(Aged(admitted)) \in Nat
        /\ Cardinality(Aged(admitted)) <= Cardinality(Young(admitted))
        /\ Cardinality(Young(admitted)) \in Nat /\ Cardinality(admitted) \in Nat
    BY <1>1, AgedBound
  <2>7. /\ Cardinality(Earlier') = Cardinality(Aged(admitted))
        /\ Cardinality(Current) = Cardinality(admitted)
    BY <2>1, <2>5, Zenon
  <2>8. Cardinality(Current) <= MaxHits
    BY <1>8 DEF LimiterInv
  <2> QED
    BY <1>1, <1>4, <1>5, <1>6, <1>8, <2>4, <2>6, <2>7, <2>8 DEF LimiterInv
<1>9. CASE window.left > 1
  <2>1. Begun' = Begun + 1 /\ window'.left > 0 /\ Begun \in 1 .. Window - 1
    BY <1>1, <1>4, <1>9 DEF Begun
  <2>2. Current' = Aged(Current)
    <3>1. \A request \in admitted : request \in Current <=> request.age <= Begun
      BY <1>1, <1>9 DEF Current
    <3>2. Current' = {request \in Aged(admitted) : request.age <= Begun + 1}
      BY <1>3, <2>1 DEF Current
    <3>3. \A request \in Young(admitted) :
              [request EXCEPT !.age = @ + 1].age = request.age + 1
              /\ request.age \in Nat
      BY <1>1 DEF Young, Requests
    <3>4. Young(Current) = {request \in Young(admitted) : request.age <= Begun}
      BY <1>2, <3>1 DEF Young
    <3>5. ASSUME NEW old
          PROVE  old \in Current' <=> old \in Aged(Current)
      <4>1. ASSUME old \in Aged(admitted), old.age <= Begun + 1
            PROVE  old \in Aged(Current)
        <5>1. PICK request \in Young(admitted) : old = [request EXCEPT !.age = @ + 1]
          BY <4>1 DEF Aged
        <5>2. request.age <= Begun
          BY <2>1, <3>3, <4>1, <5>1
        <5> QED BY <3>4, <5>1, <5>2 DEF Aged
      <4>2. ASSUME old \in Aged(Current)
            PROVE  old \in Aged(admitted) /\ old.age <= Begun + 1
        <5>1. PICK request \in Young(Current) : old = [request EXCEPT !.age = @ + 1]
          BY <4>2 DEF Aged
        <5> QED BY <2>1, <3>3, <3>4, <5>1 DEF Aged
      <4> QED BY <3>2, <4>1, <4>2
    <3> QED BY <3>5
  <2>3. Earlier' \subseteq Aged(Earlier)
    <3>1. Young(admitted) = Young(Current) \union Young(Earlier)
      BY DEF Young, Current, Earlier
    <3>2. Aged(admitted) = Aged(Current) \union Aged(Earlier)
      BY <3>1 DEF Aged
    <3> QED BY <1>3, <2>2, <3>2 DEF Earlier
  <2>4. /\ Cardinality(Current') \in Nat
        /\ Cardinality(Current') <= Cardinality(Current)
    <3>1. /\ Cardinality(Aged(Current)) \in Nat
          /\ Cardinality(Aged(Current)) <= Cardinality(Young(Current))
          /\ Cardinality(Young(Current)) <= Cardinality(Current)
          /\ Cardinality(Young(Current)) \in Nat
      BY <1>2, AgedBound
    <3>2. Cardinality(Current') = Cardinality(Aged(Current))
      BY <2>2, Zenon
    <3> QED BY <1>2, <3>1, <3>2
  <2>5. /\ Cardinality(Earlier') \in Nat
        /\ Cardinality(Earlier') <= Cardinality(Earlier)
    <3>1. /\ IsFiniteSet(Aged(Earlier)) /\ Cardinality(Aged(Earlier)) \in Nat
          /\ Cardinality(Aged(Earlier)) <= Cardinality(Young(Earlier))
          /\ Cardinality(Young(Earlier)) <= Cardinality(Earlier)
          /\ Cardinality(Young(Earlier)) \in Nat
      BY <1>2, AgedBound
    <3>2. /\ IsFiniteSet(Earlier')
          /\ Cardinality(Earlier') <= Cardinality(Aged(Earlier))
      BY <2>3, <3>1, FS_Subset
    <3>3. Cardinality(Earlier') \in Nat
      BY <3>2, FS_CardinalityType
    <3> QED BY <1>2, <3>1, <3>2, <3>3
  <2>6. \E first \in Current' : first.age = Begun'
    <3>1. PICK first \in Current : first.age = Begun
      BY <1>1, <1>9 DEF LimiterInv
    <3>2. first \in Young(Current)
      BY <1>1, <2>1, <3>1 DEF Young
    <3>3. [first EXCEPT !.age = @ + 1] \in Aged(Current)
      BY <3>2 DEF Aged
    <3>4. [first EXCEPT !.age = @ + 1].age = Begun + 1
      BY <1>1, <1>2, <3>1 DEF Requests
    <3> QED BY <2>1, <2>2, <3>3, <3>4
  <2> QED
    BY <1>1, <1>2, <1>4, <1>5, <1>6, <1>9, <2>4, <2>5, <2>6 DEF LimiterInv
<1> QED BY <1>1, <1>7, <1>8, <1>9

\* In no stretch of the length of a window are more than twice the limit less one
\* requests admitted, for every limit and window.
THEOREM LimiterBound == Spec => []LimitHolds
<1>1. Init => LimiterInv
  <2> SUFFICES ASSUME Init PROVE LimiterInv
    OBVIOUS
  <2>1. Newest = {} /\ Current = {} /\ Earlier = {}
    BY DEF Init, Newest, Current, Earlier
  <2>2. Cardinality(Earlier) = 0
    BY <2>1, FS_EmptySet, Zenon
  <2>3. WindowType
    BY Sizes, FS_EmptySet DEF Init, WindowType
  <2> QED BY Sizes, <2>1, <2>2, <2>3 DEF Init, LimiterInv
<1>2. LimiterInv /\ [Next]_vars => LimiterInv'
  <2> SUFFICES ASSUME LimiterInv, [Next]_vars PROVE LimiterInv'
    OBVIOUS
  <2>1. ASSUME UNCHANGED limiter
        PROVE  LimiterInv'
    BY <2>1 DEF LimiterInv, WindowType, Newest, Current, Earlier, Begun, limiter
  <2>2. CASE UNCHANGED vars
    BY <2>1, <2>2 DEF vars
  <2>3. CASE TableStep
    BY <2>1, <2>3, TableKeeps DEF TablesChange
  <2>4. CASE WalkStep
    BY <2>1, <2>4, LimitKeeps DEF WalkStep, Begin, AskOn, CountStatement,
       RowsStatement
  <2>5. CASE ReaderStep
    BY <2>1, <2>5, ReaderKeeps
  <2>6. CASE Tick
    BY <2>6, TickKeeps
  <2>7. CASE Signal \/ DestroyPool \/ HangsUp \/ BreaksOff
    BY <2>1, <2>7, HangsUpKeeps, BreaksOffKeeps DEF DestroyPool
  <2> QED
    BY <2>2, <2>3, <2>4, <2>5, <2>6, <2>7, NextSorted
<1>3. LimiterInv => LimitHolds
  <2> SUFFICES ASSUME LimiterInv PROVE LimitHolds
    OBVIOUS
  <2>1. /\ Cardinality(Current) \in Nat /\ Cardinality(Earlier) \in Nat
        /\ Cardinality(admitted) <= Cardinality(Current) + Cardinality(Earlier)
        /\ Cardinality(admitted) \in Nat
    BY PartsFinite, FS_CardinalityType DEF LimiterInv, WindowType
  <2>2. Cardinality(Current) <= MaxHits
    <3>1. window.left = 0 => Current = {}
      BY DEF Current
    <3>2. window.left = 0 => Cardinality(Current) = 0
      BY <3>1, FS_EmptySet, Zenon
    <3> QED BY <3>2, Sizes DEF LimiterInv, WindowType
  <2> QED BY <2>1, <2>2, Sizes DEF LimitHolds, LimiterInv
<1> QED BY <1>1, <1>2, <1>3, PTL DEF Spec

(***************************************************************************)
(* Finite sets of numbers                                                  *)
(***************************************************************************)

\* A set of numbers has a least one, a finite set a greatest.
LEMMA LeastNumber ==
    ASSUME NEW S \in SUBSET Nat, S # {}
    PROVE  \E least \in S : \A n \in S : least <= n
<1> DEFINE less == {pair \in Nat \X Nat : pair[1] < pair[2]}
<1>1. IsWellFoundedOn(less, Nat)
  BY NatLessThanWellFounded DEF OpToRel
<1>2. PICK least \in S : \A n \in S : <<n, least>> \notin less
  <2> HIDE DEF less
  <2> QED BY <1>1, WFMin
<1>3. ASSUME NEW n \in S
      PROVE  least <= n
  <2>1. n \in Nat /\ least \in Nat
    OBVIOUS
  <2>2. n < least => <<n, least>> \in less
    BY <2>1
  <2> QED BY <1>2, <2>1, <2>2
<1> QED BY <1>3

LEMMA FiniteBounded ==
    ASSUME NEW S \in SUBSET Nat, IsFiniteSet(S)
    PROVE  \E bound \in Nat : \A n \in S : n <= bound
<1> DEFINE size == Cardinality(S)
<1>1. size \in Nat /\ ExistsBijection(1 .. size, S)
  BY FS_CardinalityType
<1> HIDE DEF size
<1>2. PICK f \in [1 .. size -> S] : \A n \in S : \E i \in 1 .. size : f[i] = n
  BY <1>1 DEF ExistsBijection, Bijection, Surjection
<1> DEFINE unbounded == {n \in 0 .. size :
                            ~ \E bound \in Nat : \A i \in 1 .. n : f[i] <= bound}
<1>3. unbounded = {}
  <2> SUFFICES ASSUME unbounded # {} PROVE FALSE
    OBVIOUS
  <2>1. PICK n \in unbounded : \A m \in unbounded : n <= m
    <3>1. unbounded \in SUBSET Nat
      OBVIOUS
    <3> HIDE DEF unbounded
    <3> QED BY <3>1, LeastNumber
  <2>2. n \in 0 .. size /\ n # 0
    OBVIOUS
  <2>3. n - 1 \in 0 .. size /\ n - 1 \notin unbounded
    <3>1. n \in Nat /\ n - 1 < n
      BY <1>1, <2>2
    <3>2. n - 1 \in 0 .. size
      BY <1>1, <2>2
    <3>3. n - 1 \notin unbounded
      <4> HIDE DEF unbounded
      <4> QED BY <2>1, <3>1, <3>2
    <3> QED BY <3>2, <3>3
  <2>4. PICK bound \in Nat : \A i \in 1 .. n - 1 : f[i] <= bound
    BY <2>3
  <2> HIDE DEF unbounded
  <2>5. bound \in Nat /\ n \in Nat /\ n <= size /\ n \in 1 .. size
    BY <1>1, <2>2, <2>4
  <2>6. f \in [1 .. size -> Nat] /\ f[n] \in Nat
    <3>1. f \in [1 .. size -> S] /\ S \subseteq Nat
      BY <1>2
    <3>2. f \in [1 .. size -> Nat]
      BY <3>1, Zenon
    <3> HIDE DEF size
    <3> QED BY <2>5, <3>2, Zenon
  <2>7. ASSUME NEW i \in 1 .. n
        PROVE  f[i] <= bound + f[n]
    <3>1. i \in 1 .. size /\ (i = n \/ i \in 1 .. n - 1)
      BY <1>1, <2>5
    <3>2. f[i] \in Nat
      BY <2>6, <3>1, Zenon
    <3>3. i = n \/ f[i] <= bound
      BY <2>4, <3>1
    <3> QED BY <2>6, <2>5, <3>2, <3>3
  <2>8. bound + f[n] \in Nat
    BY <2>6, <2>5
  <2>9. n \notin unbounded
    BY <2>7, <2>8 DEF unbounded
  <2> QED BY <2>1, <2>9
<1>4. PICK bound \in Nat : \A i \in 1 .. size : f[i] <= bound
  <2>1. size \in 0 .. size
    BY <1>1
  <2> QED BY <1>3, <2>1
<1> QED BY <1>2, <1>4

LEMMA MaxProperty ==
    ASSUME NEW S \in SUBSET Nat, IsFiniteSet(S), S # {}
    PROVE  Max(S) \in S /\ \A n \in S : n <= Max(S)
<1> DEFINE bounds == {b \in Nat : \A n \in S : n <= b}
<1>1. PICK least \in bounds : \A b \in bounds : least <= b
  <2>1. bounds \in SUBSET Nat /\ bounds # {}
    BY FiniteBounded
  <2> HIDE DEF bounds
  <2> QED BY <2>1, LeastNumber
<1>2. least \in S
  <2> SUFFICES ASSUME least \notin S PROVE FALSE
    OBVIOUS
  <2>1. \A n \in S : n <= least /\ n # least /\ n \in Nat /\ least \in Nat
    OBVIOUS
  <2>2. PICK n \in S : TRUE
    OBVIOUS
  <2>3. least \in Nat /\ least > 0
    BY <2>1, <2>2
  <2>4. \A m \in S : m <= least - 1
    BY <2>1
  <2>5. least - 1 \in bounds /\ ~(least <= least - 1)
    BY <2>3, <2>4
  <2> HIDE DEF bounds
  <2> QED BY <1>1, <2>5
<1>3. \E x \in S : \A n \in S : x >= n
  BY <1>2
<1> QED BY <1>3 DEF Max

(***************************************************************************)
(* The walk                                                                *)
(***************************************************************************)

\* The page of a statement reaches down to the first row, is everything when it is not
\* full, and is empty only when there are no rows.
LEMMA FirstPage ==
    ASSUME NEW ids \in SUBSET Nat, IsFiniteSet(ids), NEW size \in Nat \ {0}
    PROVE  /\ First(ids, size) \subseteq ids /\ IsFiniteSet(First(ids, size))
           /\ \A id \in First(ids, size), i \in ids : i <= id => i \in First(ids, size)
           /\ Cardinality(ids) <= size => First(ids, size) = ids
           /\ ids # {} => First(ids, size) # {}
<1> DEFINE UpTo(id) == {i \in ids : i <= id}
<1>1. \A id \in ids : IsFiniteSet(UpTo(id)) /\ Cardinality(UpTo(id)) \in Nat
                      /\ Cardinality(UpTo(id)) <= Cardinality(ids)
  <2> TAKE id \in ids
  <2>1. UpTo(id) \in SUBSET ids
    OBVIOUS
  <2> HIDE DEF UpTo
  <2> QED BY <2>1, FS_Subset, FS_CardinalityType
<1>2. First(ids, size) = {id \in ids : Cardinality(UpTo(id)) <= size}
  BY DEF First
<1>3. First(ids, size) \subseteq ids /\ IsFiniteSet(First(ids, size))
  <2>1. First(ids, size) \in SUBSET ids
    BY <1>2
  <2> QED BY <2>1, FS_Subset
<1>4. ASSUME NEW id \in First(ids, size), NEW i \in ids, i <= id
      PROVE  i \in First(ids, size)
  <2>1. id \in ids /\ id \in Nat /\ i \in Nat
    BY <1>3
  <2>2. UpTo(i) \in SUBSET UpTo(id)
    <3>1. \A m \in ids : m <= i => m <= id
      BY <1>4, <2>1
    <3> QED BY <3>1
  <2>3. Cardinality(UpTo(id)) <= size
    BY <1>2
  <2> HIDE DEF UpTo
  <2>4. Cardinality(UpTo(i)) <= Cardinality(UpTo(id))
    BY <1>1, <2>1, <2>2, FS_Subset
  <2> QED BY <1>1, <1>2, <2>1, <2>3, <2>4
<1>5. ASSUME Cardinality(ids) <= size
      PROVE  First(ids, size) = ids
  <2>1. Cardinality(ids) \in Nat
    BY FS_CardinalityType
  <2> HIDE DEF UpTo
  <2>2. \A id \in ids : Cardinality(UpTo(id)) <= size
    BY <1>1, <1>5, <2>1
  <2> QED BY <1>2, <2>2
<1>6. ASSUME ids # {}
      PROVE  First(ids, size) # {}
  <2>1. PICK least \in ids : \A i \in ids : least <= i
    BY <1>6, LeastNumber
  <2>2. UpTo(least) = {least}
    <3>1. \A i \in ids : i <= least => i = least
      BY <2>1
    <3>2. least \in Nat /\ least <= least
      BY <2>1
    <3> QED BY <3>1, <3>2
  <2> HIDE DEF UpTo
  <2>3. Cardinality(UpTo(least)) = 1
    BY <2>2, FS_Singleton
  <2> QED BY <1>2, <2>1, <2>3
<1> QED BY <1>3, <1>4, <1>5, <1>6

Walking == walk.stage \in {"limit", "count", "rows", "waiting"}

\* The client has been given nothing beyond the cursor, and of what the filter has
\* selected all the time everything up to it.
WalkInv ==
    /\ contacts \subseteq Ids /\ walk.cursor \in Nat /\ walk.got \subseteq Ids
    /\ ~walk.again
    /\ walk.stage \in {"idle", "limit", "count", "rows", "waiting", "done"}
    /\ walk.throughout \subseteq Rows(walk.filter)
    /\ Walking =>
        /\ \A id \in walk.got : id <= walk.cursor
        /\ \A id \in walk.throughout : id <= walk.cursor => id \in walk.got
    /\ walk.stage = "done" /\ walk.withId => walk.throughout \subseteq walk.got

\* A page continues the walk where the cursor stands.
LEMMA RowsKeep ==
    ASSUME WalkInv, WalkShape, RowsStatement
    PROVE  WalkInv'
<1> DEFINE ids == {id \in Rows(walk.filter) : id > walk.cursor}
           page == First(ids, PageSize)
           more == Cardinality(ids) > PageSize /\ walk.withId
<1>1. /\ ids \in SUBSET Nat /\ ids \subseteq Ids /\ IsFiniteSet(ids)
      /\ Cardinality(ids) \in Nat
  <2>1. ids \in SUBSET Ids /\ Ids \subseteq Nat
    BY IdsAssumption DEF WalkInv, Rows
  <2> HIDE DEF ids
  <2> QED BY <2>1, IdsAssumption, FS_Subset, FS_CardinalityType
<1>2. /\ page \subseteq ids /\ IsFiniteSet(page)
      /\ \A id \in page, i \in ids : i <= id => i \in page
      /\ Cardinality(ids) <= PageSize => page = ids
      /\ ids # {} => page # {}
  <2> HIDE DEF ids
  <2> QED BY <1>1, FirstPage, Sizes
<1>3. walk' = [walk EXCEPT !.stage = IF more THEN "waiting" ELSE "done",
                           !.cursor = IF more THEN Max(page) ELSE @,
                           !.got = @ \union page,
                           !.again = @ \/ page \intersect walk.got # {}]
  BY DEF RowsStatement, Fetched
<1>4. \A id \in ids : id \in Nat /\ id > walk.cursor
  BY <1>1
<1>5. walk.stage = "rows" /\ UNCHANGED <<contacts, history>>
  BY DEF RowsStatement, tables
<1>6. page \intersect walk.got = {}
  <2>1. \A id \in walk.got : id \in Nat /\ id <= walk.cursor
    BY <1>5, IdsAssumption DEF WalkInv, Walking
  <2>2. walk.cursor \in Nat
    BY DEF WalkInv
  <2> HIDE DEF ids, page
  <2> QED BY <1>2, <1>4, <2>1, <2>2
<1>7. more => page # {} /\ Max(page) \in page /\ \A id \in page : id <= Max(page)
  <2> SUFFICES ASSUME more
               PROVE  page # {} /\ Max(page) \in page /\ \A id \in page : id <= Max(page)
    OBVIOUS
  <2>1. Cardinality(ids) > 0
    BY <1>1, Sizes
  <2>2. ids # {}
    <3> HIDE DEF ids
    <3> QED BY <2>1, FS_EmptySet
  <2>3. page # {} /\ page \in SUBSET Nat /\ IsFiniteSet(page)
    <3> HIDE DEF ids, page
    <3> QED BY <1>1, <1>2, <2>2
  <2> HIDE DEF ids, page
  <2> QED BY <2>3, MaxProperty
<1>8. /\ walk'.filter = walk.filter /\ walk'.withId = walk.withId
      /\ walk'.throughout = walk.throughout
      /\ walk'.stage = IF more THEN "waiting" ELSE "done"
      /\ walk'.cursor = IF more THEN Max(page) ELSE walk.cursor
      /\ walk'.got = walk.got \union page
      /\ walk'.again = (walk.again \/ page \intersect walk.got # {})
  <2> HIDE DEF ids, page, more
  <2> QED BY <1>3 DEF WalkShape
<1>9. \A id \in walk.throughout : id \in ids \/ id \in walk.got
  <2>1. \A id \in walk.throughout :
            /\ id \in Rows(walk.filter) /\ id \in Nat
            /\ id <= walk.cursor => id \in walk.got
    BY <1>5, IdsAssumption DEF WalkInv, Walking, Rows
  <2> QED BY <2>1 DEF WalkInv
<1>10. /\ contacts' \subseteq Ids /\ walk'.got \subseteq Ids /\ ~walk'.again
       /\ walk'.throughout \subseteq Rows(walk.filter)'
       /\ walk'.stage \in {"waiting", "done"}
  <2>1. Rows(walk.filter)' = Rows(walk.filter)
    BY <1>5, <1>8 DEF Rows
  <2> HIDE DEF ids, page, more
  <2>2. ~walk'.again
    BY <1>6, <1>8 DEF WalkInv
  <2> QED BY <1>1, <1>2, <1>5, <1>8, <2>1, <2>2 DEF WalkInv
<1>11. CASE more
  <2>1. /\ Max(page) \in Nat /\ Max(page) > walk.cursor /\ walk.cursor \in Nat
        /\ \A id \in ids : id <= Max(page) => id \in page
    <3> HIDE DEF ids, page
    <3> QED BY <1>2, <1>4, <1>7, <1>11 DEF WalkInv
  <2>2. \A id \in walk.got : id \in Nat /\ id <= walk.cursor
    BY <1>5, IdsAssumption DEF WalkInv, Walking
  <2> HIDE DEF ids, page
  <2>3. \A id \in walk'.got : id <= walk'.cursor
    BY <1>7, <1>8, <1>11, <2>1, <2>2
  <2>4. \A id \in walk'.throughout : id <= walk'.cursor => id \in walk'.got
    BY <1>8, <1>9, <1>11, <2>1
  <2> HIDE DEF more
  <2> QED BY <1>8, <1>10, <1>11, <2>1, <2>3, <2>4 DEF WalkInv
<1>12. CASE ~more
  <2>1. walk.withId => page = ids
    <3> HIDE DEF ids, page
    <3> QED BY <1>1, <1>2, <1>12, Sizes
  <2>2. walk'.withId => walk'.throughout \subseteq walk'.got
    <3> HIDE DEF ids, page, more
    <3> QED BY <1>8, <1>9, <2>1
  <2> HIDE DEF ids, page, more
  <2> QED BY <1>8, <1>10, <1>12, <2>2 DEF WalkInv, Walking
<1> QED BY <1>11, <1>12

\* Whatever is imported, deleted or used meanwhile, a client that follows next_cursor
\* to its end has been given every contact the filter selected all the time, and none
\* twice.
THEOREM WalkComplete == Spec => []WalkMissesNothing
<1>1. Init => WalkInv
  BY DEF Init, NoWalk, WalkInv, Walking
<1>2. WalkInv /\ Shapes /\ [Next]_vars => WalkInv'
  <2> SUFFICES ASSUME WalkInv, Shapes, [Next]_vars PROVE WalkInv'
    OBVIOUS
  <2>1. ASSUME UNCHANGED <<contacts, history, walk>>
        PROVE  WalkInv'
    BY <2>1 DEF WalkInv, Walking, Rows
  <2>2. CASE UNCHANGED vars
    BY <2>1, <2>2 DEF vars, tables
  <2>3. CASE TableStep
    <3>1. contacts' \subseteq Ids
      BY <2>3 DEF TableStep, Import, Delete, RecordUsage, UpdateJob, DeleteJob, WalkInv
    <3>2. /\ walk'.stage = walk.stage /\ walk'.filter = walk.filter
          /\ walk'.withId = walk.withId /\ walk'.cursor = walk.cursor
          /\ walk'.got = walk.got /\ walk'.again = walk.again
          /\ walk'.throughout =
                {id \in walk.throughout : id \in contacts'
                      /\ QuerySelects(walk.filter, Contact[id], history'[id])}
      BY <2>3, TableKeeps DEF TablesChange, Shapes, WalkShape
    <3>3. walk'.throughout \subseteq Rows(walk.filter)'
      BY <3>2 DEF Rows
    <3>4. walk'.throughout \subseteq walk.throughout
      BY <3>2
    <3> QED BY <3>1, <3>2, <3>3, <3>4 DEF WalkInv, Walking
  <2>4. CASE WalkStep
    <3>1. UNCHANGED <<contacts, history>>
      BY <2>4, WalkKeeps DEF tables
    <3>2. CASE RowsStatement
      BY <3>2, RowsKeep DEF Shapes
    <3>3. CASE AskOn \/ Limit \/ CountStatement
      <4>1. /\ walk.stage \in {"waiting", "limit", "count"}
            /\ walk'.stage \in {"limit", "count", "waiting", "rows"}
            /\ walk'.filter = walk.filter /\ walk'.withId = walk.withId
            /\ walk'.cursor = walk.cursor /\ walk'.got = walk.got
            /\ walk'.again = walk.again /\ walk'.throughout = walk.throughout
        BY <3>3 DEF AskOn, Limit, CountStatement, Shapes, WalkShape
      <4>2. Rows(walk.filter)' = Rows(walk.filter)
        BY <3>1, <4>1 DEF Rows
      <4> QED BY <3>1, <4>1, <4>2 DEF WalkInv, Walking
    <3>4. ASSUME NEW filter \in WalkFilters, NEW withId \in BOOLEAN, Begin(filter, withId)
          PROVE  WalkInv'
      <4>1. /\ walk'.stage = "limit" /\ walk'.filter = filter
            /\ walk'.cursor = 0 /\ walk'.got = {} /\ walk'.again = FALSE
            /\ walk'.throughout = Rows(filter)
        BY <3>4 DEF Begin, NoWalk
      <4>2. Rows(walk.filter)' = Rows(filter)
        BY <3>1, <4>1 DEF Rows
      <4>3. \A id \in Rows(filter) : ~(id <= 0)
        <5>1. \A id \in Rows(filter) : id \in Ids
          BY DEF Rows, WalkInv
        <5>2. \A id \in Ids : ~(id <= 0)
          BY IdsAssumption
        <5> QED BY <5>1, <5>2
      <4> QED BY <3>1, <4>1, <4>2, <4>3 DEF WalkInv
    <3> QED BY <2>4, <3>2, <3>3, <3>4 DEF WalkStep
  <2>5. CASE ReaderStep
    BY <2>1, <2>5, ReaderKeeps DEF tables
  <2>6. CASE Tick \/ DestroyPool \/ HangsUp
    BY <2>1, <2>6, HangsUpKeeps DEF Tick, DestroyPool, tables
  <2>7. CASE Signal \/ BreaksOff
    <3>1. UNCHANGED <<contacts, history>> /\ (walk' = walk \/ walk' = NoWalk)
      BY <2>7, BreaksOffKeeps DEF tables
    <3>2. CASE walk' = NoWalk
      BY <3>1, <3>2 DEF NoWalk, WalkInv, Walking
    <3> QED BY <2>1, <3>1, <3>2
  <2> QED
    BY <2>2, <2>3, <2>4, <2>5, <2>6, <2>7, NextSorted
<1>3. WalkInv => WalkMissesNothing
  BY DEF WalkInv, WalkMissesNothing
<1> QED BY <1>1, <1>2, <1>3, ShapesInvariant, PTL DEF Spec

(***************************************************************************)
(* What an export selects                                                  *)
(***************************************************************************)

\* Two filters that hold the same select the same, and a field that is not given
\* may be left out.
LEMMA SameFilter ==
    ASSUME NEW one, NEW other, NEW fewer \in SUBSET Fields, NEW contact, NEW used,
           \A field \in Fields : one[field] = other[field],
           \A field \in Fields \ fewer : other[field] = None
    PROVE  Selects(one, fewer, contact, used) <=> Selects(other, Fields, contact, used)
<1>1. \A field \in fewer : field \in Fields /\ one[field] = other[field]
  OBVIOUS
<1>2. \A field \in Fields : field \in fewer \/ ~Given(field, other[field])
  BY DEF Given
<1> QED BY <1>1, <1>2 DEF Selects

\* What the portal exports is what a search with the form as the export reads it finds:
\* no list of fields on the way of one request drops a field that the other keeps.
THEOREM ExportSelectsTheSame == Spec => []ExportIsWhatWasFound
<1>1. ExportIsWhatWasFound
  <2> SUFFICES ASSUME NEW form \in Forms, NEW id \in contacts
               PROVE  StreamSelects(ExportRoute(ExportParams(form)), Contact[id], history[id])
                        <=> QuerySelects(QueryRoute(SearchFilter(AsExported(form))),
                                         Contact[id], history[id])
    BY DEF ExportIsWhatWasFound
  <2> DEFINE exported == ExportRoute(ExportParams(form))
             found == QueryRoute(SearchFilter(AsExported(form)))
             fewer == Fields \ {"sector", "opt_out_call"}
  <2>1. /\ FormFields \subseteq Fields /\ TrimmedFields \subseteq FormFields \ {"tags_any"}
        /\ "opt_out_whatsapp" \in FormFields \ {"tags_any"}
        /\ "opt_out_whatsapp" \notin TrimmedFields
    BY DEF FormFields, TrimmedFields, Fields, Equal, Texts, Lists, Campaigns
  <2>2. \A field \in Fields :
            found[field] = IF field \in FormFields THEN AsExported(form)[field] ELSE None
    BY <2>1 DEF QueryRoute, SearchFilter, Only
  <2>3. \A field \in Fields :
            ExportParams(form)[field] =
                IF field \notin FormFields \ {"tags_any"} THEN None
                ELSE IF field = "opt_out_whatsapp" /\ form[field] = TRUE THEN None
                ELSE form[field]
    BY <2>1 DEF ExportParams, Only
  <2>4. \A field \in FormFields \ {"tags_any"} : exported[field] = AsExported(form)[field]
    <3> TAKE field \in FormFields \ {"tags_any"}
    <3>1. CASE field \in TrimmedFields
      BY <2>1, <2>3, <3>1 DEF ExportRoute, AsExported
    <3>2. CASE field \notin TrimmedFields
      BY <2>1, <2>3, <3>2 DEF ExportRoute, AsExported
    <3> QED BY <3>1, <3>2
  <2>5. \A field \in Fields \ (FormFields \ {"tags_any"}) : exported[field] = None
    BY <2>1 DEF ExportRoute
  <2>6. AsExported(form)["tags_any"] = None
    BY <2>1, FormsAssumption DEF AsExported, Fields, Lists
  <2>7. \A field \in Fields : exported[field] = found[field]
    BY <2>1, <2>2, <2>4, <2>5, <2>6
  <2>8. \A field \in Fields \ fewer : field \in Fields /\ field \notin FormFields
    BY DEF FormFields, Campaigns
  <2>9. \A field \in Fields \ fewer : found[field] = None
    BY <2>2, <2>8
  <2> HIDE DEF exported, found
  <2>10. Selects(exported, fewer, Contact[id], history[id])
            <=> Selects(found, Fields, Contact[id], history[id])
    BY <2>7, <2>9, SameFilter
  <2> QED BY <2>10 DEF StreamSelects, QuerySelects, exported, found
<1> QED BY <1>1, PTL

(***************************************************************************)
(* Induction over the subsets of a finite set, and over the numbers        *)
(***************************************************************************)

\* What holds of a finite set if it holds of it once it does of its proper subsets.
LEMMA SubsetInduction ==
    ASSUME NEW S, IsFiniteSet(S), NEW good \in SUBSET SUBSET S,
           \A T \in SUBSET S : (\A U \in SUBSET T : U # T => U \in good) => T \in good
    PROVE  good = SUBSET S
<1> DEFINE rest == (SUBSET S) \ good
           less == StrictSubsetOrdering(S)
<1>1. IsWellFoundedOn(less, FiniteSubsetsOf(S)) BY FS_StrictSubsetOrderingWellFounded
<1>2. FiniteSubsetsOf(S) = SUBSET S BY FS_FiniteSubsetsOfFinite
<1>3. SUFFICES ASSUME rest # {} PROVE FALSE OBVIOUS
<1>4. PICK least \in rest : \A T \in rest : <<T, least>> \notin less
  <2>1. rest \in SUBSET SUBSET S OBVIOUS
  <2> HIDE DEF less, rest
  <2> QED BY <1>1, <1>2, <1>3, <2>1, WFMin
<1>5. ASSUME NEW U \in SUBSET least, U # least PROVE <<U, least>> \in less
  <2>1. U \in SUBSET S /\ least \in SUBSET S BY <1>4
  <2>2. <<U, least>> \in (SUBSET S) \X (SUBSET S) BY <2>1
  <2> QED BY <1>5, <2>2 DEF StrictSubsetOrdering
<1>6. ASSUME NEW U \in SUBSET least, U # least PROVE U \in good
  <2>1. U \in SUBSET S BY <1>4
  <2>2. <<U, least>> \in less BY <1>5, <1>6
  <2>3. U \notin rest
    <3> HIDE DEF less, rest
    <3> QED BY <1>4, <2>2
  <2> QED BY <2>1, <2>3
<1> QED BY <1>4, <1>6

\* Induction over the numbers, from the least that would be left out
LEMMA Induction ==
    ASSUME NEW S \in SUBSET Nat, 0 \in S, \A n \in S : n + 1 \in S
    PROVE  S = Nat
<1> DEFINE rest == Nat \ S
<1> SUFFICES ASSUME rest # {} PROVE FALSE OBVIOUS
<1>1. PICK least \in rest : \A n \in rest : least <= n
  <2>1. rest \in SUBSET Nat OBVIOUS
  <2> HIDE DEF rest
  <2> QED BY <2>1, LeastNumber
<1>2. least \in Nat /\ least # 0 OBVIOUS
<1>3. least - 1 \in Nat /\ least - 1 + 1 = least /\ ~(least <= least - 1) BY <1>2
<1>4. least - 1 \in S BY <1>1, <1>3
<1> QED BY <1>3, <1>4

(***************************************************************************)
(* Sums                                                                    *)
(***************************************************************************)

\* The term the library takes out of a sum first
Pick(s) == CHOOSE x \in s : TRUE

\* The recursive function that Sum evaluates.
Sums(h, f, S) ==
    h = [s \in SUBSET S |-> IF s = {} THEN 0 ELSE f[Pick(s)] + h[s \ {Pick(s)}]]

\* Sum evaluates that function.
LEMMA SumDef ==
    ASSUME NEW f, NEW S
    PROVE  Sum(f, S) = (CHOOSE h : Sums(h, f, S))[S]
BY DEF Sum, MapThenSumSet, MapThenFoldSet, Sums, Pick

\* The sum of nothing is 0.
LEMMA SumOfNone == ASSUME NEW f PROVE Sum(f, {}) = 0
<1> DEFINE zero == [s \in SUBSET {} |-> 0]
           iter == CHOOSE h : Sums(h, f, {})
<1>1. Sums(zero, f, {})
  <2>1. zero = [s \in SUBSET {} |-> IF s = {} THEN 0 ELSE f[Pick(s)] + zero[s \ {Pick(s)}]]
    OBVIOUS
  <2> HIDE DEF zero
  <2> QED BY <2>1 DEF Sums
<1>2. Sums(iter, f, {}) BY <1>1
<1> HIDE DEF iter
<1>3. iter[{}] = 0 BY <1>2 DEF Sums
<1> QED BY <1>3, SumDef DEF iter

\* A sum is one of its terms, and the sum of the others.
LEMMA SumUnfolds ==
    ASSUME NEW f, NEW S, IsFiniteSet(S), S # {}
    PROVE  Sum(f, S) = f[Pick(S)] + Sum(f, S \ {Pick(S)})
<1> DEFINE Unfolded(T) == T # {} => Sum(f, T) = f[Pick(T)] + Sum(f, T \ {Pick(T)})
           good == {T \in SUBSET S : Unfolded(T)}
<1>1. ASSUME NEW T \in SUBSET S, \A U \in SUBSET T : U # T => U \in good
      PROVE  T \in good
  <2>1. SUFFICES ASSUME T # {} PROVE Unfolded(T) OBVIOUS
  <2> DEFINE p == Pick(T)
             all == f[p] + Sum(f, T \ {p})
             g == [s \in SUBSET T |-> IF s = T THEN all ELSE Sum(f, s)]
             iter == CHOOSE h : Sums(h, f, T)
  <2>2. \A s \in SUBSET T : s # {} => Pick(s) \in s /\ s \ {Pick(s)} # T /\ s \ {Pick(s)} \in SUBSET T
    BY DEF Pick
  <2>3. Sums(g, f, T)
    <3>1. ASSUME NEW s \in SUBSET T
          PROVE  g[s] = IF s = {} THEN 0 ELSE f[Pick(s)] + g[s \ {Pick(s)}]
      <4>1. CASE s = {} BY <4>1, <2>1, SumOfNone
      <4>2. CASE s # {}
        <5>1. g[s \ {Pick(s)}] = Sum(f, s \ {Pick(s)}) BY <2>2, <4>2
        <5>2. CASE s = T
            <6>1. g[s] = f[p] + Sum(f, T \ {p}) BY <5>2
            <6> HIDE DEF g
            <6> QED BY <5>1, <5>2, <6>1, <4>2
        <5>3. CASE s # T
            <6>1. g[s] = Sum(f, s) BY <5>3
            <6>2. Unfolded(s) BY <1>1, <5>3
            <6> HIDE DEF g
            <6> QED BY <5>1, <6>1, <6>2, <4>2
        <5> QED BY <5>2, <5>3
      <4> QED BY <4>1, <4>2
    <3>2. g = [s \in SUBSET T |-> g[s]] OBVIOUS
    <3> HIDE DEF g
    <3> QED BY <3>1, <3>2 DEF Sums
  <2>4. Sums(iter, f, T)
    <3> HIDE DEF g
    <3> QED BY <2>3
  <2>5. iter[T] = g[T]
    <3> DEFINE same == {s \in SUBSET T : iter[s] = g[s]}
    <3>1. ASSUME NEW s \in SUBSET T, \A U \in SUBSET s : U # s => U \in same
          PROVE  s \in same
      <4> HIDE DEF g, iter
      <4>1. CASE s = {} BY <4>1, <2>3, <2>4 DEF Sums
      <4>2. CASE s # {}
        <5>1. s \ {Pick(s)} \in SUBSET s /\ s \ {Pick(s)} # s BY <2>2, <4>2
        <5>2. iter[s \ {Pick(s)}] = g[s \ {Pick(s)}] BY <3>1, <5>1
        <5>3. iter[s] = f[Pick(s)] + iter[s \ {Pick(s)}] BY <2>4, <4>2 DEF Sums
        <5>4. g[s] = f[Pick(s)] + g[s \ {Pick(s)}] BY <2>3, <4>2 DEF Sums
        <5> QED BY <5>2, <5>3, <5>4
      <4> QED BY <4>1, <4>2
    <3>2. same = SUBSET T
      <4>1. IsFiniteSet(T) BY FS_Subset
      <4>2. same \in SUBSET SUBSET T OBVIOUS
      <4> HIDE DEF same
      <4> QED BY <3>1, <4>1, <4>2, SubsetInduction
    <3> HIDE DEF g, iter
    <3> QED BY <3>2
  <2>6. g[T] = all OBVIOUS
  <2> HIDE DEF g
  <2> QED BY <2>5, <2>6, SumDef
<1>2. good = SUBSET S
  <2>1. good \in SUBSET SUBSET S OBVIOUS
  <2> HIDE DEF good
  <2> QED BY <1>1, <2>1, SubsetInduction
<1>3. S \in good BY <1>2
<1> QED BY <1>3

\* A sum of numbers is one.
LEMMA SumIsNat ==
    ASSUME NEW f, NEW S, IsFiniteSet(S), \A x \in S : f[x] \in Nat
    PROVE  Sum(f, S) \in Nat
<1> DEFINE good == {T \in SUBSET S : Sum(f, T) \in Nat}
<1>1. ASSUME NEW T \in SUBSET S, \A U \in SUBSET T : U # T => U \in good
      PROVE  T \in good
  <2>1. CASE T = {} BY <2>1, SumOfNone
  <2>2. CASE T # {}
    <3>1. Pick(T) \in T BY <2>2 DEF Pick
    <3>2. T \ {Pick(T)} \in SUBSET T /\ T \ {Pick(T)} # T BY <3>1
    <3>3. Sum(f, T \ {Pick(T)}) \in Nat BY <1>1, <3>2
    <3>4. IsFiniteSet(T) BY FS_Subset
    <3>5. Sum(f, T) = f[Pick(T)] + Sum(f, T \ {Pick(T)}) BY <2>2, <3>4, SumUnfolds
    <3>6. f[Pick(T)] \in Nat BY <3>1
    <3> QED BY <3>3, <3>5, <3>6
  <2> QED BY <2>1, <2>2
<1>2. good = SUBSET S
  <2>1. good \in SUBSET SUBSET S OBVIOUS
  <2> HIDE DEF good
  <2> QED BY <1>1, <2>1, SubsetInduction
<1>3. S \in good BY <1>2
<1> QED BY <1>3

\* Any term can be taken apart.
LEMMA SumApart ==
    ASSUME NEW f, NEW S, IsFiniteSet(S), \A x \in S : f[x] \in Nat, NEW x \in S
    PROVE  /\ Sum(f, S) = f[x] + Sum(f, S \ {x})
           /\ Sum(f, S \ {x}) \in Nat
<1> DEFINE good == {T \in SUBSET S : \A y \in T : Sum(f, T) = f[y] + Sum(f, T \ {y})}
<1>1. \A T \in SUBSET S : IsFiniteSet(T) /\ Sum(f, T) \in Nat
  <2> TAKE T \in SUBSET S
  <2>1. IsFiniteSet(T) BY FS_Subset
  <2> QED BY <2>1, SumIsNat
<1>2. ASSUME NEW T \in SUBSET S, \A U \in SUBSET T : U # T => U \in good
      PROVE  T \in good
  <2> SUFFICES ASSUME NEW y \in T PROVE Sum(f, T) = f[y] + Sum(f, T \ {y})
    OBVIOUS
  <2> DEFINE p == Pick(T)
  <2>1. p \in T BY DEF Pick
  <2>2. Sum(f, T) = f[p] + Sum(f, T \ {p}) BY <1>1, SumUnfolds
  <2> HIDE DEF p
  <2>3. CASE y = p BY <2>2, <2>3
  <2>4. CASE y # p
    <3>1. T \ {p} \in SUBSET T /\ T \ {p} # T /\ y \in T \ {p} BY <2>1, <2>4
    <3>2. T \ {y} \in SUBSET T /\ T \ {y} # T /\ p \in T \ {y} BY <2>1, <2>4
    <3> DEFINE both == (T \ {p}) \ {y}
    <3>3. both = (T \ {y}) \ {p} /\ both \in SUBSET S OBVIOUS
    <3>4. Sum(f, T \ {p}) = f[y] + Sum(f, both) BY <1>2, <3>1
    <3>5. Sum(f, T \ {y}) = f[p] + Sum(f, both) BY <1>2, <3>2, <3>3
    <3>6. f[y] \in Nat /\ f[p] \in Nat /\ Sum(f, both) \in Nat BY <1>1, <2>1, <3>3
    <3> HIDE DEF both
    <3> QED BY <2>2, <3>4, <3>5, <3>6
  <2> QED BY <2>3, <2>4
<1>3. good = SUBSET S
  <2>1. good \in SUBSET SUBSET S OBVIOUS
  <2> HIDE DEF good
  <2> QED BY <1>2, <2>1, SubsetInduction
<1>4. S \in good BY <1>3
<1>5. S \ {x} \in SUBSET S OBVIOUS
<1> QED BY <1>1, <1>4, <1>5

\* What holds of the empty set, and still does when one more is taken in, holds.
LEMMA OneByOne ==
    ASSUME NEW S, IsFiniteSet(S), NEW good \in SUBSET SUBSET S, {} \in good,
           \A T \in SUBSET S, x \in S : x \notin T /\ T \in good => T \union {x} \in good
    PROVE  good = SUBSET S
<1>1. ASSUME NEW T \in SUBSET S, \A U \in SUBSET T : U # T => U \in good
      PROVE  T \in good
  <2>1. CASE T = {} BY <2>1
  <2>2. CASE T # {}
    <3>1. PICK x \in T : TRUE BY <2>2
    <3>2. T \ {x} \in SUBSET T /\ T \ {x} # T /\ x \notin T \ {x} /\ (T \ {x}) \union {x} = T
      OBVIOUS
    <3>3. T \ {x} \in good BY <1>1, <3>2
    <3>4. T \ {x} \in SUBSET S /\ x \in S OBVIOUS
    <3> QED BY <3>2, <3>3, <3>4
  <2> QED BY <2>1, <2>2
<1> QED BY <1>1, SubsetInduction

\* A term more
LEMMA SumAdds ==
    ASSUME NEW f, NEW S, IsFiniteSet(S), \A x \in S : f[x] \in Nat,
           NEW T \in SUBSET S, NEW x \in S, x \notin T
    PROVE  /\ Sum(f, T \union {x}) = f[x] + Sum(f, T)
           /\ Sum(f, T) \in Nat
<1>1. T \union {x} \in SUBSET S /\ x \in T \union {x} /\ (T \union {x}) \ {x} = T OBVIOUS
<1>2. IsFiniteSet(T \union {x}) /\ \A y \in T \union {x} : f[y] \in Nat BY <1>1, FS_Subset
<1> DEFINE more == T \union {x}
<1> HIDE DEF more
<1>3. Sum(f, more) = f[x] + Sum(f, more \ {x}) /\ Sum(f, more \ {x}) \in Nat
  BY <1>1, <1>2, SumApart DEF more
<1> QED BY <1>1, <1>3 DEF more

\* The sums of two parts make up that of both.
LEMMA SumUnion ==
    ASSUME NEW f, NEW S, IsFiniteSet(S), \A x \in S : f[x] \in Nat,
           NEW A \in SUBSET S, NEW B \in SUBSET S, A \intersect B = {}
    PROVE  /\ Sum(f, A \union B) = Sum(f, A) + Sum(f, B)
           /\ Sum(f, A) \in Nat /\ Sum(f, B) \in Nat
<1> DEFINE good == {T \in SUBSET B : Sum(f, A \union T) = Sum(f, A) + Sum(f, T)}
<1>1. \A T \in SUBSET S : Sum(f, T) \in Nat
  <2> TAKE T \in SUBSET S
  <2>1. IsFiniteSet(T) BY FS_Subset
  <2> QED BY <2>1, SumIsNat
<1>2. {} \in good
  <2>1. A \union {} = A OBVIOUS
  <2> QED BY <1>1, <2>1, SumOfNone
<1>3. ASSUME NEW T \in SUBSET B, NEW x \in B, x \notin T, T \in good
      PROVE  T \union {x} \in good
  <2>1. /\ A \union T \in SUBSET S /\ x \notin A \union T /\ x \in S
        /\ T \in SUBSET S
        /\ A \union (T \union {x}) = (A \union T) \union {x}
    BY <1>3
  <2>2. Sum(f, (A \union T) \union {x}) = f[x] + Sum(f, A \union T) BY <2>1, SumAdds
  <2>3. Sum(f, T \union {x}) = f[x] + Sum(f, T) BY <1>3, <2>1, SumAdds
  <2>4. /\ Sum(f, A \union T) = Sum(f, A) + Sum(f, T)
        /\ Sum(f, A) \in Nat /\ Sum(f, T) \in Nat /\ f[x] \in Nat BY <1>1, <1>3, <2>1
  <2>5. Sum(f, A \union (T \union {x})) = f[x] + Sum(f, A \union T) BY <2>1, <2>2
  <2> DEFINE more == T \union {x}
             whole == A \union more
  <2>6. more \in SUBSET B BY <1>3
  <2> HIDE DEF more, whole
  <2>7. Sum(f, whole) = f[x] + Sum(f, A \union T) /\ Sum(f, more) = f[x] + Sum(f, T)
    BY <2>3, <2>5 DEF more, whole
  <2>8. Sum(f, whole) = Sum(f, A) + Sum(f, more) BY <2>4, <2>7
  <2>9. more \in good BY <2>6, <2>8 DEF whole
  <2> QED BY <2>9 DEF more
<1>4. good = SUBSET B
  <2>1. good \in SUBSET SUBSET B /\ IsFiniteSet(B) BY FS_Subset
  <2> HIDE DEF good
  <2>2. \A T \in SUBSET B, x \in B : x \notin T /\ T \in good => T \union {x} \in good
    BY <1>3
  <2> QED BY <1>2, <2>1, <2>2, OneByOne
<1>5. B \in good BY <1>4
<1> QED BY <1>1, <1>5

\* A part adds up to no more than all of it.
LEMMA SumOfPart ==
    ASSUME NEW f, NEW S, IsFiniteSet(S), \A x \in S : f[x] \in Nat, NEW A \in SUBSET S
    PROVE  Sum(f, A) <= Sum(f, S) /\ Sum(f, A) \in Nat /\ Sum(f, S) \in Nat
<1>1. /\ S \ A \in SUBSET S /\ A \intersect (S \ A) = {} /\ A \union (S \ A) = S OBVIOUS
<1>2. Sum(f, S) = Sum(f, A) + Sum(f, S \ A) /\ Sum(f, A) \in Nat /\ Sum(f, S \ A) \in Nat
  BY <1>1, SumUnion
<1> QED BY <1>2

\* A sum is above 0 only if one of its terms is.
LEMMA SumPositive ==
    ASSUME NEW f, NEW S, IsFiniteSet(S), \A x \in S : f[x] \in Nat, Sum(f, S) > 0
    PROVE  \E x \in S : f[x] > 0
<1> DEFINE good == {T \in SUBSET S : Sum(f, T) = 0}
<1> SUFFICES ASSUME \A x \in S : f[x] = 0 PROVE FALSE
  OBVIOUS
<1>1. {} \in good BY SumOfNone
<1>2. ASSUME NEW T \in SUBSET S, NEW x \in S, x \notin T, T \in good
      PROVE  T \union {x} \in good
  <2>1. Sum(f, T \union {x}) = f[x] + Sum(f, T) BY <1>2, SumAdds
  <2>2. Sum(f, T \union {x}) = 0 BY <1>2, <2>1
  <2> QED BY <2>2
<1>3. good = SUBSET S
  <2>1. good \in SUBSET SUBSET S OBVIOUS
  <2> HIDE DEF good
  <2>2. \A T \in SUBSET S, x \in S : x \notin T /\ T \in good => T \union {x} \in good
    BY <1>2
  <2> QED BY <1>1, <2>1, <2>2, OneByOne
<1>4. S \in good BY <1>3
<1> QED BY <1>4

\* Those with one of the labels
Labelled(X, label, values) == {x \in X : label[x] \in values}

\* The groups of a column add up to the rows that are in one of them.
LEMMA GroupsAdd ==
    ASSUME NEW X, IsFiniteSet(X), NEW label, NEW V, IsFiniteSet(V),
           NEW f, \A v \in V : f[v] = Cardinality(Labelled(X, label, {v}))
    PROVE  /\ Sum(f, V) = Cardinality(Labelled(X, label, V))
           /\ Sum(f, V) <= Cardinality(X)
           /\ \A v \in V : f[v] \in Nat
<1> DEFINE In(T) == Labelled(X, label, T)
           good == {T \in SUBSET V : Sum(f, T) = Cardinality(In(T))}
<1>1. \A Y \in SUBSET X : IsFiniteSet(Y) /\ Cardinality(Y) \in Nat /\ Cardinality(Y) <= Cardinality(X)
  BY FS_Subset, FS_CardinalityType
<1>2. \A v \in V : f[v] \in Nat
  <2> TAKE v \in V
  <2>1. Labelled(X, label, {v}) \in SUBSET X BY DEF Labelled
  <2> QED BY <1>1, <2>1
<1>3. {} \in good
  <2>1. In({}) = {} BY DEF Labelled
  <2> QED BY <2>1, SumOfNone, FS_EmptySet
<1>4. ASSUME NEW T \in SUBSET V, NEW v \in V, v \notin T, T \in good
      PROVE  T \union {v} \in good
  <2> DEFINE one == Labelled(X, label, {v})
  <2>1. In(T \union {v}) = In(T) \union one /\ In(T) \intersect one = {} BY <1>4 DEF Labelled
  <2>2. In(T) \in SUBSET X /\ one \in SUBSET X BY DEF Labelled
  <2>3. Sum(f, T) = Cardinality(In(T)) /\ f[v] = Cardinality(one) BY <1>4
  <2>4. Sum(f, T \union {v}) = f[v] + Sum(f, T) /\ Sum(f, T) \in Nat BY <1>2, <1>4, SumAdds
  <2> HIDE DEF In, one
  <2>5. Cardinality(In(T) \union one) = Cardinality(In(T)) + Cardinality(one) - 0
    BY <1>1, <2>1, <2>2, FS_Union, FS_EmptySet
  <2>6. Sum(f, T \union {v}) = Cardinality(In(T \union {v}))
    <3>1. Cardinality(In(T)) \in Nat /\ Cardinality(one) \in Nat BY <1>1, <2>2
    <3>2. Cardinality(In(T \union {v})) = Cardinality(In(T) \union one) BY <2>1
    <3>3. Cardinality(In(T) \union one) = Cardinality(In(T)) + Cardinality(one)
      BY <2>5, <3>1
    <3> QED BY <2>3, <2>4, <3>1, <3>2, <3>3
  <2> QED BY <2>6 DEF In
<1>5. good = SUBSET V
  <2>1. good \in SUBSET SUBSET V OBVIOUS
  <2> HIDE DEF good
  <2>2. \A T \in SUBSET V, x \in V : x \notin T /\ T \in good => T \union {x} \in good
    BY <1>4
  <2> QED BY <1>3, <2>1, <2>2, OneByOne
<1>6. V \in good BY <1>5
<1>7. In(V) \in SUBSET X BY DEF Labelled
<1> QED BY <1>1, <1>2, <1>6, <1>7

\* What is added up by days is added up.
LEMMA DaysAdd ==
    ASSUME NEW X, IsFiniteSet(X), NEW r, \A x \in X : r[x] \in Nat,
           NEW label, NEW V, IsFiniteSet(V),
           NEW f, \A v \in V : f[v] = Sum(r, Labelled(X, label, {v}))
    PROVE  /\ Sum(f, V) <= Sum(r, X) /\ Sum(f, V) \in Nat /\ Sum(r, X) \in Nat
           /\ \A v \in V : f[v] \in Nat /\ f[v] <= Sum(r, X)
<1> DEFINE In(T) == Labelled(X, label, T)
           good == {T \in SUBSET V : Sum(f, T) = Sum(r, In(T))}
<1>1. \A Y \in SUBSET X : Sum(r, Y) \in Nat /\ Sum(r, Y) <= Sum(r, X) /\ Sum(r, X) \in Nat
  BY SumOfPart
<1>2. \A v \in V : f[v] \in Nat /\ f[v] <= Sum(r, X)
  <2> TAKE v \in V
  <2>1. Labelled(X, label, {v}) \in SUBSET X BY DEF Labelled
  <2> QED BY <1>1, <2>1
<1>3. {} \in good
  <2>1. In({}) = {} BY DEF Labelled
  <2> QED BY <2>1, SumOfNone
<1>4. ASSUME NEW T \in SUBSET V, NEW v \in V, v \notin T, T \in good
      PROVE  T \union {v} \in good
  <2> DEFINE one == Labelled(X, label, {v})
  <2>1. In(T \union {v}) = In(T) \union one /\ In(T) \intersect one = {} BY <1>4 DEF Labelled
  <2>2. In(T) \in SUBSET X /\ one \in SUBSET X BY DEF Labelled
  <2>3. Sum(f, T) = Sum(r, In(T)) /\ f[v] = Sum(r, one) BY <1>4
  <2>4. Sum(f, T \union {v}) = f[v] + Sum(f, T) /\ Sum(f, T) \in Nat BY <1>2, <1>4, SumAdds
  <2> HIDE DEF In, one
  <2>5. Sum(r, In(T) \union one) = Sum(r, In(T)) + Sum(r, one)
    BY <2>1, <2>2, SumUnion
  <2>6. Sum(f, T \union {v}) = Sum(r, In(T \union {v}))
    <3>1. Sum(r, In(T)) \in Nat /\ Sum(r, one) \in Nat BY <1>1, <2>2
    <3>2. Sum(r, In(T \union {v})) = Sum(r, In(T)) + Sum(r, one)
      BY <2>1, <2>5
    <3> QED BY <2>3, <2>4, <3>1, <3>2
  <2> QED BY <2>6 DEF In
<1>5. good = SUBSET V
  <2>1. good \in SUBSET SUBSET V OBVIOUS
  <2> HIDE DEF good
  <2>2. \A T \in SUBSET V, x \in V : x \notin T /\ T \in good => T \union {x} \in good
    BY <1>4
  <2> QED BY <1>3, <2>1, <2>2, OneByOne
<1>6. V \in good BY <1>5
<1>7. In(V) \in SUBSET X BY DEF Labelled
<1> QED BY <1>1, <1>2, <1>6, <1>7

(***************************************************************************)
(* Shares in percent                                                       *)
(***************************************************************************)

\* The quotient of a division, and its remainder
LEMMA Division ==
    ASSUME NEW a \in Nat, NEW b \in Nat \ {0}
    PROVE  a \div b \in Nat /\ b * (a \div b) <= a /\ a < b * (a \div b) + b
OBVIOUS

\* Products grow with their factors,
LEMMA Times ==
    ASSUME NEW a \in Nat, NEW b \in Nat, NEW k \in Nat, a <= b
    PROVE  k * a <= k * b /\ k * a \in Nat /\ k * b \in Nat
OBVIOUS

\* by the other factor at least.
LEMMA TimesLess ==
    ASSUME NEW a \in Nat, NEW b \in Nat, NEW k \in Nat, a < b
    PROVE  k * a + k <= k * b /\ k * a \in Nat /\ k * b \in Nat
OBVIOUS

\* A rounded share lies within half a percent of the share.
LEMMA Rounded ==
    ASSUME NEW count \in Nat, NEW total \in Nat \ {0}
    PROVE  LET p == Percent(count, total)
           IN  /\ p \in Nat
               /\ count <= total => p <= 100
               /\ p = 100 => 200 * total <= 200 * count + total
               /\ count = total => p = 100
               /\ count = 0 => p = 0
<1> DEFINE twice == 2 * total
           num == 200 * count + total
           p == num \div twice
<1>1. twice \in Nat \ {0} /\ num \in Nat OBVIOUS
<1> HIDE DEF twice, num
<1>2. p \in Nat /\ twice * p <= num /\ num < twice * p + twice BY <1>1, Division
<1> HIDE DEF p
<1>3. ASSUME count <= total PROVE p <= 100
  <2> SUFFICES ASSUME p > 100 PROVE FALSE BY <1>2
  <2>1. twice * 101 <= twice * p BY <1>1, <1>2, Times
  <2> QED BY <1>1, <1>2, <1>3, <2>1 DEF twice, num
<1>4. ASSUME p = 100 PROVE 200 * total <= 200 * count + total
  BY <1>2, <1>4 DEF twice, num
<1>5. ASSUME count = total PROVE p = 100
  <2>1. p <= 100 BY <1>3, <1>5
  <2> SUFFICES ASSUME p <= 99 PROVE FALSE BY <1>2, <2>1
  <2>2. twice * p <= twice * 99 BY <1>1, <1>2, Times
  <2> QED BY <1>1, <1>2, <1>5, <2>2 DEF twice, num
<1>6. ASSUME count = 0 PROVE p = 0
  <2> SUFFICES ASSUME p >= 1 PROVE FALSE BY <1>2
  <2>1. twice * 1 <= twice * p BY <1>1, <1>2, Times
  <2> QED BY <1>1, <1>2, <1>6, <2>1 DEF twice, num
<1> QED BY <1>2, <1>3, <1>4, <1>5, <1>6 DEF p, num, twice, Percent

(***************************************************************************)
(* Pages                                                                   *)
(***************************************************************************)

\* The first n rows are n, if there are as many.
LEMMA FirstSize ==
    ASSUME NEW ids \in SUBSET Nat, IsFiniteSet(ids), NEW size \in Nat
    PROVE  /\ First(ids, size) \subseteq ids
           /\ Cardinality(First(ids, size)) =
                IF size <= Cardinality(ids) THEN size ELSE Cardinality(ids)
<1> DEFINE UpTo(id) == {i \in ids : i <= id}
           c == Cardinality(ids)
           known == {n \in Nat : n <= c => Cardinality(First(ids, n)) = n}
<1>1. \A T \in SUBSET ids : IsFiniteSet(T) /\ Cardinality(T) \in Nat /\ Cardinality(T) <= c
  BY FS_Subset, FS_CardinalityType
<1>2. \A n : First(ids, n) = {id \in ids : Cardinality(UpTo(id)) <= n} BY DEF First
<1>3. \A id \in ids : id \in UpTo(id) /\ UpTo(id) \in SUBSET ids OBVIOUS
<1>4. \A id \in ids : Cardinality(UpTo(id)) \in Nat /\ Cardinality(UpTo(id)) >= 1
  <2> TAKE id \in ids
  <2> HIDE DEF UpTo
  <2>1. IsFiniteSet(UpTo(id)) /\ Cardinality(UpTo(id)) \in Nat /\ UpTo(id) # {}
    BY <1>1, <1>3
  <2> QED BY <2>1, FS_EmptySet
<1>5. 0 \in known
  <2>1. First(ids, 0) = {}
    <3>1. \A id \in ids : ~(Cardinality(UpTo(id)) <= 0)
      <4> HIDE DEF UpTo
      <4> QED BY <1>4
    <3> QED BY <1>2, <3>1
  <2> QED BY <2>1, FS_EmptySet
<1>6. ASSUME NEW n \in known PROVE n + 1 \in known
  <2> SUFFICES ASSUME n + 1 <= c PROVE Cardinality(First(ids, n + 1)) = n + 1 OBVIOUS
  <2> DEFINE some == First(ids, n)
             rest == ids \ some
  <2>1. n \in Nat /\ c \in Nat /\ n <= c BY <1>1
  <2>2. Cardinality(some) = n BY <2>1
  <2>3. some \in SUBSET ids BY <1>2
  <2>4. rest # {}
    <3> SUFFICES ASSUME rest = {} PROVE FALSE OBVIOUS
    <3>1. some = ids BY <2>3
    <3> QED BY <2>1, <2>2, <3>1
  <2>5. PICK least \in rest : \A i \in rest : least <= i
    <3>1. rest \in SUBSET Nat OBVIOUS
    <3> HIDE DEF rest
    <3> QED BY <2>4, <3>1, LeastNumber
  <2>6. \A id \in some, i \in ids : i <= id => i \in some
    <3> TAKE id \in some, i \in ids
    <3> HAVE i <= id
    <3>1. id \in ids /\ id \in Nat /\ i \in Nat /\ Cardinality(UpTo(id)) <= n BY <1>2, <2>3
    <3>2. UpTo(i) \in SUBSET UpTo(id)
      <4>1. \A k \in ids : k <= i => k <= id BY <3>1
      <4> QED BY <4>1
    <3>3. IsFiniteSet(UpTo(id)) /\ Cardinality(UpTo(i)) \in Nat BY <1>1, <1>3, <1>4, <3>1
    <3> HIDE DEF UpTo, some
    <3>4. Cardinality(UpTo(i)) <= Cardinality(UpTo(id)) BY <3>2, <3>3, FS_Subset
    <3>5. Cardinality(UpTo(i)) <= n BY <1>4, <2>1, <3>1, <3>3, <3>4
    <3> QED BY <1>2, <3>5 DEF some
  <2>7. UpTo(least) = some \union {least}
    <3>1. least \in ids /\ least \notin some OBVIOUS
    <3>2. \A i \in some : i <= least
      <4> TAKE i \in some
      <4>1. i \in Nat /\ least \in Nat BY <2>3, <3>1
      <4>2. ~(least <= i) BY <2>6, <3>1
      <4> QED BY <4>1, <4>2
    <3>3. \A i \in ids : i <= least /\ i \notin some => i = least
      <4> TAKE i \in ids
      <4> HAVE i <= least /\ i \notin some
      <4>1. least <= i BY <2>5
      <4>2. i \in Nat /\ least \in Nat BY <3>1
      <4> QED BY <4>1, <4>2
    <3>4. least <= least BY <3>1
    <3>5. \A i : i \in UpTo(least) <=> i \in ids /\ i <= least OBVIOUS
    <3> HIDE DEF some, UpTo
    <3> QED BY <2>3, <3>1, <3>2, <3>3, <3>4, <3>5
  <2>8. Cardinality(UpTo(least)) = n + 1
    <3>1. least \notin some /\ IsFiniteSet(some) BY <1>1, <2>3
    <3> HIDE DEF UpTo, some
    <3> QED BY <2>2, <2>7, <3>1, FS_AddElement
  <2>9. First(ids, n + 1) = some \union {least}
    <3>1. ASSUME NEW id \in ids PROVE Cardinality(UpTo(id)) <= n + 1 <=> id \in some \union {least}
      <4>1. CASE id \in some
        <5>1. Cardinality(UpTo(id)) <= n BY <1>2, <4>1
        <5>2. Cardinality(UpTo(id)) \in Nat BY <1>4
        <5> HIDE DEF UpTo, some
        <5> QED BY <2>1, <4>1, <5>1, <5>2
      <4>2. CASE id = least BY <2>1, <2>8, <4>2
      <4>3. CASE id \in rest /\ id # least
        <5>1. id \in Nat /\ least \in Nat /\ least <= id /\ ~(id <= least)
          <6>1. least <= id BY <2>5, <4>3
          <6> QED BY <4>3, <6>1
        <5>2. UpTo(least) \union {id} \in SUBSET UpTo(id) /\ id \notin UpTo(least)
          <6>1. \A k \in ids : k <= least => k <= id BY <5>1
          <6>2. id <= id BY <5>1
          <6>3. \A k, i : k \in UpTo(i) <=> k \in ids /\ k <= i OBVIOUS
          <6> HIDE DEF UpTo, some
          <6> QED BY <5>1, <6>1, <6>2, <6>3
        <5>3. IsFiniteSet(UpTo(id)) /\ IsFiniteSet(UpTo(least)) BY <1>1, <1>3
        <5> HIDE DEF UpTo
        <5>4. Cardinality(UpTo(least) \union {id}) = n + 1 + 1 BY <2>8, <5>2, <5>3, FS_AddElement
        <5>5. n + 1 + 1 <= Cardinality(UpTo(id)) BY <5>2, <5>3, <5>4, FS_Subset
        <5>6. ~(Cardinality(UpTo(id)) <= n + 1) BY <1>4, <2>1, <5>5
        <5> QED BY <4>3, <5>6
      <4> QED BY <4>1, <4>2, <4>3
    <3>2. some \union {least} \in SUBSET ids BY <2>3
    <3> HIDE DEF some, UpTo
    <3> QED BY <1>2, <3>1, <3>2
  <2> HIDE DEF some, UpTo
  <2> QED BY <2>7, <2>8, <2>9
<1>7. known = Nat
  <2>1. known \in SUBSET Nat OBVIOUS
  <2> HIDE DEF known
  <2> QED BY <1>5, <1>6, <2>1, Induction
<1>8. c \in Nat BY <1>1
<1>9. CASE size <= c
  <2>1. size \in known BY <1>7
  <2> QED BY <1>2, <1>9, <2>1
<1>10. CASE ~(size <= c)
  <2>1. First(ids, size) = ids
    <3>1. \A id \in ids : Cardinality(UpTo(id)) <= size
      <4> TAKE id \in ids
      <4>1. Cardinality(UpTo(id)) <= c /\ Cardinality(UpTo(id)) \in Nat BY <1>1, <1>3
      <4> HIDE DEF UpTo, c
      <4> QED BY <1>8, <1>10, <4>1
    <3> QED BY <1>2, <3>1
  <2> QED BY <1>10, <2>1
<1> QED BY <1>9, <1>10

\* What is left behind the first of the rows
LEMMA AfterSize ==
    ASSUME NEW ids \in SUBSET Nat, IsFiniteSet(ids), NEW size \in Nat
    PROVE  /\ Cardinality(ids) \in Nat
           /\ Cardinality(After(ids, size)) =
                IF size <= Cardinality(ids) THEN Cardinality(ids) - size ELSE 0
<1> DEFINE some == First(ids, size)
<1>1. some \in SUBSET ids /\ Cardinality(some) =
            IF size <= Cardinality(ids) THEN size ELSE Cardinality(ids)
  BY FirstSize
<1> HIDE DEF some
<1>2. Cardinality(ids) \in Nat BY FS_CardinalityType
<1>3. ids \intersect some = some BY <1>1
<1>4. Cardinality(ids \ some) = Cardinality(ids) - Cardinality(some)
  BY <1>3, FS_Difference
<1> QED BY <1>1, <1>2, <1>4 DEF After, some

\* The pages of so many rows
LEMMA Pages ==
    ASSUME NEW c \in Nat, NEW page \in Nat \ {0}, NEW r,
           r = IF (page - 1) * PageSize <= c THEN c - (page - 1) * PageSize ELSE 0
    PROVE  /\ r \in Nat
           /\ page > TotalPages(c) <=> r = 0
           /\ page < TotalPages(c) <=> r > PageSize
<1>1. PageSize \in Nat \ {0} BY SizesAssumption
<1> DEFINE q == TotalPages(c)
           P == PageSize
           before == P * (page - 1)
<1>2. q \in Nat /\ P * q <= c + P - 1 /\ c + P - 1 < P * q + P
  BY <1>1, Division DEF TotalPages
<1>3. before \in Nat /\ (page - 1) * P = before /\ P * page = before + P BY <1>1
<1> HIDE DEF q, P, before
<1>4. P \in Nat /\ P >= 1 BY <1>1 DEF P
<1>5. P * q \in Nat BY <1>2, <1>4
<1>6. page - 1 \in Nat OBVIOUS
<1>7. CASE page > q
  <2>1. P * q <= before BY <1>2, <1>4, <1>6, <1>7, Times DEF before
  <2> QED BY <1>2, <1>3, <1>4, <1>5, <1>7, <2>1 DEF q, P
<1>8. CASE page = q
  <2>1. P * q = before + P BY <1>3, <1>8
  <2> QED BY <1>2, <1>3, <1>4, <1>5, <1>8, <2>1 DEF q, P
<1>9. CASE page < q
  <2>1. P * page + P <= P * q BY <1>2, <1>4, <1>9, TimesLess
  <2> QED BY <1>2, <1>3, <1>4, <1>5, <1>9, <2>1 DEF q, P
<1> QED BY <1>2, <1>7, <1>8, <1>9

(***************************************************************************)
(* What the statements of a request have returned                          *)
(***************************************************************************)

\* The rows of upload_jobs are such as the table may hold.
JobsTyped ==
    /\ DOMAIN jobs \subseteq DOMAIN UploadDay
    /\ \A job \in DOMAIN jobs : jobs[job] \in JobRows

\* The statements of a request, answered or not
Answered == reader.todo \union DOMAIN reader.result

\* What a request has been answered so far is what its statements return of tables that
\* have not changed.
AnswerInv ==
    /\ contacts \subseteq Ids /\ JobsTyped
    /\ reader.kind \in {"none", "page", "preview", "handed", "insights"}
    /\ reader.kind # "none" =>
        /\ reader.page \in Nat \ {0}
        /\ reader.kind \in {"preview", "handed"} => reader.page = 1
        /\ IF reader.kind = "insights" THEN Answered \in Dashboards
           ELSE Answered = {"count", "rows"}
        /\ reader.same =>
            \A s \in DOMAIN reader.result : reader.result[s] \in Returned(s)

\* What a statement returns depends on the tables and on what was asked.
LEMMA ReturnedKept ==
    ASSUME UNCHANGED <<contacts, history, jobs>>,
           reader'.filter = reader.filter, reader'.page = reader.page,
           SizeOf(reader'.kind) = SizeOf(reader.kind), NEW s
    PROVE  Returned(s)' = Returned(s)
BY DEF Returned, Rows

\* Rows come and go, of contacts and of jobs that there may be.
LEMMA TablesTyped ==
    ASSUME AnswerInv, TableStep
    PROVE  contacts' \subseteq Ids /\ JobsTyped'
<1>1. contacts' \subseteq Ids
  BY DEF AnswerInv, TableStep, Import, Delete, RecordUsage, UpdateJob, DeleteJob
<1>2. ASSUME jobs' = jobs PROVE JobsTyped'
  BY <1>2 DEF AnswerInv, JobsTyped
<1>3. ASSUME NEW job \in DOMAIN UploadDay, DeleteJob(job) PROVE JobsTyped'
  BY <1>3 DEF AnswerInv, JobsTyped, DeleteJob
<1>4. ASSUME NEW job \in DOMAIN UploadDay, NEW row \in JobRows, UpdateJob(job, row)
      PROVE  JobsTyped'
  BY <1>4 DEF AnswerInv, JobsTyped, UpdateJob
<1>5. ASSUME NEW id \in Ids, Import(id) \/ Delete(id) PROVE jobs' = jobs
  BY <1>5 DEF Import, Delete
<1>6. ASSUME NEW ids \in SUBSET Ids, NEW use \in Uses, RecordUsage(ids, use)
      PROVE jobs' = jobs
  BY <1>6 DEF RecordUsage
<1> QED BY <1>1, <1>2, <1>3, <1>4, <1>5, <1>6 DEF TableStep

\* A statement's answer is what it returns of the tables as they are.
LEMMA StatementKeeps ==
    ASSUME AnswerInv, ReaderShape, NEW statement \in reader.todo, Statement(statement)
    PROVE  AnswerInv'
<1>1. PICK returned \in Returned(statement) :
        reader' = [reader EXCEPT !.todo = @ \ {statement},
                                 !.result = [s \in DOMAIN @ \union {statement} |->
                                                IF s = statement THEN returned ELSE @[s]]]
  BY DEF Statement
<1>2. UNCHANGED <<contacts, history, jobs>> BY DEF Statement, tables
<1>3. /\ reader'.kind = reader.kind /\ reader'.filter = reader.filter
      /\ reader'.page = reader.page /\ reader'.same = reader.same
      /\ reader'.todo = reader.todo \ {statement}
      /\ reader'.result = [s \in DOMAIN reader.result \union {statement} |->
                                IF s = statement THEN returned ELSE reader.result[s]]
  BY <1>1 DEF ReaderShape
<1>4. \A s : Returned(s)' = Returned(s) BY <1>2, <1>3, ReturnedKept
<1>5. Answered' = Answered BY <1>3 DEF Answered
<1>6. reader.kind # "none" /\ reader.same =>
        \A s \in DOMAIN reader'.result : reader'.result[s] \in Returned(s)'
  BY <1>3, <1>4 DEF AnswerInv
<1>7. JobsTyped' BY <1>2 DEF AnswerInv, JobsTyped
<1>8. reader'.kind # "none" /\ reader'.same =>
        \A s \in DOMAIN reader'.result : reader'.result[s] \in Returned(s)'
  BY <1>3, <1>6
<1> QED BY <1>2, <1>3, <1>5, <1>7, <1>8 DEF AnswerInv

\* A request begins with no answer at all.
LEMMA AskKeeps ==
    ASSUME AnswerInv, NEW kind \in {"page", "preview", "insights"}, NEW filter,
           NEW page \in Nat \ {0}, NEW todo, Ask(kind, filter, page, todo),
           kind = "preview" => page = 1,
           IF kind = "insights" THEN todo \in Dashboards ELSE todo = {"count", "rows"}
    PROVE  AnswerInv'
<1>1. /\ reader'.kind = kind /\ reader'.page = page /\ reader'.todo = todo
      /\ DOMAIN reader'.result = {}
      /\ UNCHANGED <<contacts, history, jobs>>
  BY DEF Ask, tables
<1>2. Answered' = todo BY <1>1 DEF Answered
<1>3. JobsTyped' BY <1>1 DEF AnswerInv, JobsTyped
<1> QED BY <1>1, <1>2, <1>3 DEF AnswerInv

\* Whatever else happens meanwhile, AnswerInv holds.
LEMMA AnswerInvariant == Spec => []AnswerInv
<1>1. Init => AnswerInv
  BY DEF Init, NoReader, AnswerInv, JobsTyped
<1>2. AnswerInv /\ Shapes /\ [Next]_vars => AnswerInv'
  <2> SUFFICES ASSUME AnswerInv, Shapes, [Next]_vars PROVE AnswerInv'
    OBVIOUS
  <2>1. ASSUME UNCHANGED <<contacts, history, jobs, reader>> PROVE AnswerInv'
    <3>1. \A s : Returned(s)' = Returned(s) BY <2>1, ReturnedKept
    <3> QED BY <2>1, <3>1 DEF AnswerInv, JobsTyped, Answered
  <2>2. CASE UNCHANGED vars
    BY <2>1, <2>2 DEF vars, tables
  <2>3. CASE TableStep
    <3>1. contacts' \subseteq Ids /\ JobsTyped' BY <2>3, TablesTyped
    <3>2. /\ reader'.kind = reader.kind /\ reader'.page = reader.page
          /\ reader'.todo = reader.todo /\ reader'.result = reader.result
          /\ reader.kind # "none" => reader'.same = FALSE
      BY <2>3, TableKeeps DEF TablesChange, Shapes, ReaderShape
    <3>3. Answered' = Answered BY <3>2 DEF Answered
    <3> QED BY <3>1, <3>2, <3>3 DEF AnswerInv
  <2>4. CASE WalkStep
    BY <2>1, <2>4, WalkKeeps DEF tables
  <2>5. CASE ReaderStep
    <3>1. ASSUME NEW form \in PageForms, Preview(form) PROVE AnswerInv'
      BY <3>1, AskKeeps DEF Preview
    <3>2. ASSUME NEW form \in PageForms, NEW page \in 1 .. TotalPages(Cardinality(Ids)),
                 AskPage(form, page)
          PROVE  AnswerInv'
      <4>1. page \in Nat \ {0} OBVIOUS
      <4> QED BY <3>2, <4>1, AskKeeps DEF AskPage
    <3>3. CASE AskInsights
      BY <3>3, AskKeeps DEF AskInsights
    <3>4. CASE UseData
      <4>1. /\ reader.kind = "preview" /\ reader'.kind = "handed"
            /\ reader'.page = reader.page /\ reader'.filter = reader.filter
            /\ reader'.todo = reader.todo /\ reader'.result = reader.result
            /\ reader'.same = reader.same
            /\ UNCHANGED <<contacts, history, jobs>>
        BY <3>4 DEF UseData, tables, Shapes, ReaderShape
      <4>2. \A s : Returned(s)' = Returned(s)
        <5>1. SizeOf(reader'.kind) = SizeOf(reader.kind) BY <4>1 DEF SizeOf
        <5> QED BY <4>1, <5>1, ReturnedKept
      <4>3. Answered' = Answered BY <4>1 DEF Answered
      <4>4. JobsTyped' BY <4>1 DEF AnswerInv, JobsTyped
      <4> QED BY <4>1, <4>2, <4>3, <4>4 DEF AnswerInv
    <3>5. CASE Close
      BY <3>5 DEF Close, NoReader, AnswerInv, JobsTyped, tables
    <3>6. ASSUME NEW statement \in reader.todo, Statement(statement) PROVE AnswerInv'
      BY <3>6, StatementKeeps DEF Shapes
    <3> QED BY <2>5, <3>1, <3>2, <3>3, <3>4, <3>5, <3>6 DEF ReaderStep
  <2>6. CASE Tick \/ DestroyPool \/ HangsUp
    BY <2>1, <2>6, HangsUpKeeps DEF Tick, DestroyPool, tables
  <2>7. CASE Signal \/ BreaksOff
    <3>1. UNCHANGED <<contacts, history, jobs>> /\ (reader' = reader \/ reader' = NoReader)
      BY <2>7, BreaksOffKeeps DEF tables
    <3>2. CASE reader' = NoReader
      BY <3>1, <3>2 DEF NoReader, AnswerInv, JobsTyped
    <3> QED BY <2>1, <3>1, <3>2
  <2> QED
    BY <2>2, <2>3, <2>4, <2>5, <2>6, <2>7, NextSorted
<1> QED BY <1>1, <1>2, ShapesInvariant, PTL DEF Spec

(***************************************************************************)
(* The parts of a dashboard                                                *)
(***************************************************************************)

\* A distribution of the contacts over the values of a column: finitely many values,
\* each with the contacts that hold it.
Distributes(groups, column) ==
    /\ IsFiniteSet(DOMAIN groups)
    /\ \A value \in DOMAIN groups : groups[value] = CountOf(contacts, column, value)

\* There are finitely many contacts.
LEMMA ContactsFinite ==
    ASSUME contacts \subseteq Ids
    PROVE  /\ IsFiniteSet(contacts) /\ Cardinality(contacts) \in Nat
           /\ \A some \in SUBSET contacts :
                /\ IsFiniteSet(some) /\ Cardinality(some) \in Nat
                /\ Cardinality(some) <= Cardinality(contacts)
<1>1. IsFiniteSet(contacts) BY IdsAssumption, FS_Subset
<1> QED BY <1>1, FS_Subset, FS_CardinalityType

\* GROUP BY distributes the contacts,
LEMMA GroupsDistribute ==
    ASSUME contacts \subseteq Ids, NEW column
    PROVE  Distributes(Groups(contacts, column), column)
<1> DEFINE ids == IF column \in {"segment", "language"} THEN contacts ELSE Having(contacts, column)
           values == {Contact[id][column] : id \in ids}
           f == [id \in ids |-> Contact[id][column]]
<1>1. ids \in SUBSET contacts BY DEF Having
<1> HIDE DEF ids
<1>2. IsFiniteSet(ids) BY <1>1, ContactsFinite
<1>3. f \in Surjection(ids, values) BY DEF Surjection
<1> HIDE DEF f
<1>4. IsFiniteSet(values) BY <1>2, <1>3, FS_Surjection
<1>5. Groups(contacts, column) = [value \in values |-> CountOf(contacts, column, value)]
  BY DEF Groups, ids
<1> HIDE DEF values
<1> QED BY <1>4, <1>5 DEF Distributes

\* whichever of the groups the LIMIT leaves,
LEMMA TopsDistribute ==
    ASSUME NEW groups, NEW column, Distributes(groups, column), NEW top \in Tops(groups)
    PROVE  Distributes(top, column)
<1>1. PICK values \in SUBSET DOMAIN groups : top = [value \in values |-> groups[value]]
  BY DEF Tops
<1>2. IsFiniteSet(values) BY <1>1, FS_Subset DEF Distributes
<1> QED BY <1>1, <1>2 DEF Distributes

\* and so does every answer of such a statement.
LEMMA AnswersDistribute ==
    ASSUME contacts \subseteq Ids, NEW column \in Grouped \union Texts,
           NEW groups \in InsightsReturn(column, contacts, jobs)
    PROVE  Distributes(groups, column)
<1>1. CASE column \in Grouped
  <2>1. InsightsReturn(column, contacts, jobs) = {Groups(contacts, column)}
    BY <1>1 DEF InsightsReturn, Grouped, Texts
  <2> QED BY <2>1, GroupsDistribute
<1>2. CASE column \in Texts
  <2>1. InsightsReturn(column, contacts, jobs) = Tops(Groups(contacts, column))
    BY <1>2 DEF InsightsReturn, Grouped, Texts
  <2> QED BY <2>1, GroupsDistribute, TopsDistribute
<1> QED BY <1>1, <1>2

\* The contacts with one of the values
Holding(column, values) == {id \in contacts : Contact[id][column] \in values}

\* What is drawn of it adds up to the contacts whose value is drawn, none of which is blank.
LEMMA DrawnAdds ==
    ASSUME contacts \subseteq Ids, NEW column, NEW groups, Distributes(groups, column)
    PROVE  LET drawn == ToDistribution(column, groups)
           IN  /\ Distributes(drawn, column)
               /\ \A value \in DOMAIN drawn :
                    drawn[value] \in Nat /\ drawn[value] <= Cardinality(contacts)
               /\ Sum(drawn, DOMAIN drawn) \in Nat
               /\ Sum(drawn, DOMAIN drawn) <= Cardinality(contacts)
               /\ Sum(drawn, DOMAIN drawn) <= Cardinality(Having(contacts, column))
               /\ Sum(drawn, DOMAIN drawn) = Cardinality(Holding(column, DOMAIN drawn))
<1> DEFINE drawn == ToDistribution(column, groups)
           V == DOMAIN drawn
           label == [id \in contacts |-> Contact[id][column]]
           shown == Holding(column, V)
<1>1. /\ V \in SUBSET DOMAIN groups
      /\ \A value \in V : drawn[value] = groups[value] /\ ~IsNull(column, value)
  BY DEF ToDistribution
<1> HIDE DEF drawn
<1>2. Distributes(drawn, column)
  <2>1. IsFiniteSet(V) BY <1>1, FS_Subset DEF Distributes
  <2> QED BY <1>1, <2>1 DEF Distributes
<1>3. \A v \in V : drawn[v] = Cardinality(Labelled(contacts, label, {v}))
  <2> TAKE v \in V
  <2>1. Labelled(contacts, label, {v}) = {id \in contacts : Contact[id][column] = v}
    BY DEF Labelled
  <2> QED BY <1>2, <2>1 DEF Distributes, CountOf
<1>4. /\ Sum(drawn, V) = Cardinality(Labelled(contacts, label, V))
      /\ Sum(drawn, V) <= Cardinality(contacts)
      /\ \A v \in V : drawn[v] \in Nat
  <2>1. IsFiniteSet(V) BY <1>2 DEF Distributes
  <2>2. IsFiniteSet(contacts) BY ContactsFinite
  <2> HIDE DEF V, label, shown
  <2> QED BY <1>3, <2>1, <2>2, GroupsAdd
<1>5. Labelled(contacts, label, V) = shown BY DEF Labelled, Holding
<1>6. shown \in SUBSET Having(contacts, column)
  BY <1>1 DEF Having, Holding
<1>7. shown \in SUBSET contacts /\ Having(contacts, column) \in SUBSET contacts
  BY DEF Having, Holding
<1>8. \A v \in V : drawn[v] <= Cardinality(contacts)
  <2> TAKE v \in V
  <2>1. Labelled(contacts, label, {v}) \in SUBSET contacts BY DEF Labelled
  <2> QED BY <1>3, <2>1, ContactsFinite
<1> HIDE DEF shown, label, V
<1>9. Sum(drawn, V) = Cardinality(shown) BY <1>4, <1>5
<1>10. Cardinality(shown) \in Nat /\ Cardinality(shown) <= Cardinality(Having(contacts, column))
  <2>1. IsFiniteSet(Having(contacts, column)) BY <1>7, ContactsFinite
  <2>2. Cardinality(shown) \in Nat BY <1>7, ContactsFinite
  <2> QED BY <1>6, <2>1, <2>2, FS_Subset
<1> QED BY <1>2, <1>4, <1>8, <1>9, <1>10 DEF drawn, V, shown

\* A share is a number up to 100; what is all is 100.
LEMMA Shared ==
    ASSUME NEW count \in Nat, NEW total \in Nat
    PROVE  /\ Pct(count, total) \in 0 .. 100
           /\ count <= total /\ Pct(count, total) = 100 => 200 * (total - count) <= total
           /\ count = total /\ total # 0 => Pct(count, total) = 100
           /\ count = 0 => Pct(count, total) = 0
<1>1. CASE total = 0 BY <1>1 DEF Pct
<1>2. CASE total # 0
  <2> DEFINE p == Percent(count, total)
  <2>1. /\ p \in Nat
        /\ count <= total => p <= 100
        /\ p = 100 => 200 * total <= 200 * count + total
        /\ count = total => p = 100
        /\ count = 0 => p = 0
    BY <1>2, Rounded
  <2>2. Pct(count, total) = IF p > 100 THEN 100 ELSE p BY <1>2 DEF Pct
  <2> HIDE DEF p
  <2>3. count <= total /\ p = 100 => 200 * (total - count) <= total BY <2>1
  <2> QED BY <2>1, <2>2, <2>3
<1> QED BY <1>1, <1>2

\* The longest of what is counted, and at least 1
LEMMA MaxOfCounts ==
    ASSUME NEW f, IsFiniteSet(DOMAIN f), \A d \in DOMAIN f : f[d] \in Nat
    PROVE  LET m == MaxOf(Counts(f))
           IN  /\ m \in Nat \ {0}
               /\ m = 1 \/ \E d \in DOMAIN f : f[d] = m
               /\ \A d \in DOMAIN f : f[d] <= m
<1> DEFINE D == DOMAIN f
           counts == {f[d] : d \in D}
           S == {1} \union counts
           g == [d \in D |-> f[d]]
<1>1. g \in Surjection(D, counts) BY DEF Surjection
<1>2. counts \in SUBSET Nat OBVIOUS
<1>3. IsFiniteSet(counts)
  <2> HIDE DEF g, counts
  <2> QED BY <1>1, FS_Surjection
<1>4. IsFiniteSet(S)
  <2> HIDE DEF counts
  <2>1. IsFiniteSet(counts \union {1}) BY <1>3, FS_AddElement
  <2>2. S = counts \union {1} OBVIOUS
  <2> QED BY <2>1, <2>2
<1>5. Max(S) \in S /\ \A n \in S : n <= Max(S)
  <2>1. S \in SUBSET Nat /\ S # {} BY <1>2
  <2> HIDE DEF S
  <2> QED BY <1>4, <2>1, MaxProperty
<1>6. 1 <= Max(S) /\ Max(S) \in Nat BY <1>2, <1>5
<1>7. MaxOf(Counts(f)) = Max(S) BY DEF MaxOf, Counts
<1> DEFINE m == Max(S)
<1>8. \A d \in D : f[d] \in S OBVIOUS
<1>9. m = 1 \/ \E d \in D : f[d] = m BY <1>5
<1>10. m \in Nat \ {0} BY <1>6
<1>11. \A d \in D : f[d] <= m BY <1>5, <1>8
<1> HIDE DEF m
<1> QED BY <1>7, <1>9, <1>10, <1>11 DEF m

\* The longest bar of a distribution that is not empty fills the card.
LEMMA LongestFills ==
    ASSUME NEW drawn, IsFiniteSet(DOMAIN drawn), \A v \in DOMAIN drawn : drawn[v] \in Nat,
           Sum(drawn, DOMAIN drawn) > 0
    PROVE  Max(Counts(BarsOfLongest(drawn))) = 100
<1> DEFINE D == DOMAIN drawn
           m == MaxOf(Counts(drawn))
           lengths == {Pct(drawn[key], m) : key \in D}
<1>1. /\ m \in Nat \ {0}
      /\ m = 1 \/ \E d \in D : drawn[d] = m
      /\ \A d \in D : drawn[d] <= m
  BY MaxOfCounts
<1> HIDE DEF m
<1>2. PICK some \in D : drawn[some] > 0
  BY SumPositive
<1>3. PICK longest \in D : drawn[longest] = m
  <2>1. drawn[some] \in Nat /\ drawn[some] <= m BY <1>1
  <2>2. CASE m = 1 BY <1>2, <2>1, <2>2
  <2> QED BY <1>1, <2>2
<1>4. Pct(drawn[longest], m) = 100 BY <1>1, <1>3, Shared
<1>5. \A key \in D : Pct(drawn[key], m) \in Nat /\ Pct(drawn[key], m) <= 100
  <2> TAKE key \in D
  <2>1. Pct(drawn[key], m) \in 0 .. 100 BY <1>1, Shared
  <2> HIDE DEF D
  <2> QED BY <2>1
<1>6. lengths \in SUBSET Nat /\ 100 \in lengths /\ \A n \in lengths : n <= 100
  BY <1>4, <1>5
<1>7. IsFiniteSet(lengths)
  <2> DEFINE g == [key \in D |-> Pct(drawn[key], m)]
  <2>1. g \in Surjection(D, lengths) BY DEF Surjection
  <2> HIDE DEF g, lengths
  <2> QED BY <2>1, FS_Surjection
<1>8. Counts(BarsOfLongest(drawn)) = lengths
  BY DEF BarsOfLongest, Shares, Counts, m
<1>9. Max(lengths) \in lengths /\ \A n \in lengths : n <= Max(lengths)
  <2> HIDE DEF lengths
  <2> QED BY <1>6, <1>7, MaxProperty
<1>10. Max(lengths) = 100
  <2> HIDE DEF lengths
  <2>1. Max(lengths) \in Nat /\ Max(lengths) <= 100 /\ 100 <= Max(lengths) BY <1>6, <1>9
  <2> QED BY <2>1
<1> QED BY <1>8, <1>10

\* The card of the uploads: every job has one status, and the last thirty days hold no
\* more rows than all of them.
LEMMA JobsAgree ==
    ASSUME JobsTyped
    PROVE  LET stats == JobStats(jobs)
               activity == Activity(jobs)
               rows == [day \in DOMAIN activity |-> activity[day].rows]
           IN  /\ Sum(stats.status, Status) = stats.total
               /\ Sum(rows, DOMAIN activity) <= stats.rows.total
               /\ stats.rows.total = 0 =>
                    {Days(activity)[day] : day \in DOMAIN Days(activity)} \subseteq {0}
<1> DEFINE J == DOMAIN jobs
           stats == JobStats(jobs)
           activity == Activity(jobs)
           V == DOMAIN activity
           rows == [day \in V |-> activity[day].rows]
           r == [job \in J |-> jobs[job].total]
           onDay == [job \in J |-> UploadDay[job]]
           status == [job \in J |-> jobs[job].status]
<1>1. IsFiniteSet(J)
  BY JobsAssumption, FS_Subset DEF JobsTyped
<1>2. \A job \in J : jobs[job].total \in Nat /\ jobs[job].status \in Status
  BY JobsAssumption DEF JobsTyped
<1>3. Sum(stats.status, Status) = stats.total
  <2> DEFINE counts == [s \in Status |-> Cardinality({job \in J : jobs[job].status = s})]
  <2>1. stats.status = counts /\ stats.total = Cardinality(J) BY DEF JobStats
  <2>2. \A s \in Status : counts[s] = Cardinality(Labelled(J, status, {s}))
    <3> TAKE s \in Status
    <3>1. Labelled(J, status, {s}) = {job \in J : jobs[job].status = s} BY DEF Labelled
    <3> QED BY <3>1
  <2>3. Labelled(J, status, Status) = J BY <1>2 DEF Labelled
  <2>4. IsFiniteSet(Status)
    <3>1. Status = {"queued", "processing", "done"} \union {"failed"} BY DEF Status
    <3>2. IsFiniteSet({"queued"}) BY FS_Singleton
    <3>3. IsFiniteSet({"queued"} \union {"processing"}) BY <3>2, FS_AddElement
    <3>4. IsFiniteSet({"queued"} \union {"processing"} \union {"done"}) BY <3>3, FS_AddElement
    <3>5. IsFiniteSet({"queued"} \union {"processing"} \union {"done"} \union {"failed"})
      BY <3>4, FS_AddElement
    <3>6. Status = {"queued"} \union {"processing"} \union {"done"} \union {"failed"}
      BY DEF Status
    <3> QED BY <3>5, <3>6, Zenon
  <2> HIDE DEF counts, status, J, stats
  <2>5. Sum(counts, Status) = Cardinality(Labelled(J, status, Status))
    BY <1>1, <2>2, <2>4, GroupsAdd
  <2> QED BY <2>1, <2>3, <2>5
<1>4. stats.rows.total = Sum(r, J) BY DEF JobStats
<1>5. V \subseteq {UploadDay[job] : job \in J}
  BY DEF Activity
<1>6. IsFiniteSet(V)
  <2> DEFINE days == {UploadDay[job] : job \in J}
  <2>1. onDay \in Surjection(J, days) BY DEF Surjection
  <2>2. V \in SUBSET days BY <1>5
  <2> HIDE DEF onDay, J, V, days
  <2>3. IsFiniteSet(days) BY <1>1, <2>1, FS_Surjection
  <2> QED BY <2>2, <2>3, FS_Subset
<1>7. \A day \in V : rows[day] = Sum(r, Labelled(J, onDay, {day}))
  <2> TAKE day \in V
  <2> DEFINE Of == {job \in J : UploadDay[job] = day}
  <2>1. activity[day].rows = Sum(r, Of) BY DEF Activity
  <2>2. Labelled(J, onDay, {day}) = Of BY DEF Labelled
  <2> HIDE DEF activity, Of, r, onDay, V
  <2>3. rows[day] = activity[day].rows OBVIOUS
  <2> HIDE DEF rows
  <2> QED BY <2>1, <2>2, <2>3
<1>8. /\ Sum(rows, V) <= Sum(r, J) /\ Sum(r, J) \in Nat
      /\ \A day \in V : rows[day] \in Nat /\ rows[day] <= Sum(r, J)
  <2>1. \A job \in J : r[job] \in Nat BY <1>2
  <2> HIDE DEF rows, V, r, J, onDay
  <2> QED BY <1>1, <1>6, <1>7, <2>1, DaysAdd
<1>9. ASSUME Sum(r, J) = 0 PROVE {Days(activity)[day] : day \in DOMAIN Days(activity)} \subseteq {0}
  <2> DEFINE m == MaxOf({activity[day].rows : day \in V})
  <2>1. \A day \in V : rows[day] = activity[day].rows OBVIOUS
  <2>2. \A day \in V : activity[day].rows = 0
    <3> HIDE DEF rows, V, activity
    <3> QED BY <1>8, <1>9, <2>1
  <2>3. m \in Nat \ {0}
    <3>1. {activity[day].rows : day \in V} = Counts(rows) /\ DOMAIN rows = V
      <4> HIDE DEF activity
      <4> QED BY DEF Counts
    <3> HIDE DEF rows, V, activity
    <3> QED BY <1>6, <1>8, <3>1, MaxOfCounts
  <2>4. Days(activity) = [day \in V |-> Pct(activity[day].rows, m)]
    BY DEF Days
  <2> HIDE DEF m, activity
  <2>5. \A day \in V : Pct(activity[day].rows, m) = 0
    BY <2>2, <2>3, Shared
  <2> QED BY <2>4, <2>5
<1> HIDE DEF rows, V, r, J, stats, activity
<1>10. Sum(rows, V) <= stats.rows.total /\ (stats.rows.total = 0 => Sum(r, J) = 0)
  BY <1>4, <1>8
<1> QED BY <1>3, <1>9, <1>10 DEF rows, V, stats, activity

\* The ring of tagged and untagged contacts is closed.
LEMMA TaggedRing ==
    ASSUME contacts \subseteq Ids, NEW answer, answer \in InsightsReturn("tagged", contacts, jobs)
    PROVE  /\ Sum(answer, DOMAIN answer) = Cardinality(contacts)
           /\ answer.tagged \in Nat /\ answer.untagged \in Nat
           /\ answer.tagged + answer.untagged = Cardinality(contacts)
<1> DEFINE T == Tagged(contacts)
           U == contacts \ T
           both == {"tagged", "untagged"}
           label == [id \in contacts |-> IF id \in T THEN "tagged" ELSE "untagged"]
<1>1. answer = [tagged |-> Cardinality(T), untagged |-> Cardinality(U)]
  BY DEF InsightsReturn, Grouped, Texts
<1>2. T \in SUBSET contacts /\ U \in SUBSET contacts BY DEF Tagged
<1>3. DOMAIN answer = both /\ answer.tagged = Cardinality(T) /\ answer.untagged = Cardinality(U)
  BY <1>1
<1>4. Labelled(contacts, label, {"tagged"}) = T /\ Labelled(contacts, label, {"untagged"}) = U
      /\ Labelled(contacts, label, both) = contacts
  BY <1>2 DEF Labelled
<1>5. \A v \in both : answer[v] = Cardinality(Labelled(contacts, label, {v}))
  <2> HIDE DEF T, U, label
  <2> QED BY <1>3, <1>4
<1>6. IsFiniteSet(both)
  <2>1. IsFiniteSet({"tagged"}) BY FS_Singleton
  <2>2. IsFiniteSet({"tagged"} \union {"untagged"}) BY <2>1, FS_AddElement
  <2>3. both = {"tagged"} \union {"untagged"} OBVIOUS
  <2> QED BY <2>2, <2>3, Zenon
<1> HIDE DEF T, label, both
<1>7. Sum(answer, both) = Cardinality(contacts)
  <2>1. IsFiniteSet(contacts) BY ContactsFinite
  <2>2. Sum(answer, both) = Cardinality(Labelled(contacts, label, both))
    BY <1>5, <1>6, <2>1, GroupsAdd
  <2> QED BY <1>4, <2>2
<1>8. Cardinality(T) + Cardinality(U) = Cardinality(contacts)
  <2>1. IsFiniteSet(contacts) /\ Cardinality(contacts) \in Nat /\ Cardinality(T) \in Nat
    BY <1>2, ContactsFinite
  <2>2. contacts \intersect T = T BY <1>2
  <2>3. Cardinality(U) = Cardinality(contacts) - Cardinality(T) BY <2>1, <2>2, FS_Difference
  <2> QED BY <2>1, <2>3
<1>9. Cardinality(T) \in Nat /\ Cardinality(U) \in Nat BY <1>2, ContactsFinite
<1> QED BY <1>3, <1>7, <1>8, <1>9

\* The parts of a dashboard that was read from one state of the tables agree.
LEMMA PartsAgree ==
    ASSUME contacts \subseteq Ids, JobsTyped, NEW answer, DOMAIN answer \in Dashboards,
           \A s \in DOMAIN answer : answer[s] \in InsightsReturn(s, contacts, jobs)
    PROVE  DashboardAgrees(answer)
<1> DEFINE total == answer.total
           Has(statements) == statements \subseteq DOMAIN answer
           drawn == [column \in (Grouped \union Texts) \intersect DOMAIN answer |->
                        ToDistribution(column, answer[column])]
           All(column) == Sum(drawn[column], DOMAIN drawn[column])
           Lengths(bars) == {bars[key] : key \in DOMAIN bars}
           all == Cardinality(contacts)
<1>1. total = all
  <2>1. "total" \in DOMAIN answer BY DashboardsAssumption
  <2>2. InsightsReturn("total", contacts, jobs) = {all} BY DEF InsightsReturn, Grouped, Texts
  <2> QED BY <2>1, <2>2
<1>2. all \in Nat BY ContactsFinite
<1>3. \A column \in DOMAIN drawn :
        /\ drawn[column] = ToDistribution(column, answer[column])
        /\ Distributes(answer[column], column)
  BY AnswersDistribute
<1>4. \A column \in DOMAIN drawn :
        /\ Distributes(drawn[column], column)
        /\ \A value \in DOMAIN drawn[column] :
              drawn[column][value] \in Nat /\ drawn[column][value] <= all
        /\ All(column) \in Nat /\ All(column) <= all
        /\ All(column) <= Cardinality(Having(contacts, column))
        /\ All(column) = Cardinality(Holding(column, DOMAIN drawn[column]))
  <2> TAKE column \in DOMAIN drawn
  <2> HIDE DEF drawn
  <2> QED BY <1>3, DrawnAdds
<1>5. \A column \in DOMAIN drawn : All(column) <= total BY <1>1, <1>4
<1>6. \A column \in DOMAIN drawn \intersect Texts :
        All(column) > 0 => Max(Lengths(BarsOfLongest(drawn[column]))) = 100
  <2> TAKE column \in DOMAIN drawn \intersect Texts
  <2> DEFINE bars == drawn[column]
  <2>1. Lengths(BarsOfLongest(bars)) = Counts(BarsOfLongest(bars)) BY DEF Counts
  <2>2. IsFiniteSet(DOMAIN bars) /\ \A v \in DOMAIN bars : bars[v] \in Nat
    <3> HIDE DEF drawn
    <3> QED BY <1>4 DEF Distributes
  <2> HIDE DEF bars
  <2>3. Sum(bars, DOMAIN bars) > 0 => Max(Counts(BarsOfLongest(bars))) = 100
    BY <2>2, LongestFills
  <2> QED BY <2>1, <2>3 DEF bars
<1>7. Has({"segment"}) =>
        /\ All("segment") = total
        /\ \A value \in DOMAIN drawn["segment"] :
            Shares(drawn["segment"], total)[value] = 100 =>
                200 * (total - drawn["segment"][value]) <= total
  <2> SUFFICES ASSUME Has({"segment"})
               PROVE  /\ All("segment") = total
                      /\ \A value \in DOMAIN drawn["segment"] :
                          Shares(drawn["segment"], total)[value] = 100 =>
                              200 * (total - drawn["segment"][value]) <= total
    OBVIOUS
  <2>1. "segment" \in DOMAIN drawn BY DEF Grouped
  <2>2. answer["segment"] = Groups(contacts, "segment")
    BY DEF InsightsReturn, Grouped, Texts
  <2>3. \A id \in contacts : Contact[id]["segment"] \in DOMAIN drawn["segment"]
    <3> TAKE id \in contacts
    <3>1. Contact[id]["segment"] \notin {None, ""} BY ContactsAssumption
    <3>2. Contact[id]["segment"] \in DOMAIN answer["segment"] BY <2>2 DEF Groups
    <3>3. "segment" \notin Texts BY DEF Texts
    <3>4. Contact[id]["segment"] \in DOMAIN ToDistribution("segment", answer["segment"])
      BY <3>1, <3>2, <3>3 DEF ToDistribution, IsNull, IsBlank
    <3> HIDE DEF drawn
    <3> QED BY <1>3, <2>1, <3>4
  <2>4. Holding("segment", DOMAIN drawn["segment"]) = contacts
    BY <2>3 DEF Holding
  <2> HIDE DEF drawn
  <2>5. All("segment") = total BY <1>1, <1>4, <2>1, <2>4
  <2>6. ASSUME NEW value \in DOMAIN drawn["segment"],
               Shares(drawn["segment"], total)[value] = 100
        PROVE  200 * (total - drawn["segment"][value]) <= total
    <3>1. drawn["segment"][value] \in Nat /\ drawn["segment"][value] <= all BY <1>4, <2>1
    <3>2. Shares(drawn["segment"], total)[value] = Pct(drawn["segment"][value], total)
      BY DEF Shares
    <3> QED BY <1>1, <1>2, <2>6, <3>1, <3>2, Shared
  <2> QED BY <2>5, <2>6
<1>8. ASSUME NEW slices, NEW sum, sum = Sum(slices, DOMAIN slices), sum \in Nat, sum <= all
      PROVE  /\ RingEnd(slices, total) <= 100
             /\ total > 0 /\ sum = all => RingEnd(slices, total) = 100
  <2>1. CASE total = 0 BY <2>1 DEF RingEnd
  <2>2. CASE total # 0
    <3>1. total \in Nat \ {0} BY <1>1, <1>2, <2>2
    <3>2. RingEnd(slices, total) = Percent(sum, total) BY <1>8, <2>2 DEF RingEnd
    <3> QED BY <1>1, <1>8, <3>1, <3>2, Rounded
  <2> QED BY <2>1, <2>2
<1>9. Has({"gender"}) => RingEnd(drawn["gender"], total) <= 100
  <2> SUFFICES ASSUME Has({"gender"}) PROVE RingEnd(drawn["gender"], total) <= 100 OBVIOUS
  <2>1. "gender" \in DOMAIN drawn BY DEF Grouped
  <2> HIDE DEF drawn
  <2> QED BY <1>4, <1>8, <2>1
<1>10. Has({"optOut", "tagged"}) =>
        /\ \A switch \in OptOuts : answer.optOut[switch] <= total
        /\ total > 0 => RingEnd(answer.tagged, total) = 100
        /\ Kpis(answer).tagged = 100 => 200 * answer.tagged.untagged <= total
  <2> SUFFICES ASSUME Has({"optOut", "tagged"})
               PROVE  /\ \A switch \in OptOuts : answer.optOut[switch] <= total
                      /\ total > 0 => RingEnd(answer.tagged, total) = 100
                      /\ Kpis(answer).tagged = 100 => 200 * answer.tagged.untagged <= total
    OBVIOUS
  <2>1. answer.optOut \in InsightsReturn("optOut", contacts, jobs) OBVIOUS
  <2>2. answer.optOut = [switch \in OptOuts |-> CountOf(contacts, switch, TRUE)]
    BY <2>1 DEF InsightsReturn, Grouped, Texts
  <2>3. ASSUME NEW switch \in OptOuts PROVE answer.optOut[switch] <= total
    <3> DEFINE out == {id \in contacts : Contact[id][switch] = TRUE}
    <3>1. answer.optOut[switch] = Cardinality(out) BY <2>2 DEF CountOf
    <3>2. out \in SUBSET contacts OBVIOUS
    <3> HIDE DEF out
    <3> QED BY <1>1, <3>1, <3>2, ContactsFinite
  <2> DEFINE ring == answer.tagged
  <2>4. /\ Sum(ring, DOMAIN ring) = all
        /\ ring.tagged \in Nat /\ ring.untagged \in Nat
        /\ ring.tagged + ring.untagged = all
    BY TaggedRing
  <2>5. Kpis(answer).tagged = Pct(ring.tagged, total) BY DEF Kpis
  <2> HIDE DEF ring
  <2>6. total > 0 => RingEnd(ring, total) = 100 BY <1>2, <1>8, <2>4
  <2>7. Kpis(answer).tagged = 100 => 200 * ring.untagged <= total
    <3> DEFINE n == ring.tagged
               others == ring.untagged
    <3>1. n \in Nat /\ others \in Nat /\ total \in Nat /\ n + others = total
      BY <1>1, <1>2, <2>4
    <3> HIDE DEF n, others, total
    <3>2. n <= total /\ total - n = others BY <3>1
    <3>3. Pct(n, total) = 100 => 200 * (total - n) <= total BY <3>1, <3>2, Shared
    <3>4. Pct(n, total) = 100 => 200 * others <= total BY <3>2, <3>3
    <3> QED BY <2>5, <3>4 DEF n, others
  <2> QED BY <2>3, <2>6, <2>7 DEF ring
<1>11. Has({"filled"}) =>
        /\ \A column \in Filled : Completeness(answer.filled, total)[column] \in 0 .. 100
        /\ \A column \in DOMAIN drawn \intersect Filled : All(column) <= answer.filled[column]
  <2> SUFFICES ASSUME Has({"filled"})
               PROVE  /\ \A column \in Filled : Completeness(answer.filled, total)[column] \in 0 .. 100
                      /\ \A column \in DOMAIN drawn \intersect Filled : All(column) <= answer.filled[column]
    OBVIOUS
  <2>1. answer.filled \in InsightsReturn("filled", contacts, jobs) OBVIOUS
  <2>2. answer.filled = [column \in Filled |-> Cardinality(Having(contacts, column))]
    BY <2>1 DEF InsightsReturn, Grouped, Texts
  <2>3. ASSUME NEW column \in Filled
        PROVE  Completeness(answer.filled, total)[column] \in 0 .. 100
    <3> DEFINE n == Cardinality(Having(contacts, column))
               base == IF total = 0 THEN 1 ELSE total
    <3>1. Completeness(answer.filled, total)[column] = Percent(n, base)
      BY <2>2 DEF Completeness
    <3>2. n \in Nat /\ n <= all
      <4>1. Having(contacts, column) \in SUBSET contacts BY DEF Having
      <4> QED BY <4>1, ContactsFinite
    <3> HIDE DEF n
    <3>3. base \in Nat \ {0} /\ n <= base BY <1>1, <1>2, <3>2
    <3> HIDE DEF base
    <3>4. Percent(n, base) \in Nat /\ Percent(n, base) <= 100 BY <3>2, <3>3, Rounded
    <3> QED BY <3>1, <3>4
  <2>4. ASSUME NEW column \in DOMAIN drawn \intersect Filled
        PROVE  All(column) <= answer.filled[column]
    <3>1. answer.filled[column] = Cardinality(Having(contacts, column)) BY <2>2
    <3> HIDE DEF drawn
    <3> QED BY <1>4, <3>1
  <2> QED BY <2>3, <2>4
<1>12. Has({"jobStats", "activity"}) =>
        LET stats == answer.jobStats
        IN  /\ Sum(stats.status, Status) = stats.total
            /\ Sum([day \in DOMAIN answer.activity |-> answer.activity[day].rows],
                    DOMAIN answer.activity) <= stats.rows.total
            /\ stats.rows.total = 0 => Lengths(Days(answer.activity)) \subseteq {0}
  <2>1. Has({"jobStats"}) => answer.jobStats = JobStats(jobs)
    BY DEF InsightsReturn, Grouped, Texts
  <2>2. Has({"activity"}) => answer.activity = Activity(jobs)
    BY DEF InsightsReturn, Grouped, Texts
  <2> QED BY <2>1, <2>2, JobsAgree
<1> QED BY <1>5, <1>6, <1>7, <1>9, <1>10, <1>11, <1>12 DEF DashboardAgrees

\* The rows of a page and its cursor agree with the total.
LEMMA PageAgrees ==
    ASSUME contacts \subseteq Ids, NEW count, NEW rows, NEW filter, NEW page \in Nat \ {0},
           count = Cardinality(Rows(filter)),
           rows = Cardinality(After(Rows(filter), Offset(page, PageSize)))
    PROVE  /\ count \in Nat /\ rows \in Nat
           /\ page > TotalPages(count) <=> rows = 0
           /\ page < TotalPages(count) <=> rows > PageSize
<1> DEFINE ids == Rows(filter)
           offset == (page - 1) * PageSize
<1>1. ids \in SUBSET Nat /\ ids \in SUBSET contacts BY IdsAssumption DEF Rows
<1>2. offset \in Nat /\ Offset(page, PageSize) = offset BY Sizes DEF Offset
<1> HIDE DEF ids
<1>3. IsFiniteSet(ids) BY <1>1, ContactsFinite
<1>4. /\ Cardinality(ids) \in Nat
      /\ Cardinality(After(ids, offset)) =
            IF offset <= Cardinality(ids) THEN Cardinality(ids) - offset ELSE 0
  <2> HIDE DEF offset
  <2> QED BY <1>1, <1>2, <1>3, AfterSize
<1>5. count \in Nat /\ rows = IF offset <= count THEN count - offset ELSE 0
  BY <1>2, <1>4 DEF ids
<1> QED BY <1>5, Pages

\* If the tables have not changed since the first statement of an answer its parts agree:
\* the rows of a page and its cursor with the total, the parts of the dashboard with its
\* total, and the count the widget hands on with its filter.
THEOREM AnswersAgree == Spec => []StillTableAgrees
<1>1. AnswerInv => StillTableAgrees
  <2> SUFFICES ASSUME AnswerInv, reader.kind # "none", reader.same, reader.todo = {}
               PROVE  LET result == reader.result
                      IN  CASE reader.kind = "page" ->
                                 /\ reader.page > TotalPages(result.count) <=> RowsShown = 0
                                 /\ reader.page < TotalPages(result.count) <=> HasCursor
                                 /\ HasCursor => RowsShown = PageSize
                          [] reader.kind = "insights" -> DashboardAgrees(result)
                          [] OTHER -> result.count = Cardinality(Rows(reader.filter))
    BY DEF StillTableAgrees
  <2> DEFINE result == reader.result
  <2>1. /\ contacts \subseteq Ids /\ JobsTyped /\ reader.page \in Nat \ {0}
        /\ \A s \in DOMAIN result : result[s] \in Returned(s)
        /\ IF reader.kind = "insights" THEN DOMAIN result \in Dashboards
           ELSE DOMAIN result = {"count", "rows"}
    BY DEF AnswerInv, Answered
  <2>2. reader.kind # "insights" => result.count = Cardinality(Rows(reader.filter))
    BY <2>1 DEF Returned
  <2>3. CASE reader.kind = "page"
    <3>1. result.rows = Cardinality(After(Rows(reader.filter), Offset(reader.page, PageSize)))
      BY <2>1, <2>3 DEF Returned, SizeOf
    <3>2. /\ result.count \in Nat /\ result.rows \in Nat
          /\ reader.page > TotalPages(result.count) <=> result.rows = 0
          /\ reader.page < TotalPages(result.count) <=> result.rows > PageSize
      <4> HIDE DEF result
      <4> QED BY <2>1, <2>2, <2>3, <3>1, PageAgrees
    <3>3. /\ RowsShown = IF result.rows > PageSize THEN PageSize ELSE result.rows
          /\ HasCursor <=> result.rows > PageSize
      BY DEF RowsShown, HasCursor
    <3>4. RowsShown = 0 <=> result.rows = 0 BY <3>2, <3>3, Sizes
    <3> QED BY <2>3, <3>2, <3>3, <3>4
  <2>4. CASE reader.kind = "insights"
    <3>1. \A s \in DOMAIN result : s \notin {"count", "rows"}
      BY <2>1, <2>4, DashboardsAssumption DEF InsightsStatements, Grouped, Texts
    <3>2. \A s \in DOMAIN result : result[s] \in InsightsReturn(s, contacts, jobs)
      BY <2>1, <3>1 DEF Returned
    <3> HIDE DEF result
    <3>3. DashboardAgrees(result) BY <2>1, <2>4, <3>2, PartsAgree
    <3> QED BY <2>4, <3>3 DEF result
  <2>5. CASE reader.kind \notin {"page", "insights"}
    BY <2>2, <2>5
  <2> QED BY <2>3, <2>4, <2>5
<1> QED BY <1>1, AnswerInvariant, PTL
=============================================================================
