------------------------------ MODULE QueryApi ------------------------------
(***************************************************************************)
(* The routes that read contacts, statement by statement, while imports,    *)
(* deletions and POST /api/usage change the tables: a client that walks     *)
(* through a filter with the cursor; the portal's numbered pages, its       *)
(* dashboard and the widget's preview; the rate limiter in front of the     *)
(* first; and the shutdown of the server under all of them.                 *)
(*                                                                          *)
(* Abstracted: ids are numbers (they are compared as text), what a contact  *)
(* holds does not change while it is there.  One window of the limiter, that *)
(* of the walking client's key, is modelled.                                *)
(* PostgreSQL runs a statement at a time; express-rate-limit with its Redis *)
(* store, and Node's server, are not under src/.                            *)
(***************************************************************************)
EXTENDS Insights

CONSTANTS
    Ids,          \* the ids a contact may have, numbers
    Uses,         \* the rows POST /api/usage may add for a contact
    JobRows,      \* what a row of upload_jobs may hold
    Forms,        \* what the form of the query builder may hold
    PageForms,    \* those of them whose pages are asked for
    WalkFilters,  \* what a client walks through
    Dashboards,   \* a bound: which of the dashboard's statements are run together
    PageSize,
    MaxHits,      \* max of the platform's limits
    Window,       \* windowMs, in ticks
    MaxEvents,    \* a bound: changes of a table, ticks and signals, together
    Together      \* a bound: whether the walking client and the page are at work at once

ASSUME IdsAssumption == Ids \subseteq Nat \ {0} /\ IsFiniteSet(Ids)
\* segment is NOT NULL, and no route takes a blank one.
ASSUME ContactsAssumption == \A id \in Ids : Contact[id].segment \notin {None, ""}
ASSUME JobsAssumption ==
    /\ JobRows \subseteq [status : Status, total : Nat, processed : Nat, failed : Nat]
    /\ IsFiniteSet(DOMAIN UploadDay) /\ FirstDay \in Nat
    /\ \A job \in DOMAIN UploadDay : UploadDay[job] \in Nat
\* The page has no input for tags_any.
ASSUME FormsAssumption == \A form \in Forms : form.tags_any = None
ASSUME TogetherAssumption == Together \in BOOLEAN
ASSUME DashboardsAssumption == \A some \in Dashboards : "total" \in some /\ some \subseteq InsightsStatements
ASSUME SizesAssumption == {PageSize, MaxHits, Window, TopRows} \subseteq Nat \ {0}

VARIABLES
    contacts,     \* the ids in the table contacts
    history,      \* campaign_history: the uses of each contact
    jobs,         \* upload_jobs: a function from the ids of its rows
    walk,         \* the walking client, and where its request stands
    reader,       \* the portal's or the widget's request and what its page shows
    window,       \* the limiter's counter in Redis
    admitted,     \* ghost: the requests admitted in the last ticks, each with its age
    server,       \* "up", "closing", "destroyed"; it ended with "exit0" or "exit1", was
                  \* "aborted" by a second signal (exit 1 as well) or "killed"
    left,         \* the clients that hung up while their request was under way
    cut,          \* ghost: the process ended while a client waited for an answer
    events

tables == <<contacts, history, jobs>>
limiter == <<window, admitted>>
process == <<server, left, cut>>
vars == <<tables, walk, reader, limiter, process, events>>

NoWalk == [stage |-> "idle", filter |-> NoFilter, withId |-> TRUE, cursor |-> 0,
           got |-> {}, again |-> FALSE, throughout |-> {}]

\* todo are the statements still to run, result what the others returned, and same is
\* history: the tables have not changed since the first statement.
NoReader == [kind |-> "none", filter |-> NoFilter, page |-> 1, todo |-> {},
             result |-> << >>, same |-> TRUE]

Init ==
    /\ contacts \in SUBSET Ids
    /\ history = [id \in Ids |-> {}]
    /\ jobs = << >>
    /\ walk = NoWalk
    /\ reader = NoReader
    /\ window = [hits |-> 0, left |-> 0]
    /\ admitted = {}
    /\ server = "up" /\ left = {} /\ cut = FALSE
    /\ events = 0

Event == events < MaxEvents /\ events' = events + 1

Rows(filter) == {id \in contacts : QuerySelects(filter, Contact[id], history[id])}

(***************************************************************************)
(* The tables                                                              *)
(***************************************************************************)

\* Only the readers' ghosts notice; throughout keeps what the filter has selected all
\* the time.
TablesChange ==
    /\ Event
    /\ walk' = [walk EXCEPT !.throughout =
                    {id \in @ : id \in contacts'
                             /\ QuerySelects(walk.filter, Contact[id], history'[id])}]
    /\ reader' = IF reader.kind = "none" THEN reader ELSE [reader EXCEPT !.same = FALSE]
    /\ UNCHANGED <<limiter, process>>

\* A batch of an import, which may reuse the id of a contact that was deleted.
Import(id) ==
    /\ id \notin contacts
    /\ contacts' = contacts \union {id}
    /\ UNCHANGED <<history, jobs>>
    /\ TablesChange

\* A deletion; campaign_history follows it (ON DELETE CASCADE).
Delete(id) ==
    /\ id \in contacts
    /\ contacts' = contacts \ {id}
    /\ history' = [history EXCEPT ![id] = {}]
    /\ UNCHANGED jobs
    /\ TablesChange

\* recordUsage: one INSERT for all ids, which fails when one of them is no contact.
RecordUsage(ids, use) ==
    /\ server \in {"up", "closing"}
    /\ ids # {} /\ ids \subseteq contacts
    /\ \E id \in ids : use \notin history[id]
    /\ history' = [id \in Ids |-> IF id \in ids THEN history[id] \union {use} ELSE history[id]]
    /\ UNCHANGED <<contacts, jobs>>
    /\ TablesChange

\* An upload begins, goes on or ends.
UpdateJob(job, row) ==
    /\ IF job \in DOMAIN jobs THEN jobs[job].status \notin {"done", row.status}
       ELSE row.status = "queued"
    /\ jobs' = [j \in DOMAIN jobs \union {job} |-> IF j = job THEN row ELSE jobs[j]]
    /\ UNCHANGED <<contacts, history>>
    /\ TablesChange

DeleteJob(job) ==
    /\ job \in DOMAIN jobs
    /\ jobs' = [j \in DOMAIN jobs \ {job} |-> jobs[j]]
    /\ UNCHANGED <<contacts, history>>
    /\ TablesChange

(***************************************************************************)
(* The limiter: a window begins with its first request and is not moved     *)
(***************************************************************************)

\* Fault: every request begins the window anew, and its count.
CountAnew ==
    /\ window' = [hits |-> 1, left |-> Window]

\* Beyond the limit the count says nothing more, and stays.
Count ==
    window' = IF window.left = 0 THEN [hits |-> 1, left |-> Window]
              ELSE [window EXCEPT !.hits = IF @ > MaxHits THEN @ ELSE @ + 1]

Tick ==
    /\ Event
    /\ window' = [window EXCEPT !.left = IF @ = 0 THEN 0 ELSE @ - 1,
                                !.hits = IF window.left <= 1 THEN 0 ELSE @]
    /\ admitted' = {[request EXCEPT !.age = @ + 1] : request \in
                        {recent \in admitted : recent.age < Window}}
    /\ UNCHANGED <<tables, walk, reader, process>>

Newest == {request \in admitted : request.age = 1}

\* rateLimiterMiddleware: the request goes on, or is answered 429.
Limit ==
    /\ walk.stage = "limit"
    /\ Count
    /\ IF window'.hits <= MaxHits
       THEN /\ admitted' = admitted \union {[age |-> 1, nth |-> Cardinality(Newest) + 1]}
            /\ walk' = [walk EXCEPT !.stage = "count"]
       ELSE /\ UNCHANGED admitted
            /\ walk' = [walk EXCEPT !.stage = "waiting"]
    /\ UNCHANGED <<tables, reader, process, events>>

(***************************************************************************)
(* POST /api/query with the cursor                                         *)
(***************************************************************************)

Begin(filter, withId) ==
    /\ server = "up" /\ walk.stage \in {"idle", "done"} /\ "walk" \notin left
    /\ Together \/ reader = NoReader
    /\ walk' = [NoWalk EXCEPT !.stage = "limit", !.filter = filter, !.withId = withId,
                              !.throughout = Rows(filter)]
    /\ UNCHANGED <<tables, reader, limiter, process, events>>

\* The next page, or the same one after a 429; also on a connection that was kept alive
\* while the server closes.
AskOn ==
    /\ server \in {"up", "closing"} /\ walk.stage = "waiting" /\ "walk" \notin left
    /\ walk' = [walk EXCEPT !.stage = "limit"]
    /\ UNCHANGED <<tables, reader, limiter, process, events>>

\* The total; the walking client makes nothing of it.
CountStatement ==
    /\ walk.stage = "count"
    /\ walk' = [walk EXCEPT !.stage = "rows"]
    /\ UNCHANGED <<tables, reader, limiter, process, events>>

\* The rows in the order of their ids, the first n of them
First(ids, n) == {id \in ids : Cardinality({i \in ids : i <= id}) <= n}
After(ids, n) == ids \ First(ids, n)

\* One row more than a page is fetched; it tells whether there is a cursor, and that is
\* the id of the last row, if id is among the fields.
Fetched(ids) ==
    LET page == First(ids, PageSize)
        more == Cardinality(ids) > PageSize /\ walk.withId
    IN  walk' = [walk EXCEPT !.stage = IF more THEN "waiting" ELSE "done",
                             !.cursor = IF more THEN Max(page) ELSE @,
                             !.got = @ \union page,
                             !.again = @ \/ page \intersect walk.got # {}]

\* Fault: the cursor counts rows.
RowsByOffset ==
    /\ walk.stage = "rows"
    /\ Fetched(After(Rows(walk.filter), Cardinality(walk.got)))
    /\ UNCHANGED <<tables, reader, limiter, process, events>>

RowsStatement ==
    /\ walk.stage = "rows"
    /\ Fetched({id \in Rows(walk.filter) : id > walk.cursor})
    /\ UNCHANGED <<tables, reader, limiter, process, events>>

(***************************************************************************)
(* The portal and the widget                                               *)
(***************************************************************************)

Ask(kind, filter, page, todo) ==
    /\ server = "up" /\ reader.kind = "none"
    /\ Together \/ walk = NoWalk
    /\ reader' = [kind |-> kind, filter |-> filter, page |-> page, todo |-> todo,
                  result |-> << >>, same |-> TRUE]
    /\ UNCHANGED <<tables, walk, limiter, process, events>>

AskPage(form, page) ==
    Ask("page", QueryRoute(SearchFilter(form)), page, {"count", "rows"})

AskInsights == \E some \in Dashboards : Ask("insights", NoFilter, 1, some)

\* The widget's Preview needs a segment; its page has one row.
Preview(form) ==
    /\ form.segment # None
    /\ Ask("preview", PublicRoute(WidgetFilter(form)), 1, {"count", "rows"})

\* "Use this data" hands on the filter the count was read for.
UseData ==
    /\ reader.kind = "preview" /\ reader.todo = {} /\ reader.result.count > 0
    /\ "reader" \notin left
    /\ reader' = [reader EXCEPT !.kind = "handed"]
    /\ UNCHANGED <<tables, walk, limiter, process, events>>

\* The page is left, or the widget is reset.
Close ==
    /\ reader.kind # "none" /\ reader.todo = {} /\ "reader" \notin left
    /\ reader' = NoReader
    /\ UNCHANGED <<tables, walk, limiter, process, events>>

SizeOf(kind) == IF kind = "page" THEN PageSize ELSE 1

\* Fault: the first page begins behind itself.
OffsetFromOne(page, size) == page * size

Offset(page, size) == (page - 1) * size

\* What a statement may return: of the rows, how many there are from the offset on.
Returned(statement) ==
    LET rows == Rows(reader.filter)
    IN  CASE statement = "count" -> {Cardinality(rows)}
          [] statement = "rows" ->
                {Cardinality(After(rows, Offset(reader.page, SizeOf(reader.kind))))}
          [] OTHER -> InsightsReturn(statement, contacts, jobs)

\* count is awaited before rows; Promise.all leaves the others in any order.
Statement(statement) ==
    /\ statement \in reader.todo
    /\ statement = "rows" => "count" \notin reader.todo
    /\ \E returned \in Returned(statement) :
        reader' = [reader EXCEPT !.todo = @ \ {statement},
                                 !.result = [s \in DOMAIN @ \union {statement} |->
                                                IF s = statement THEN returned ELSE @[s]]]
    /\ UNCHANGED <<tables, walk, limiter, process, events>>

(***************************************************************************)
(* What the pages make of the answers                                      *)
(***************************************************************************)

TotalPages(count) == (count + PageSize - 1) \div PageSize

\* The page of the portal: its rows, and whether there is a cursor.
RowsShown == IF reader.result.rows > PageSize THEN PageSize ELSE reader.result.rows
HasCursor == reader.result.rows > PageSize

(***************************************************************************)
(* The end of the process                                                  *)
(***************************************************************************)

\* The clients whose request is under way, and those of them that are still connected
AtWork == {client \in {"walk", "reader"} :
              IF client = "walk" THEN walk.stage \in {"limit", "count", "rows"}
              ELSE reader.todo # {}}
Connected == AtWork \ left

\* A client gives up.  No route listens for that: the handler goes on.
HangUp(client) ==
    /\ Event
    /\ client \in Connected
    /\ left' = left \union {client}
    /\ UNCHANGED <<tables, walk, reader, limiter, server, cut>>

\* The handler ends, with an answer that reaches nobody.  Once the pool is closed its
\* next statement fails.
HandlerEnds(client) ==
    /\ client \in left
    /\ client \notin AtWork \/ server = "destroyed"
    /\ left' = left \ {client}
    /\ IF client = "walk" THEN walk' = NoWalk /\ UNCHANGED reader
       ELSE reader' = NoReader /\ UNCHANGED walk
    /\ UNCHANGED <<tables, limiter, server, cut, events>>

Exit(how) ==
    /\ server' = how
    /\ cut' = (Connected # {})
    /\ walk' = NoWalk /\ reader' = NoReader /\ left' = {}
    /\ UNCHANGED <<tables, limiter>>

\* SIGTERM, SIGINT or an error nobody caught: shutdown.  The second time the server is
\* closed already, server.close reports an error and the process exits with 1.
Signal ==
    /\ Event
    /\ IF server = "up"
       THEN server' = "closing" /\ UNCHANGED <<tables, walk, reader, limiter, left, cut>>
       ELSE server \in {"closing", "destroyed"} /\ Exit("aborted")

\* Fault: server.close is not awaited.
DestroyAtOnce ==
    /\ server = "closing"
    /\ server' = "destroyed"
    /\ UNCHANGED <<tables, walk, reader, limiter, left, cut, events>>

\* server.close has called back: no connection is open.  Handlers whose client hung up
\* may still be under way.  Then db.destroy.
DestroyPool ==
    /\ server = "closing" /\ Connected = {}
    /\ server' = "destroyed"
    /\ UNCHANGED <<tables, walk, reader, limiter, left, cut, events>>

\* redis.quit, and the process is done; with 1 if either connection does not close.
Quit ==
    /\ server = "destroyed"
    /\ \E code \in {"exit0", "exit1"} : Exit(code)
    /\ UNCHANGED events

\* PM2 does not wait longer than kill_timeout for what it sent SIGINT to.
Kill ==
    /\ server \in {"closing", "destroyed"}
    /\ Exit("killed")
    /\ UNCHANGED events

Next ==
    \/ \E id \in Ids : Import(id) \/ Delete(id)
    \/ \E job \in DOMAIN UploadDay : DeleteJob(job) \/ \E row \in JobRows : UpdateJob(job, row)
    \/ \E ids \in SUBSET Ids, use \in Uses : RecordUsage(ids, use)
    \/ \E filter \in WalkFilters, withId \in BOOLEAN : Begin(filter, withId)
    \/ AskOn \/ Limit \/ CountStatement \/ RowsStatement \/ Tick
    \/ \E form \in PageForms :
        \/ Preview(form)
        \/ \E page \in 1 .. TotalPages(Cardinality(Ids)) : AskPage(form, page)
    \/ AskInsights \/ UseData \/ Close
    \/ \E statement \in reader.todo : Statement(statement)
    \/ \E client \in {"walk", "reader"} : HangUp(client) \/ HandlerEnds(client)
    \/ Signal \/ DestroyPool \/ Quit \/ Kill

Spec == Init /\ [][Next]_vars

(***************************************************************************)
(* Properties                                                              *)
(***************************************************************************)

\* Whatever is imported, deleted or used meanwhile, a client that follows next_cursor
\* to its end has been given every contact the filter selected all the time, and none
\* twice; rows that come or go between two requests do not move the others.  It has to
\* ask for the field id: without it there is no cursor (queryContacts).
WalkMissesNothing ==
    /\ ~walk.again
    /\ walk.stage = "done" /\ walk.withId => walk.throughout \subseteq walk.got

\* What the dashboard draws of answers that were read from the same tables.
DashboardAgrees(answer) ==
    LET total == answer.total
        Has(statements) == statements \subseteq DOMAIN answer
        drawn == [column \in (Grouped \union Texts) \intersect DOMAIN answer |->
                     ToDistribution(column, answer[column])]
        All(column) == Sum(drawn[column], DOMAIN drawn[column])
        Lengths(bars) == {bars[key] : key \in DOMAIN bars}
    IN  /\ \A column \in DOMAIN drawn : All(column) <= total
        /\ \A column \in DOMAIN drawn \intersect Texts :
            All(column) > 0 => Max(Lengths(BarsOfLongest(drawn[column]))) = 100
        /\ Has({"segment"}) =>
            /\ All("segment") = total
            /\ \A value \in DOMAIN drawn["segment"] :
                Shares(drawn["segment"], total)[value] = 100 =>
                    200 * (total - drawn["segment"][value]) <= total
        /\ Has({"gender"}) => RingEnd(drawn["gender"], total) <= 100
        /\ Has({"optOut", "tagged"}) =>
            /\ \A switch \in OptOuts : answer.optOut[switch] <= total
            /\ total > 0 => RingEnd(answer.tagged, total) = 100
            /\ Kpis(answer).tagged = 100 => 200 * answer.tagged.untagged <= total
        /\ Has({"filled"}) =>
            /\ \A column \in Filled : Completeness(answer.filled, total)[column] \in 0 .. 100
            /\ \A column \in DOMAIN drawn \intersect Filled : All(column) <= answer.filled[column]
        /\ Has({"jobStats", "activity"}) =>
            LET stats == answer.jobStats
            IN  /\ Sum(stats.status, Status) = stats.total
                /\ Sum([day \in DOMAIN answer.activity |-> answer.activity[day].rows],
                        DOMAIN answer.activity) <= stats.rows.total
                /\ stats.rows.total = 0 => Lengths(Days(answer.activity)) \subseteq {0}

\* An answer is put together from several statements without a transaction.  If the
\* tables have not changed since the first of them its parts agree: the rows of the
\* page and its cursor with the total (queryContacts), the parts of the dashboard with
\* its total, so that completeness is at most 100 % and no ring overlaps itself
\* (getInsights), and the count the widget hands on with the filter it hands on.  When
\* they have changed, completeness can exceed 100 %.
StillTableAgrees ==
    reader.kind # "none" /\ reader.same /\ reader.todo = {} =>
        LET result == reader.result
        IN  CASE reader.kind = "page" ->
                    /\ reader.page > TotalPages(result.count) <=> RowsShown = 0
                    /\ reader.page < TotalPages(result.count) <=> HasCursor
                    /\ HasCursor => RowsShown = PageSize
              [] reader.kind = "insights" -> DashboardAgrees(result)
              [] OTHER -> result.count = Cardinality(Rows(reader.filter))

\* The limiter counts in windows that begin with a request, not in the sliding window
\* its comments name: in no stretch of that length are more than twice the limit less
\* one admitted, and that many may be.
LimitHolds == Cardinality(admitted) <= 2 * MaxHits - 1

\* An orderly shutdown, whether it exits with 0 or, because a connection does not close,
\* with 1, has answered every client that waited for an answer, and the pool is not
\* closed under one.  A client that waits is cut off only by a second signal (or an
\* error nobody caught while the first is served), or when PM2's patience of ten
\* seconds ends (ecosystem.config.js:39).  The handler of a client that hung up is not
\* waited for: server.close waits for connections.
GracefulExitCutsNoOne ==
    /\ server \in {"destroyed", "exit0", "exit1"} => Connected = {}
    /\ cut => server \in {"aborted", "killed"}

\* The form as an export reads it: texts without the blanks around them, and without
\* "Opted out" of WhatsApp.
AsExported(form) ==
    [field \in Fields |->
        IF field \in TrimmedFields THEN Trim(form[field])
        ELSE IF field = "opt_out_whatsapp" /\ form[field] = TRUE THEN None
        ELSE form[field]]

\* What the portal exports is what it found: through two lists of fields on the way
\* to the server, two in the routes and two in the queries, a form selects the same
\* contacts, whatever campaigns they have been used in, unless a text of it has blanks
\* around it or it says "Opted out" of WhatsApp.  Then the export holds what a search
\* without those would find: 'spring ' finds the contacts of no campaign and exports
\* those of 'spring', a text of blanks and "Opted out" are no condition of the export.
ExportIsWhatWasFound ==
    \A form \in Forms, id \in contacts :
        StreamSelects(ExportRoute(ExportParams(form)), Contact[id], history[id])
            <=> QuerySelects(QueryRoute(SearchFilter(AsExported(form))), Contact[id], history[id])
=============================================================================
