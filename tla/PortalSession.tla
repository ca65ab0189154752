--------------------------- MODULE PortalSession ----------------------------
(***************************************************************************)
(* One tab of the portal: who is signed in (AuthService, LoginComponent,    *)
(* the guard and the interceptors), what the store of query results holds   *)
(* (ContactsStore, shared and never destroyed), and the pages Insights,     *)
(* Query and API Keys.  The router mounts one page at a time; requests go   *)
(* on when their page is left, and answers come in any order.               *)
(*                                                                          *)
(* Abstracted: a page of results is the filter and the page number it was   *)
(* asked with, and every segment that is not deleted has Pages pages.  Of   *)
(* the form's thirteen fields there are two, of a key whether it is active, *)
(* is an admin's and may export.  Texts have no blanks around them.  The    *)
(* server acts when a request is sent: an answer read later is that of a     *)
(* request sent later.  Angular, the browser and HTTP are not under src/.   *)
(* ContactsStore.loadNextPage is called by nobody and left out.             *)
(***************************************************************************)
EXTENDS Integers, FiniteSets

CONSTANTS
    Keys,
    FullKeys,     \* the keys with can_view_raw
    AdminKeys,    \* the keys of platform admin
    Forms,        \* what the form may hold
    Pages,        \* the pages of a search that finds something
    None,
    Requests,     \* a bound: requests under way
    MaxErrors     \* a bound: requests that fail

\* The token and the filters there may be, a page of results and a request; what a
\* request is about depends on its kind.
Tokens == {"valid", "expired"}
Segments == {form.segment : form \in Forms}
Filters == [segment : Segments \union {None}, optOut : {None, "out", "in"}]
Answers == [filter : Filters, page : Nat, pages : {0, Pages}]
Abouts == {None} \union Keys \union (SUBSET Keys) \union Segments \union Answers
Kinds == {"login", "query", "delete", "export", "insights", "keys", "deactivate", "left"}
Messages == [kind : Kinds, about : Abouts, status : {200, 401, 403}, old : BOOLEAN]

ASSUME PagesAssumption == Pages \in Nat \ {0}
ASSUME NoneAssumption ==
    /\ None \notin Keys /\ None \notin BOOLEAN /\ None \notin Tokens
    /\ None \notin Filters /\ None \notin Answers /\ None \notin Messages

VARIABLES
    active,       \* the server: the keys that are active
    gone,         \* the server: the segments that were deleted
    session,      \* sessionStorage: the token and the API key
    store,        \* the signals of ContactsStore
    view,         \* the page that is mounted, with its signals and its form
    requests,
    errors,       \* how many requests failed
    asked,        \* ghost: what the user asked for last
    crossed,      \* ghost: that was asked while a query was under way
    torn          \* ghost: since then a query failed, or "Clear" overtook one

server == <<active, gone>>
ghosts == <<asked, crossed, torn>>
vars == <<server, session, store, view, requests, errors, ghosts>>

SignedOut == [token |-> None, apiKey |-> None]

EmptyForm == [segment |-> None, optOut |-> ""]

EmptyStore == [filter |-> None, contacts |-> None, currentPage |-> 1, totalPages |-> 0,
               loading |-> FALSE, hasSearched |-> FALSE]

\* One record for every page: loading is the signal of that name of the page that is
\* mounted.  stale is history: the list of keys was read before a deactivation that
\* was answered first.
EmptyView(page) ==
    [page |-> page, loading |-> FALSE, error |-> FALSE,
     form |-> EmptyForm, table |-> FALSE,
     keys |-> [k \in Keys |-> None], confirmKey |-> None, deactivating |-> None,
     stale |-> FALSE]

Init ==
    /\ active = Keys /\ gone = {}
    /\ session = SignedOut
    /\ store = EmptyStore
    /\ view = EmptyView("login")
    /\ requests = [r \in Requests |-> None]
    /\ errors = 0
    /\ asked = None /\ crossed = FALSE /\ torn = FALSE

(***************************************************************************)
(* Requests and the interceptors                                           *)
(***************************************************************************)

UnderWay(kind) == {r \in Requests : requests[r] # None /\ requests[r].kind = kind}

\* authInterceptor sends the token and the key the session has; jwtAuth and
\* apiKeyAuth look at what their route asks for.
Jwt == IF session.token = "valid" THEN 200 ELSE 401
ApiKey == IF session.apiKey \in active THEN 200 ELSE 401

Occupy(pending, kind, about, status) ==
    LET free == {r \in Requests : pending[r] = None}
    IN  /\ free # {}
        /\ requests' = [pending EXCEPT ![CHOOSE r \in free : TRUE] =
                            [kind |-> kind, about |-> about, status |-> status, old |-> FALSE]]

Send(kind, about, status) == Occupy(requests, kind, about, status)

\* What is left of the requests of a page that is destroyed: its reads reach nobody,
\* but a 401 reaches the interceptor.
Orphaned(pending) ==
    [r \in Requests |->
        IF \/ pending[r] = None
           \/ pending[r].kind \notin {"login", "insights", "keys", "deactivate"}
        THEN pending[r]
        ELSE IF pending[r].status = 401 THEN [pending[r] EXCEPT !.kind = "left"]
        ELSE None]

Answered(r, kind, status) ==
    /\ r \in UnderWay(kind) /\ requests[r].status = status
    /\ requests' = [requests EXCEPT ![r] = None]

\* A request is lost, or answered 429, 503 or 500; the interceptor shows a toast.
Fails(r, kind) ==
    /\ r \in UnderWay(kind) /\ errors < MaxErrors
    /\ errors' = errors + 1
    /\ requests' = [requests EXCEPT ![r] = None]

\* AuthService.logout, and the page it leads to
Logout(pending) ==
    /\ session' = SignedOut
    /\ IF view.page = "login" THEN requests' = pending /\ UNCHANGED view
       ELSE requests' = Orphaned(pending) /\ view' = EmptyView("login")

\* errorInterceptor on 401: the answer may be to a request of an earlier session.
Unauthorised(r) ==
    LET pending == [requests EXCEPT ![r] = None]
    IN  IF session.token = None
        THEN requests' = pending /\ UNCHANGED <<session, view>>
        ELSE Logout(pending)

SignOut ==
    /\ view.page # "login"
    /\ Logout(requests)
    /\ UNCHANGED <<server, store, errors, ghosts>>

\* The token's time is over; only the server notices.
Expire ==
    /\ session.token = "valid"
    /\ session' = [session EXCEPT !.token = "expired"]
    /\ UNCHANGED <<server, store, view, requests, errors, ghosts>>

(***************************************************************************)
(* The router                                                              *)
(***************************************************************************)

\* ngOnInit of a page, and what it sends
Mount(page, pending) ==
    CASE page = "insights" ->
            /\ view' = [EmptyView(page) EXCEPT !.loading = TRUE]
            /\ Occupy(pending, "insights", None, Jwt)
      [] page = "keys" ->
            /\ view' = [EmptyView(page) EXCEPT !.loading = TRUE]
            /\ Occupy(pending, "keys", active, Jwt)
      [] page = "query" ->
            /\ view' = [EmptyView(page) EXCEPT !.table = store'.hasSearched]
            /\ requests' = pending
      [] OTHER -> view' = EmptyView(page) /\ requests' = pending

\* A link of the shell; authGuard let the shell in.
Open(page) ==
    /\ view.page # "login" /\ page # view.page
    /\ UNCHANGED <<server, session, store, errors, ghosts>>
    /\ Mount(page, Orphaned(requests))

\* The page is loaded anew, at an address authGuard lets in: only sessionStorage stays.
Reload(page) ==
    /\ page # "login" => session.token # None
    /\ store' = EmptyStore
    /\ asked' = None /\ crossed' = FALSE /\ torn' = FALSE
    /\ LET nothing == [r \in Requests |-> None]
       IN  Mount(page, nothing)
    /\ UNCHANGED <<server, session, errors>>

(***************************************************************************)
(* LoginComponent                                                          *)
(***************************************************************************)

\* The password is right or not; a key that is typed as well has to be active.
LoginStatus(key) == IF key \in active \union {None} THEN {200, 401} ELSE {401}

Submit(key) ==
    /\ view.page = "login" /\ ~view.loading
    /\ view' = [view EXCEPT !.loading = TRUE]
    /\ \E status \in LoginStatus(key) : Send("login", key, status)
    /\ UNCHANGED <<server, session, store, errors, ghosts>>

\* The token is stored, then the key, and the router opens Insights.
LoginAnswer(r) ==
    /\ r \in UnderWay("login") /\ requests[r].status = 200
    /\ LET key == requests[r].about
       IN  session' = [token |-> "valid",
                       apiKey |-> IF key = None THEN session.apiKey ELSE key]
    /\ view' = [EmptyView("insights") EXCEPT !.loading = TRUE]
    /\ requests' = [requests EXCEPT ![r] =
                        [kind |-> "insights", about |-> None, status |-> 200, old |-> FALSE]]
    /\ UNCHANGED <<server, store, errors, ghosts>>

LoginRejected(r) ==
    /\ r \in UnderWay("login") /\ requests[r].status = 401
    /\ session' = SignedOut
    /\ view' = [view EXCEPT !.loading = FALSE]
    /\ requests' = [requests EXCEPT ![r] = None]
    /\ UNCHANGED <<server, store, errors, ghosts>>

LoginFails(r) ==
    /\ Fails(r, "login")
    /\ view' = [view EXCEPT !.loading = FALSE]
    /\ UNCHANGED <<server, session, store, ghosts>>

(***************************************************************************)
(* ContactsStore and the Query page                                        *)
(***************************************************************************)

PagesOf(filter) == IF filter.segment \in gone THEN 0 ELSE Pages

\* The filter that search() sends.
FilterOf(form) ==
    [segment |-> form.segment,
     optOut |-> CASE form.optOut = "" -> None [] form.optOut = "true" -> "out" [] OTHER -> "in"]

\* Ghosts: this is asked, and if a query is under way the answers cross; the rest of
\* what was asked before does not matter.
Ask(answer) ==
    LET alone == UnderWay("query") = {}
    IN  /\ asked' = IF alone THEN answer ELSE None
        /\ crossed' = (~alone /\ ~torn)
        /\ torn' = (~alone /\ torn)

Tear == asked' = None /\ crossed' = FALSE /\ torn' = TRUE

Answer(filter, page) == [filter |-> filter, page |-> page, pages |-> PagesOf(filter)]

\* _loadPage: nothing without a filter
LoadPage(filter, page) ==
    IF filter = None THEN UNCHANGED <<requests, ghosts>>
    ELSE /\ Ask(Answer(filter, page))
         /\ Send("query", Answer(filter, page), ApiKey)

Edit(form) ==
    /\ view.page = "query" /\ form # view.form
    /\ view' = [view EXCEPT !.form = form]
    /\ UNCHANGED <<server, session, store, requests, errors, ghosts>>

\* Fault: a new search keeps the page number of the old one.
SearchKeepsPage ==
    LET filter == FilterOf(view.form)
    IN  /\ view.page = "query" /\ ~store.loading
        /\ store' = [store EXCEPT !.filter = filter, !.hasSearched = TRUE, !.loading = TRUE]
        /\ view' = [view EXCEPT !.table = TRUE]
        /\ Ask(Answer(filter, 1))
        /\ Send("query", Answer(filter, store.currentPage), ApiKey)
        /\ UNCHANGED <<server, session, errors>>

\* "Always start at page 1 on new search"; the button is disabled while loading.
Search ==
    LET filter == FilterOf(view.form)
    IN  /\ view.page = "query" /\ ~store.loading
        /\ store' = [store EXCEPT !.filter = filter, !.currentPage = 1,
                                  !.hasSearched = TRUE, !.loading = TRUE]
        /\ view' = [view EXCEPT !.table = TRUE]
        /\ LoadPage(filter, 1)
        /\ UNCHANGED <<server, session, errors>>

\* The table is deferred until something was searched, and then stays.
Results == view.page = "query" /\ view.table

\* The pager of DataTableComponent, which is not disabled while a page is loaded, and
\* goToPage.
GoToPage(page) ==
    /\ Results /\ store.totalPages > 1
    /\ \/ page = store.currentPage - 1 /\ store.currentPage # 1
       \/ page = store.currentPage + 1 /\ store.currentPage # store.totalPages
    /\ page \in 1 .. store.totalPages
    /\ store' = [store EXCEPT !.currentPage = page,
                              !.loading = @ \/ store.filter # None]
    /\ LoadPage(store.filter, page)
    /\ UNCHANGED <<server, session, view, errors>>

QueryAnswer(r) ==
    /\ Answered(r, "query", 200)
    /\ LET answer == requests[r].about
       IN  store' = [store EXCEPT !.contacts = answer, !.currentPage = answer.page,
                                  !.totalPages = answer.pages, !.loading = FALSE]
    /\ UNCHANGED <<server, session, view, errors, ghosts>>

\* Fault: an error leaves the store loading.
QueryFailsLoading(r) ==
    /\ Fails(r, "query")
    /\ Tear
    /\ UNCHANGED <<server, session, store, view>>

QueryFails(r) ==
    /\ Fails(r, "query")
    /\ store' = [store EXCEPT !.loading = FALSE]
    /\ Tear
    /\ UNCHANGED <<server, session, view>>

QueryRejected(r) ==
    /\ r \in UnderWay("query") /\ requests[r].status = 401
    /\ Unauthorised(r)
    /\ store' = [store EXCEPT !.loading = FALSE]
    /\ Tear
    /\ UNCHANGED <<server, errors>>

\* ContactsStore.reset: it neither cancels a query nor clears loading.
ResetStore ==
    /\ store' = [EmptyStore EXCEPT !.loading = store.loading]
    /\ IF UnderWay("query") = {} THEN asked' = None /\ crossed' = FALSE /\ torn' = FALSE ELSE Tear

Clear ==
    /\ view.page = "query"
    /\ view' = [view EXCEPT !.form = EmptyForm]
    /\ ResetStore
    /\ UNCHANGED <<server, session, requests, errors>>

\* "Delete Segment": the button is there once something was searched, and the dialog
\* names the segment of the form and the total of the store.
ConfirmDeleteSegment ==
    LET segment == view.form.segment
        allowed == session.apiKey \in active \intersect AdminKeys
    IN  /\ view.page = "query" /\ segment # None /\ store.hasSearched
        /\ Send("delete", segment, IF allowed THEN 200 ELSE 401)
        /\ gone' = IF allowed THEN gone \union {segment} ELSE gone
        /\ UNCHANGED <<active, session, store, view, errors, ghosts>>

\* The answer clears the store and the form, whatever the user has done since.
DeleteDone(r) ==
    /\ Answered(r, "delete", 200)
    /\ view' = IF view.page = "query" THEN [view EXCEPT !.form = EmptyForm] ELSE view
    /\ ResetStore
    /\ UNCHANGED <<server, session, errors>>

\* The bar is there when something was found.
ExportBar == view.page = "query" /\ store.totalPages > 0

\* Without a key the user is asked for one.  The answer is a file: the store is not touched.
DownloadExport(key) ==
    /\ ExportBar
    /\ IF session.apiKey # None THEN key = session.apiKey ELSE key \in Keys
    /\ session' = [session EXCEPT !.apiKey = key]
    /\ Send("export", None,
            CASE key \notin active \/ session.token # "valid" -> 401
              [] key \notin FullKeys -> 403
              [] OTHER -> 200)
    /\ UNCHANGED <<server, store, view, errors, ghosts>>

ExportDone(r) ==
    /\ Answered(r, "export", 200)
    /\ UNCHANGED <<server, session, store, view, errors, ghosts>>

\* The stored key is cleared, so that the user is asked again.
ExportForbidden(r) ==
    /\ Answered(r, "export", 403)
    /\ session' = [session EXCEPT !.apiKey = None]
    /\ UNCHANGED <<server, store, view, errors, ghosts>>

\* 401 to any other request: the interceptor signs out, which destroys the page and
\* clears the key as well.
Rejected(r) ==
    /\ requests[r] # None /\ requests[r].kind \notin {"login", "query"}
    /\ requests[r].status = 401
    /\ Unauthorised(r)
    /\ UNCHANGED <<server, store, errors, ghosts>>

RequestLost(r) ==
    /\ \E kind \in {"export", "delete", "left"} : Fails(r, kind)
    /\ UNCHANGED <<server, session, store, view, ghosts>>

(***************************************************************************)
(* InsightsComponent                                                       *)
(***************************************************************************)

LoadInsights ==
    /\ view.page = "insights" /\ ~view.loading
    /\ view' = [view EXCEPT !.loading = TRUE, !.error = FALSE]
    /\ Send("insights", None, Jwt)
    /\ UNCHANGED <<server, session, store, errors, ghosts>>

InsightsAnswer(r) ==
    /\ Answered(r, "insights", 200)
    /\ view' = [view EXCEPT !.loading = FALSE]
    /\ UNCHANGED <<server, session, store, errors, ghosts>>

InsightsFail(r) ==
    /\ Fails(r, "insights")
    /\ view' = [view EXCEPT !.error = TRUE, !.loading = FALSE]
    /\ UNCHANGED <<server, session, store, ghosts>>

(***************************************************************************)
(* ApiKeysComponent                                                        *)
(***************************************************************************)

LoadKeys ==
    /\ view.page = "keys" /\ ~view.loading
    /\ view' = [view EXCEPT !.loading = TRUE]
    /\ Send("keys", active, Jwt)
    /\ UNCHANGED <<server, session, store, errors, ghosts>>

KeysAnswer(r) ==
    /\ Answered(r, "keys", 200)
    /\ view' = [view EXCEPT !.loading = FALSE, !.stale = requests[r].old,
                            !.keys = [k \in Keys |-> k \in requests[r].about]]
    /\ UNCHANGED <<server, session, store, errors, ghosts>>

KeysFail(r) ==
    /\ Fails(r, "keys")
    /\ view' = [view EXCEPT !.loading = FALSE]
    /\ UNCHANGED <<server, session, store, ghosts>>

\* The button of a key that is listed active; another key's deactivation may be under
\* way.
ConfirmDeactivate(key) ==
    /\ view.page = "keys" /\ view.confirmKey = None
    /\ view.keys[key] = TRUE /\ view.deactivating # key
    /\ view' = [view EXCEPT !.confirmKey = key]
    /\ UNCHANGED <<server, session, store, requests, errors, ghosts>>

Cancel ==
    /\ view.confirmKey # None
    /\ view' = [view EXCEPT !.confirmKey = None]
    /\ UNCHANGED <<server, session, store, requests, errors, ghosts>>

Deactivate ==
    /\ view.confirmKey # None
    /\ view' = [view EXCEPT !.deactivating = view.confirmKey, !.confirmKey = None]
    /\ Send("deactivate", view.confirmKey, Jwt)
    /\ active' = IF Jwt = 200 THEN active \ {view.confirmKey} ELSE active
    /\ UNCHANGED <<gone, session, store, errors, ghosts>>

\* The deactivation in r is over: the lists under way that have its key as active
\* are old.
Settle(r) ==
    requests' = [q \in Requests |->
        IF q = r THEN None
        ELSE IF q \in UnderWay("keys") /\ requests[r].about \in requests[q].about
        THEN [requests[q] EXCEPT !.old = TRUE]
        ELSE requests[q]]

\* Fault: the list is left as it is.
DeactivatedUnlisted(r) ==
    /\ r \in UnderWay("deactivate") /\ requests[r].status = 200
    /\ Settle(r)
    /\ view' = [view EXCEPT !.deactivating = None]
    /\ UNCHANGED <<server, session, store, errors, ghosts>>

DeactivateDone(r) ==
    /\ r \in UnderWay("deactivate") /\ requests[r].status = 200
    /\ Settle(r)
    /\ view' = [view EXCEPT !.keys[requests[r].about] = FALSE, !.deactivating = None]
    /\ UNCHANGED <<server, session, store, errors, ghosts>>

\* The key may be deactivated all the same.
DeactivateFails(r) ==
    /\ r \in UnderWay("deactivate") /\ errors < MaxErrors
    /\ errors' = errors + 1
    /\ Settle(r)
    /\ view' = [view EXCEPT !.deactivating = None, !.stale = TRUE]
    /\ UNCHANGED <<server, session, store, ghosts>>

Next ==
    \/ SignOut \/ Expire
    \/ \E page \in {"insights", "query", "keys"} : Open(page) \/ Reload(page)
    \/ Reload("login")
    \/ \E key \in Keys \union {None} : Submit(key)
    \/ \E form \in Forms : Edit(form)
    \/ Search \/ Clear \/ ConfirmDeleteSegment
    \/ \E page \in 1 .. Pages : GoToPage(page)
    \/ LoadInsights \/ LoadKeys \/ Cancel \/ Deactivate
    \/ \E key \in Keys : DownloadExport(key) \/ ConfirmDeactivate(key)
    \/ \E r \in Requests :
        \/ LoginAnswer(r) \/ LoginRejected(r) \/ LoginFails(r)
        \/ QueryAnswer(r) \/ QueryRejected(r) \/ QueryFails(r)
        \/ DeleteDone(r) \/ ExportDone(r) \/ ExportForbidden(r)
        \/ Rejected(r) \/ RequestLost(r)
        \/ InsightsAnswer(r) \/ InsightsFail(r)
        \/ KeysAnswer(r) \/ KeysFail(r) \/ DeactivateDone(r) \/ DeactivateFails(r)

Spec == Init /\ [][Next]_vars

(***************************************************************************)
(* Properties                                                              *)
(***************************************************************************)

\* When no query is under way, the rows are those of the page the pager names, in
\* whatever order the answers came, unless a query failed (goToPage has moved the
\* pager already) or was overtaken by a "Clear"; and they are the rows that were
\* asked for last, of the filter the pager goes on with, if no two queries were under
\* way together.  The pager is not disabled while a page is loaded: of two pages that
\* are asked for in a hurry the one that is answered last is shown, and a search can
\* be overwritten by the answer to a page of the search before.
LastAskedIsShown ==
    UnderWay("query") = {} /\ ~torn =>
        /\ store.contacts # None =>
            store.contacts.page = store.currentPage /\ store.filter # None
        /\ ~crossed => /\ store.contacts = asked
                       /\ asked # None => store.filter = asked.filter

\* A key that is listed inactive is inactive.  When no request of the page is under
\* way every key is listed as it is, unless a list that was read before a
\* deactivation arrived after it, or a deactivation's answer was lost.
KeysShownAsTheyAre ==
    view.page = "keys" =>
        /\ \A k \in Keys : view.keys[k] = FALSE => k \notin active
        /\ ~view.loading /\ ~view.stale /\ UnderWay("keys") \union UnderWay("deactivate") = {} =>
            \A k \in Keys : view.keys[k] \in {None, (k \in active)}

\* A signal that disables a button or shows a spinner (loading of the store and of
\* every page, deactivating) is set only while a request is under way whose answer,
\* or failure, resets it: no sequence of answers, failures, navigations and sessions
\* leaves a page that waits for nothing.  The store's outlives the page.
NoSpinnerForever ==
    /\ store.loading => UnderWay("query") # {}
    /\ view.loading => UnderWay(view.page) # {}
    /\ view.deactivating # None => UnderWay("deactivate") # {}
=============================================================================
