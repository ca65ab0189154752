------------------------ MODULE PortalSessionProofs -------------------------
(***************************************************************************)
(* Theorems about PortalSession: no page waits for nothing, the list of keys *)
(* tells the truth, and the table shows what was asked for, for any numbers   *)
(* of keys, forms, pages, requests under way and failures.                   *)
(***************************************************************************)
EXTENDS PortalSession, TLAPS

(***************************************************************************)
(* Types                                                                   *)
(***************************************************************************)

MessageType(message) ==
    /\ message \in Messages
    /\ message.kind = "query" => message.about \in Answers
    /\ message.kind \in {"login", "deactivate"} => message.about \in Keys \union {None}
    /\ message.kind = "keys" => message.about \in SUBSET Keys

Typed(pending) ==
    /\ pending \in [Requests -> Messages \union {None}]
    /\ \A r \in Requests : pending[r] # None => MessageType(pending[r])

RequestsType == Typed(requests)

SessionType == session \in [token : Tokens \union {None}, apiKey : Keys \union {None}]

StoreType ==
    store \in [filter : Filters \union {None}, contacts : Answers \union {None},
               currentPage : Nat, totalPages : {0, Pages},
               loading : BOOLEAN, hasSearched : BOOLEAN]

PageNames == {"login", "insights", "query", "keys"}
Views == [page : PageNames, loading : BOOLEAN, error : BOOLEAN,
          form : Forms \union {EmptyForm}, table : BOOLEAN,
          keys : [Keys -> BOOLEAN \union {None}],
          confirmKey : Keys \union {None}, deactivating : Keys \union {None},
          stale : BOOLEAN]

ViewType == view \in Views

TypeInv ==
    /\ RequestsType /\ SessionType /\ StoreType /\ ViewType
    /\ active \subseteq Keys

(***************************************************************************)
(* The inductive invariants                                                *)
(***************************************************************************)

\* A page other than the login's has a session, and is there as long as its reads are
\* under way.  A login is under way only while the login page waits for it, and there
\* is one.
SignedInv ==
    /\ UnderWay("insights") # {} => view.page = "insights"
    /\ UnderWay("keys") # {} => view.page = "keys"
    /\ view.page # "login" => session.token # None
    /\ UnderWay("login") # {} => view.page = "login" /\ view.loading
    /\ \A r, q \in UnderWay("login") : r = q

SpinnerInv ==
    /\ SignedInv /\ NoSpinnerForever
    /\ view.page = "query" => ~view.loading
    /\ view.confirmKey # None \/ view.deactivating # None => view.page = "keys"

\* The deactivation of a key is under way, and the server has done it.
Doing(key) == \E r \in UnderWay("deactivate") :
                requests[r].status = 200 /\ requests[r].about = key

\* A key that was deactivated after a list was read, or is shown active still, waits
\* for the answer that takes it off.
KeysInv ==
    /\ \A r \in UnderWay("deactivate") :
        requests[r].status = 200 => requests[r].about \notin active
    /\ \A r \in UnderWay("keys") :
        /\ active \subseteq requests[r].about
        /\ ~requests[r].old => \A key \in requests[r].about \ active : Doing(key)
    /\ view.page = "keys" => \A key \in Keys :
        /\ view.keys[key] = FALSE => key \notin active
        /\ view.keys[key] = TRUE /\ key \notin active => view.stale \/ Doing(key)

\* Unless two queries cross there is one, and it asks what was asked for last.
QueryInv ==
    /\ store.contacts = None => store.totalPages = 0
    /\ ~torn /\ UnderWay("query") # {} => store.filter # None
    /\ ~torn /\ ~crossed =>
        /\ \A r, q \in UnderWay("query") : r = q
        /\ \A r \in UnderWay("query") :
            requests[r].about = asked /\ store.filter = asked.filter
    /\ LastAskedIsShown

(***************************************************************************)
(* Requests                                                                *)
(***************************************************************************)

Message(kind, about, status) ==
    [kind |-> kind, about |-> about, status |-> status, old |-> FALSE]

Without(pending, r) == [pending EXCEPT ![r] = None]

\* A request takes a slot that is free.
LEMMA Occupied ==
    ASSUME NEW pending, NEW kind, NEW about, NEW status,
           Occupy(pending, kind, about, status)
    PROVE  \E r \in Requests :
                /\ pending[r] = None
                /\ requests' = [pending EXCEPT ![r] = Message(kind, about, status)]
<1> DEFINE free == {r \in Requests : pending[r] = None}
<1>1. free # {} /\ requests' = [pending EXCEPT ![CHOOSE r \in free : TRUE] =
                                    Message(kind, about, status)]
  BY DEF Occupy, Message
<1>2. (CHOOSE r \in free : TRUE) \in free
  <2>1. \E r \in free : TRUE
    BY <1>1
  <2> QED BY <2>1
<1> QED BY <1>1, <1>2

LEMMA TypedWithout ==
    ASSUME NEW pending, Typed(pending), NEW r
    PROVE  Typed(Without(pending, r))
BY DEF Typed, Without

LEMMA TypedOrphaned ==
    ASSUME NEW pending, Typed(pending)
    PROVE  Typed(Orphaned(pending))
<1>1. \A r \in Requests : \/ Orphaned(pending)[r] = pending[r]
                          \/ Orphaned(pending)[r] = None
                          \/ /\ pending[r] # None
                             /\ Orphaned(pending)[r] = [pending[r] EXCEPT !.kind = "left"]
  BY DEF Orphaned
<1>2. \A r \in Requests : pending[r] # None =>
            LET left == [pending[r] EXCEPT !.kind = "left"]
            IN  left \in Messages /\ left.kind = "left"
  BY DEF Typed, MessageType, Messages, Kinds
<1>3. \A r \in Requests :
            /\ Orphaned(pending)[r] \in Messages \union {None}
            /\ Orphaned(pending)[r] # None => MessageType(Orphaned(pending)[r])
  BY <1>1, <1>2 DEF Typed, MessageType
<1>4. Orphaned(pending) = [r \in Requests |-> Orphaned(pending)[r]]
  BY DEF Orphaned
<1> QED BY <1>3, <1>4 DEF Typed

LEMMA TypedOccupy ==
    ASSUME NEW pending, Typed(pending), NEW kind, NEW about, NEW status,
           MessageType(Message(kind, about, status)),
           Occupy(pending, kind, about, status)
    PROVE  RequestsType'
<1>1. PICK r \in Requests : requests' = [pending EXCEPT ![r] = Message(kind, about, status)]
  BY Occupied
<1>2. Message(kind, about, status) \in Messages
  BY DEF MessageType
<1>3. Typed([pending EXCEPT ![r] = Message(kind, about, status)])
  BY <1>2 DEF Typed
<1> QED BY <1>1, <1>3 DEF RequestsType, Typed

\* What is sent has its type.
LEMMA MessagesTyped ==
    ASSUME NEW status \in {200, 401, 403}
    PROVE  /\ \A key \in Keys \union {None} :
                /\ MessageType(Message("login", key, status))
                /\ MessageType(Message("deactivate", key, status))
           /\ MessageType(Message("insights", None, status))
           /\ MessageType(Message("export", None, status))
           /\ \A some \in SUBSET Keys : MessageType(Message("keys", some, status))
           /\ \A segment \in Segments : MessageType(Message("delete", segment, status))
           /\ \A answer \in Answers : MessageType(Message("query", answer, status))
<1>1. ASSUME NEW kind \in Kinds, NEW about \in Abouts
      PROVE  /\ Message(kind, about, status) \in Messages
             /\ Message(kind, about, status).kind = kind
             /\ Message(kind, about, status).about = about
  BY DEF Message, Messages, Kinds
<1>2. /\ \A key \in Keys \union {None} : key \in Abouts
      /\ \A some \in SUBSET Keys : some \in Abouts
      /\ \A segment \in Segments : segment \in Abouts
      /\ \A answer \in Answers : answer \in Abouts
  BY DEF Abouts
<1>3. None \in Abouts
  BY DEF Abouts
<1>4. ASSUME NEW key \in Keys \union {None}
      PROVE  /\ MessageType(Message("login", key, status))
             /\ MessageType(Message("deactivate", key, status))
  BY <1>1, <1>2 DEF MessageType, Kinds
<1>5. MessageType(Message("insights", None, status)) /\ MessageType(Message("export", None, status))
  BY <1>1, <1>3 DEF MessageType, Kinds
<1>6. ASSUME NEW some \in SUBSET Keys
      PROVE  MessageType(Message("keys", some, status))
  BY <1>1, <1>2 DEF MessageType, Kinds
<1>7. ASSUME NEW segment \in Segments
      PROVE  MessageType(Message("delete", segment, status))
  BY <1>1, <1>2 DEF MessageType, Kinds
<1>8. ASSUME NEW answer \in Answers
      PROVE  MessageType(Message("query", answer, status))
  BY <1>1, <1>2 DEF MessageType, Kinds
<1> QED BY <1>4, <1>5, <1>6, <1>7, <1>8

LEMMA StatusTyped == Jwt \in {200, 401, 403} /\ ApiKey \in {200, 401, 403}
BY DEF Jwt, ApiKey

(***************************************************************************)
(* Type correctness                                                        *)
(***************************************************************************)

LEMMA FilterTyped ==
    ASSUME NEW form \in Forms \union {EmptyForm}
    PROVE  FilterOf(form) \in Filters /\ FilterOf(form) # None
<1>1. form.segment \in Segments \union {None}
  <2>1. CASE form \in Forms
    BY <2>1 DEF Segments
  <2>2. CASE form = EmptyForm
    BY <2>2 DEF EmptyForm
  <2> QED BY <2>1, <2>2
<1>2. FilterOf(form) \in Filters
  BY <1>1 DEF FilterOf, Filters
<1> QED BY <1>2, NoneAssumption

LEMMA SegmentTyped ==
    ASSUME NEW form \in Forms \union {EmptyForm}, form.segment # None
    PROVE  form.segment \in Segments
<1>1. EmptyForm.segment = None
  BY DEF EmptyForm
<1>2. form \in Forms
  BY <1>1
<1> QED BY <1>2 DEF Segments

LEMMA AnswerTyped ==
    ASSUME NEW filter \in Filters, NEW page \in Nat
    PROVE  Answer(filter, page) \in Answers /\ Answer(filter, page) # None
<1>1. Answer(filter, page) \in Answers
  BY DEF Answer, Answers, PagesOf
<1> QED BY <1>1, NoneAssumption

LEMMA EmptyViewTyped ==
    ASSUME NEW page \in PageNames
    PROVE  EmptyView(page) \in Views
BY DEF EmptyView, Views

LEMMA MountTyped ==
    ASSUME NEW page \in PageNames, NEW pending, Typed(pending), active \subseteq Keys,
           StoreType', Mount(page, pending)
    PROVE  RequestsType' /\ ViewType'
<1>1. EmptyView(page) \in Views
  BY EmptyViewTyped
<1>2. CASE page = "insights"
  <2>1. /\ view' = [EmptyView(page) EXCEPT !.loading = TRUE]
        /\ Occupy(pending, "insights", None, Jwt)
    BY <1>2 DEF Mount
  <2>2. RequestsType'
    BY <2>1, TypedOccupy, MessagesTyped, StatusTyped
  <2> QED BY <1>1, <2>1, <2>2 DEF ViewType, Views
<1>3. CASE page = "keys"
  <2>1. /\ view' = [EmptyView(page) EXCEPT !.loading = TRUE]
        /\ Occupy(pending, "keys", active, Jwt)
    BY <1>3 DEF Mount
  <2>2. RequestsType'
    <3>1. MessageType(Message("keys", active, Jwt))
      BY MessagesTyped, StatusTyped
    <3> QED BY <2>1, <3>1, TypedOccupy
  <2> QED BY <1>1, <2>1, <2>2 DEF ViewType, Views
<1>4. CASE page = "query"
  <2>1. /\ view' = [EmptyView(page) EXCEPT !.table = store'.hasSearched]
        /\ requests' = pending
    BY <1>4 DEF Mount
  <2>2. store'.hasSearched \in BOOLEAN
    BY DEF StoreType
  <2>3. ViewType'
    BY <1>1, <2>1, <2>2 DEF ViewType, Views
  <2> QED BY <2>1, <2>3 DEF RequestsType
<1>5. CASE page = "login"
  BY <1>1, <1>5 DEF Mount, ViewType, RequestsType
<1> QED BY <1>2, <1>3, <1>4, <1>5 DEF PageNames

LEMMA LogoutTyped ==
    ASSUME NEW pending, Typed(pending), TypeInv, Logout(pending)
    PROVE  RequestsType' /\ ViewType' /\ SessionType'
<1>1. EmptyView("login") \in Views
  BY EmptyViewTyped DEF PageNames
<1>2. SessionType'
  BY DEF Logout, SignedOut, SessionType
<1> QED BY <1>1, <1>2, TypedOrphaned DEF Logout, TypeInv, RequestsType, ViewType

LEMMA UnauthorisedTyped ==
    ASSUME NEW r, TypeInv, Unauthorised(r)
    PROVE  RequestsType' /\ ViewType' /\ SessionType'
<1>1. Typed(Without(requests, r))
  BY TypedWithout DEF TypeInv, RequestsType
<1>2. CASE session.token = None
  BY <1>1, <1>2 DEF Unauthorised, Without, TypeInv, RequestsType, ViewType, SessionType
<1>3. CASE session.token # None
  BY <1>1, <1>3, LogoutTyped DEF Unauthorised, Without
<1> QED BY <1>2, <1>3

\* A slot of a kind holds a typed request.
LEMMA SlotTyped ==
    ASSUME TypeInv, NEW kind, NEW r, r \in UnderWay(kind)
    PROVE  /\ r \in Requests /\ requests[r] # None /\ requests[r].kind = kind
           /\ MessageType(requests[r]) /\ requests[r] \in Messages
           /\ requests[r].status \in {200, 401, 403} /\ requests[r].old \in BOOLEAN
<1>1. r \in Requests /\ requests[r] # None /\ requests[r].kind = kind
  BY DEF UnderWay
<1>2. MessageType(requests[r])
  BY <1>1 DEF TypeInv, RequestsType, Typed
<1> QED BY <1>1, <1>2 DEF MessageType, Messages

LEMMA TypeStep ==
    ASSUME TypeInv, Next
    PROVE  TypeInv'
<1> USE DEF TypeInv
<1>1. /\ RequestsType /\ SessionType /\ StoreType /\ ViewType /\ active \subseteq Keys
      /\ Typed(requests) /\ Typed(Orphaned(requests))
      /\ \A r : Typed(Without(requests, r))
  BY TypedOrphaned, TypedWithout DEF RequestsType
<1>2. ASSUME NEW r, NEW kind, Fails(r, kind)
      PROVE  RequestsType'
  BY <1>1, <1>2 DEF Fails, Without, RequestsType
<1>3. ASSUME NEW r, NEW kind, NEW status, Answered(r, kind, status)
      PROVE  RequestsType' /\ r \in UnderWay(kind)
  BY <1>1, <1>3 DEF Answered, Without, RequestsType
<1>4. CASE SignOut \/ Expire
  <2>1. CASE SignOut
    BY <1>1, <2>1, LogoutTyped DEF SignOut, server, StoreType
  <2>2. CASE Expire
    BY <1>1, <2>2 DEF Expire, server, Tokens, SessionType, StoreType, ViewType, RequestsType
  <2> QED BY <1>4, <2>1, <2>2
<1>5. ASSUME NEW page \in PageNames, Open(page)
      PROVE  TypeInv'
  BY <1>1, <1>5, MountTyped DEF Open, server, SessionType, StoreType
<1>6. ASSUME NEW page \in PageNames, Reload(page)
      PROVE  TypeInv'
  <2> DEFINE nothing == [r \in Requests |-> None]
  <2>1. Typed(nothing)
    BY DEF Typed
  <2>2. Mount(page, nothing)
    BY <1>6 DEF Reload
  <2>3. StoreType'
    BY <1>6 DEF Reload, StoreType, EmptyStore
  <2> HIDE DEF nothing
  <2> QED BY <1>1, <1>6, <2>1, <2>2, <2>3, MountTyped DEF Reload, server, SessionType
<1>7. ASSUME NEW key \in Keys \union {None}, Submit(key)
      PROVE  TypeInv'
  <2>1. PICK status \in LoginStatus(key) : Occupy(requests, "login", key, status)
    BY <1>7 DEF Submit, Send
  <2>2. status \in {200, 401, 403}
    BY DEF LoginStatus
  <2>3. RequestsType'
    BY <1>1, <2>1, <2>2, MessagesTyped, TypedOccupy
  <2>4. ViewType'
    BY <1>1, <1>7 DEF Submit, ViewType, Views
  <2> QED BY <1>1, <1>7, <2>3, <2>4 DEF Submit, server, SessionType, StoreType
<1>8. ASSUME NEW form \in Forms, Edit(form)
      PROVE  TypeInv'
  BY <1>1, <1>8 DEF Edit, server, SessionType, StoreType, ViewType, Views, RequestsType
<1>9. ASSUME NEW filter \in Filters \union {None}, NEW page \in Nat, LoadPage(filter, page)
      PROVE  RequestsType'
  <2>1. CASE filter = None
    BY <1>1, <1>9, <2>1 DEF LoadPage, RequestsType
  <2>2. CASE filter # None
    <3>1. Answer(filter, page) \in Answers
      BY <2>2, AnswerTyped
    <3>2. Occupy(requests, "query", Answer(filter, page), ApiKey)
      BY <1>9, <2>2 DEF LoadPage, Send
    <3> QED BY <1>1, <3>1, <3>2, MessagesTyped, StatusTyped, TypedOccupy
  <2> QED BY <2>1, <2>2
<1>10. CASE Search
  <2>1. FilterOf(view.form) \in Filters
    BY <1>1, FilterTyped DEF ViewType, Views
  <2>2. RequestsType'
    BY <1>9, <1>10, <2>1 DEF Search
  <2>3. StoreType' /\ ViewType'
    BY <1>1, <1>10, <2>1 DEF Search, StoreType, ViewType, Views
  <2> QED BY <1>1, <1>10, <2>2, <2>3 DEF Search, server, SessionType
<1>11. ASSUME NEW page \in 1 .. Pages, GoToPage(page)
       PROVE  TypeInv'
  <2>1. page \in Nat /\ store.filter \in Filters \union {None}
    BY <1>1, PagesAssumption DEF StoreType
  <2>2. RequestsType'
    BY <1>9, <1>11, <2>1 DEF GoToPage
  <2>3. StoreType'
    BY <1>1, <1>11, <2>1 DEF GoToPage, StoreType
  <2> QED BY <1>1, <1>11, <2>2, <2>3 DEF GoToPage, server, SessionType, ViewType
<1>12. ASSUME ResetStore
       PROVE  StoreType'
  BY <1>1, <1>12 DEF ResetStore, EmptyStore, StoreType
<1>13. CASE Clear
  <2>1. StoreType'
    BY <1>12, <1>13 DEF Clear
  <2>2. ViewType'
    BY <1>1, <1>13 DEF Clear, ViewType, Views
  <2> QED BY <1>1, <1>13, <2>1, <2>2 DEF Clear, server, SessionType, RequestsType
<1>14. CASE ConfirmDeleteSegment
  <2>1. PICK status \in {200, 401, 403} : Occupy(requests, "delete", view.form.segment, status)
    BY <1>14 DEF ConfirmDeleteSegment, Send
  <2>2. view.form.segment \in Segments
    <3>1. view.form \in Forms \union {EmptyForm}
      BY <1>1 DEF ViewType, Views
    <3>2. view.form.segment # None
      BY <1>14 DEF ConfirmDeleteSegment
    <3> QED BY <3>1, <3>2, SegmentTyped
  <2>3. RequestsType'
    BY <1>1, <2>1, <2>2, MessagesTyped, TypedOccupy
  <2> QED BY <1>1, <1>14, <2>3 DEF ConfirmDeleteSegment, SessionType, StoreType, ViewType
<1>15. CASE LoadInsights \/ LoadKeys
  <2>1. MessageType(Message("insights", None, Jwt)) /\ MessageType(Message("keys", active, Jwt))
    BY <1>1, MessagesTyped, StatusTyped
  <2>2. RequestsType'
    BY <1>1, <1>15, <2>1, TypedOccupy DEF LoadInsights, LoadKeys, Send
  <2>3. ViewType'
    BY <1>1, <1>15 DEF LoadInsights, LoadKeys, ViewType, Views
  <2> QED BY <1>1, <1>15, <2>2, <2>3 DEF LoadInsights, LoadKeys, server, SessionType, StoreType
<1>16. CASE Cancel \/ \E key \in Keys : ConfirmDeactivate(key)
  <2>1. ViewType'
    BY <1>1, <1>16 DEF Cancel, ConfirmDeactivate, ViewType, Views
  <2> QED BY <1>1, <1>16, <2>1 DEF Cancel, ConfirmDeactivate, server, SessionType, StoreType,
             RequestsType
<1>17. CASE Deactivate
  <2>1. view.confirmKey \in Keys /\ view.confirmKey # None
    BY <1>1, <1>17 DEF Deactivate, ViewType, Views
  <2>2. Occupy(requests, "deactivate", view.confirmKey, Jwt)
    BY <1>17 DEF Deactivate, Send
  <2>3. RequestsType'
    BY <1>1, <2>1, <2>2, MessagesTyped, StatusTyped, TypedOccupy
  <2>4. ViewType'
    BY <1>1, <1>17, <2>1 DEF Deactivate, ViewType, Views
  <2> QED BY <1>1, <1>17, <2>3, <2>4 DEF Deactivate, SessionType, StoreType
<1>18. ASSUME NEW key \in Keys, DownloadExport(key)
       PROVE  TypeInv'
  <2>1. PICK status \in {200, 401, 403} : Occupy(requests, "export", None, status)
    BY <1>18 DEF DownloadExport, Send
  <2>2. RequestsType'
    BY <1>1, <2>1, MessagesTyped, TypedOccupy
  <2>3. SessionType'
    BY <1>1, <1>18 DEF DownloadExport, SessionType
  <2> QED BY <1>1, <1>18, <2>2, <2>3 DEF DownloadExport, server, StoreType, ViewType
<1>19. ASSUME NEW r \in Requests, LoginAnswer(r)
       PROVE  TypeInv'
  <2>1. r \in UnderWay("login") /\ requests[r].about \in Keys \union {None}
    BY <1>19, SlotTyped DEF LoginAnswer, MessageType
  <2>2. SessionType'
    BY <1>1, <1>19, <2>1 DEF LoginAnswer, SessionType, Tokens
  <2>3. EmptyView("insights") \in Views
    BY EmptyViewTyped DEF PageNames
  <2>4. ViewType'
    BY <1>19, <2>3 DEF LoginAnswer, ViewType, Views
  <2>5. requests' = [requests EXCEPT ![r] = Message("insights", None, 200)]
    BY <1>19 DEF LoginAnswer, Message
  <2>6. MessageType(Message("insights", None, 200)) /\ Message("insights", None, 200) \in Messages
    BY MessagesTyped DEF MessageType
  <2>7. RequestsType'
    BY <1>1, <2>5, <2>6 DEF RequestsType, Typed
  <2> QED BY <1>1, <1>19, <2>2, <2>4, <2>7 DEF LoginAnswer, server, StoreType
<1>20. ASSUME NEW r \in Requests, LoginRejected(r) \/ LoginFails(r)
       PROVE  TypeInv'
  <2>1. RequestsType'
    BY <1>1, <1>2, <1>20 DEF LoginRejected, LoginFails, Without, RequestsType
  <2>2. SessionType'
    BY <1>1, <1>20 DEF LoginRejected, LoginFails, SignedOut, SessionType
  <2>3. ViewType'
    <3>1. view' = [view EXCEPT !.loading = FALSE]
      BY <1>20 DEF LoginRejected, LoginFails
    <3> QED BY <1>1, <3>1 DEF ViewType, Views
  <2> QED BY <1>1, <1>20, <2>1, <2>2, <2>3 DEF LoginRejected, LoginFails, server, StoreType
<1>21. ASSUME NEW r \in Requests, QueryAnswer(r)
       PROVE  TypeInv'
  <2>1. RequestsType' /\ r \in UnderWay("query")
    BY <1>3, <1>21 DEF QueryAnswer
  <2>2. requests[r].about \in Answers
    BY <2>1, SlotTyped DEF MessageType
  <2>3. requests[r].about.page \in Nat /\ requests[r].about.pages \in {0, Pages}
    BY <2>2 DEF Answers
  <2>4. StoreType'
    BY <1>1, <1>21, <2>2, <2>3 DEF QueryAnswer, StoreType
  <2> QED BY <1>1, <1>21, <2>1, <2>4 DEF QueryAnswer, server, SessionType, ViewType
<1>22. ASSUME NEW r \in Requests, QueryRejected(r) \/ QueryFails(r)
       PROVE  TypeInv'
  <2>1. StoreType'
    BY <1>1, <1>22 DEF QueryRejected, QueryFails, StoreType
  <2>2. CASE QueryRejected(r)
    BY <1>1, <2>1, <2>2, UnauthorisedTyped DEF QueryRejected, server
  <2>3. CASE QueryFails(r)
    BY <1>1, <1>2, <2>1, <2>3 DEF QueryFails, server, SessionType, ViewType
  <2> QED BY <1>22, <2>2, <2>3
<1>23. ASSUME NEW r \in Requests, DeleteDone(r)
       PROVE  TypeInv'
  <2>1. RequestsType' /\ StoreType'
    BY <1>3, <1>12, <1>23 DEF DeleteDone
  <2>2. ViewType'
    BY <1>1, <1>23 DEF DeleteDone, ViewType, Views
  <2> QED BY <1>1, <1>23, <2>1, <2>2 DEF DeleteDone, server, SessionType
<1>24. ASSUME NEW r \in Requests, ExportDone(r) \/ ExportForbidden(r) \/ RequestLost(r)
       PROVE  TypeInv'
  <2>1. RequestsType'
    BY <1>2, <1>3, <1>24 DEF ExportDone, ExportForbidden, RequestLost
  <2>2. SessionType'
    BY <1>1, <1>24 DEF ExportDone, ExportForbidden, RequestLost, SessionType
  <2> QED BY <1>1, <1>24, <2>1, <2>2 DEF ExportDone, ExportForbidden, RequestLost, server,
             StoreType, ViewType
<1>25. ASSUME NEW r \in Requests, Rejected(r)
       PROVE  TypeInv'
  BY <1>1, <1>25, UnauthorisedTyped DEF Rejected, server, StoreType
<1>26. ASSUME NEW r \in Requests, InsightsAnswer(r) \/ InsightsFail(r) \/ KeysFail(r)
       PROVE  TypeInv'
  <2>1. RequestsType'
    BY <1>2, <1>3, <1>26 DEF InsightsAnswer, InsightsFail, KeysFail
  <2>2. ViewType'
    BY <1>1, <1>26 DEF InsightsAnswer, InsightsFail, KeysFail, ViewType, Views
  <2> QED BY <1>1, <1>26, <2>1, <2>2 DEF InsightsAnswer, InsightsFail, KeysFail, server,
             SessionType, StoreType
<1>27. ASSUME NEW r \in Requests, KeysAnswer(r)
       PROVE  TypeInv'
  <2>1. RequestsType' /\ r \in UnderWay("keys")
    BY <1>3, <1>27 DEF KeysAnswer
  <2>2. requests[r].old \in BOOLEAN
    BY <2>1, SlotTyped
  <2>3. [k \in Keys |-> k \in requests[r].about] \in [Keys -> BOOLEAN \union {None}]
    OBVIOUS
  <2>4. ViewType'
    BY <1>1, <1>27, <2>2, <2>3 DEF KeysAnswer, ViewType, Views
  <2> QED BY <1>1, <1>27, <2>1, <2>4 DEF KeysAnswer, server, SessionType, StoreType
<1>28. ASSUME NEW r \in Requests, Settle(r)
       PROVE  RequestsType'
  <2>1. ASSUME NEW q \in Requests
        PROVE  \/ requests'[q] = None
               \/ requests'[q] = requests[q]
               \/ /\ q \in UnderWay("keys")
                  /\ requests'[q] = [requests[q] EXCEPT !.old = TRUE]
    BY <1>28 DEF Settle
  <2>2. ASSUME NEW q \in UnderWay("keys")
        PROVE  MessageType([requests[q] EXCEPT !.old = TRUE])
    <3>1. MessageType(requests[q]) /\ requests[q].kind = "keys"
      BY SlotTyped
    <3> QED BY <3>1 DEF MessageType, Messages
  <2>3. ASSUME NEW q \in Requests
        PROVE  /\ requests'[q] \in Messages \union {None}
               /\ requests'[q] # None => MessageType(requests'[q])
    BY <1>1, <2>1, <2>2 DEF Typed, MessageType
  <2>4. requests' = [q \in Requests |-> requests'[q]]
    BY <1>28 DEF Settle
  <2> QED BY <2>3, <2>4 DEF RequestsType, Typed
<1>29. ASSUME NEW r \in Requests, DeactivateDone(r) \/ DeactivateFails(r)
       PROVE  TypeInv'
  <2>1. RequestsType'
    BY <1>28, <1>29 DEF DeactivateDone, DeactivateFails
  <2>2. ViewType'
    <3>1. CASE DeactivateDone(r)
      <4> DEFINE listed == [view.keys EXCEPT ![requests[r].about] = FALSE]
      <4>1. listed \in [Keys -> BOOLEAN \union {None}]
        BY <1>1 DEF ViewType, Views
      <4>2. view' = [view EXCEPT !.keys = listed, !.deactivating = None]
        BY <3>1 DEF DeactivateDone
      <4> HIDE DEF listed
      <4> QED BY <1>1, <4>1, <4>2 DEF ViewType, Views
    <3>2. CASE DeactivateFails(r)
      BY <1>1, <3>2 DEF DeactivateFails, ViewType, Views
    <3> QED BY <1>29, <3>1, <3>2
  <2> QED BY <1>1, <1>29, <2>1, <2>2 DEF DeactivateDone, DeactivateFails, server,
             SessionType, StoreType
<1>30. /\ {"insights", "query", "keys"} \subseteq PageNames /\ "login" \in PageNames
  BY DEF PageNames
<1> QED
  BY <1>4, <1>5, <1>6, <1>7, <1>8, <1>10, <1>11, <1>13, <1>14, <1>15, <1>16, <1>17, <1>18,
     <1>19, <1>20, <1>21, <1>22, <1>23, <1>24, <1>25, <1>26, <1>27, <1>29, <1>30 DEF Next

LEMMA TypeInvariant == Spec => []TypeInv
<1>1. Init => TypeInv
  <2> SUFFICES ASSUME Init PROVE TypeInv
    OBVIOUS
  <2>1. ViewType
    BY EmptyViewTyped DEF Init, ViewType, PageNames
  <2>2. RequestsType /\ SessionType /\ StoreType
    BY DEF Init, RequestsType, Typed, SessionType, SignedOut, StoreType, EmptyStore
  <2> QED BY <2>1, <2>2 DEF Init, TypeInv
<1>2. TypeInv /\ [Next]_vars => TypeInv'
  <2>1. TypeInv /\ UNCHANGED vars => TypeInv'
    BY DEF vars, server, TypeInv, RequestsType, Typed, SessionType, StoreType, ViewType
  <2> QED BY <2>1, TypeStep
<1> QED BY <1>1, <1>2, PTL DEF Spec

(***************************************************************************)
(* What a step does to the requests of a kind                              *)
(***************************************************************************)

Slots(pending, kind) == {r \in Requests : pending[r] # None /\ pending[r].kind = kind}

\* Those a page leaves behind, and those that go on without it.
PageKinds == {"login", "insights", "keys", "deactivate"}
StoreKinds == {"query", "delete", "export"}

LEMMA UnderWaySlots ==
    /\ \A kind : UnderWay(kind) = Slots(requests, kind)
    /\ \A kind : UnderWay(kind)' = {r \in Requests : requests'[r] # None /\ requests'[r].kind = kind}
BY DEF UnderWay, Slots

LEMMA OccupyEffect ==
    ASSUME NEW pending, Typed(pending), NEW kind, NEW about, NEW status,
           MessageType(Message(kind, about, status)),
           Occupy(pending, kind, about, status)
    PROVE  \E r \in Requests :
                /\ r \notin Slots(pending, kind)
                /\ requests'[r] = Message(kind, about, status)
                /\ UnderWay(kind)' = Slots(pending, kind) \union {r}
                /\ \A q \in Requests : q # r => requests'[q] = pending[q]
                /\ \A other : other # kind => UnderWay(other)' = Slots(pending, other)
<1>1. PICK r \in Requests :
            /\ pending[r] = None
            /\ requests' = [pending EXCEPT ![r] = Message(kind, about, status)]
  BY Occupied
<1>2. Message(kind, about, status) \in Messages /\ Message(kind, about, status).kind = kind
  BY DEF MessageType, Message
<1>3. Message(kind, about, status) # None
  BY <1>2, NoneAssumption
<1>4. /\ requests'[r] = Message(kind, about, status)
      /\ \A q \in Requests : q # r => requests'[q] = pending[q]
  BY <1>1 DEF Typed
<1>5. r \notin Slots(pending, kind)
  BY <1>1 DEF Slots
<1>6. UnderWay(kind)' = Slots(pending, kind) \union {r}
  BY <1>2, <1>3, <1>4, UnderWaySlots DEF Slots
<1>7. ASSUME NEW other, other # kind
      PROVE  UnderWay(other)' = Slots(pending, other)
  BY <1>1, <1>2, <1>4, <1>7, UnderWaySlots DEF Slots
<1> QED BY <1>4, <1>5, <1>6, <1>7

LEMMA OrphanEffect ==
    ASSUME NEW pending, Typed(pending)
    PROVE  /\ \A kind \in PageKinds : Slots(Orphaned(pending), kind) = {}
           /\ \A kind \in StoreKinds :
                /\ Slots(Orphaned(pending), kind) = Slots(pending, kind)
                /\ \A r \in Slots(pending, kind) : Orphaned(pending)[r] = pending[r]
<1>1. ASSUME NEW r \in Requests
      PROVE  IF \/ pending[r] = None
                \/ pending[r].kind \notin PageKinds
             THEN Orphaned(pending)[r] = pending[r]
             ELSE \/ Orphaned(pending)[r] = None
                  \/ Orphaned(pending)[r].kind = "left"
  <2>1. CASE pending[r] # None
    <3>1. pending[r] \in Messages
      BY <2>1 DEF Typed
    <3>2. [pending[r] EXCEPT !.kind = "left"].kind = "left"
      BY <3>1 DEF Messages
    <3> QED BY <2>1, <3>2 DEF Orphaned, PageKinds
  <2>2. CASE pending[r] = None
    BY <2>2 DEF Orphaned
  <2> QED BY <2>1, <2>2
<1>2. "left" \notin PageKinds /\ "left" \notin StoreKinds /\ PageKinds \intersect StoreKinds = {}
  BY DEF PageKinds, StoreKinds
<1> QED BY <1>1, <1>2 DEF Slots

LEMMA WithoutEffect ==
    ASSUME NEW pending, Typed(pending), NEW r
    PROVE  /\ \A kind : Slots(Without(pending, r), kind) = Slots(pending, kind) \ {r}
           /\ \A q \in Requests : q # r => Without(pending, r)[q] = pending[q]
BY DEF Slots, Without, Typed

LEMMA EmptyViewShape ==
    ASSUME NEW page
    PROVE  /\ EmptyView(page).page = page /\ ~EmptyView(page).loading
           /\ EmptyView(page).confirmKey = None /\ EmptyView(page).deactivating = None
           /\ EmptyView(page).keys = [k \in Keys |-> None]
BY DEF EmptyView

\* A page that is opened waits for its own request only.
LEMMA MountEffect ==
    ASSUME NEW pending, Typed(pending), active \subseteq Keys, NEW page \in PageNames,
           \A kind \in PageKinds : Slots(pending, kind) = {}, Mount(page, pending)
    PROVE  /\ view'.page = page /\ view'.confirmKey = None /\ view'.deactivating = None
           /\ view'.keys = [k \in Keys |-> None]
           /\ view'.loading => page \in {"insights", "keys"} /\ UnderWay(page)' # {}
           /\ UnderWay("login")' = {} /\ UnderWay("deactivate")' = {}
           /\ UnderWay("insights")' # {} => page = "insights"
           /\ UnderWay("keys")' # {} => page = "keys"
           /\ \A r \in UnderWay("keys")' : requests'[r] = Message("keys", active, Jwt)
           /\ \A kind \in StoreKinds :
                /\ UnderWay(kind)' = Slots(pending, kind)
                /\ \A r \in Slots(pending, kind) : requests'[r] = pending[r]
<1>1. EmptyView(page) \in Views
  BY EmptyViewTyped
<1> USE EmptyViewShape
<1>2. "insights" \notin StoreKinds /\ "keys" \notin StoreKinds
  BY DEF StoreKinds
<1>3. \A kind \in {"login", "insights", "keys", "deactivate"} : Slots(pending, kind) = {}
  BY DEF PageKinds
<1>4. CASE page = "insights"
  <2>1. view' = [EmptyView(page) EXCEPT !.loading = TRUE]
    BY <1>4 DEF Mount
  <2>2. Occupy(pending, "insights", None, Jwt) /\ MessageType(Message("insights", None, Jwt))
    BY <1>4, MessagesTyped, StatusTyped DEF Mount
  <2>3. PICK r \in Requests :
            /\ UnderWay("insights")' = Slots(pending, "insights") \union {r}
            /\ \A q \in Requests : q # r => requests'[q] = pending[q]
            /\ \A other : other # "insights" => UnderWay(other)' = Slots(pending, other)
            /\ requests'[r] = Message("insights", None, Jwt)
    BY <2>2, OccupyEffect
  <2>4. ASSUME NEW kind \in StoreKinds
        PROVE  /\ UnderWay(kind)' = Slots(pending, kind)
               /\ \A q \in Slots(pending, kind) : requests'[q] = pending[q]
    <3>1. UnderWay(kind)' = Slots(pending, kind)
      BY <1>2, <2>3
    <3>2. r \notin UnderWay(kind)'
      BY <1>2, <2>3, UnderWaySlots DEF Message
    <3> QED BY <2>3, <3>1, <3>2 DEF Slots
  <2>5. /\ view'.page = page /\ view'.confirmKey = None /\ view'.deactivating = None
        /\ view'.keys = [k \in Keys |-> None]
    BY <1>1, <2>1 DEF Views
  <2> QED BY <1>3, <1>4, <2>3, <2>4, <2>5
<1>5. CASE page = "keys"
  <2>1. view' = [EmptyView(page) EXCEPT !.loading = TRUE]
    BY <1>5 DEF Mount
  <2>2. Occupy(pending, "keys", active, Jwt) /\ MessageType(Message("keys", active, Jwt))
    BY <1>5, MessagesTyped, StatusTyped DEF Mount
  <2>3. PICK r \in Requests :
            /\ UnderWay("keys")' = Slots(pending, "keys") \union {r}
            /\ \A q \in Requests : q # r => requests'[q] = pending[q]
            /\ \A other : other # "keys" => UnderWay(other)' = Slots(pending, other)
            /\ requests'[r] = Message("keys", active, Jwt)
    BY <2>2, OccupyEffect
  <2>4. ASSUME NEW kind \in StoreKinds
        PROVE  /\ UnderWay(kind)' = Slots(pending, kind)
               /\ \A q \in Slots(pending, kind) : requests'[q] = pending[q]
    <3>1. UnderWay(kind)' = Slots(pending, kind)
      BY <1>2, <2>3
    <3>2. r \notin UnderWay(kind)'
      BY <1>2, <2>3, UnderWaySlots DEF Message
    <3> QED BY <2>3, <3>1, <3>2 DEF Slots
  <2>5. /\ view'.page = page /\ view'.confirmKey = None /\ view'.deactivating = None
        /\ view'.keys = [k \in Keys |-> None]
    BY <1>1, <2>1 DEF Views
  <2> QED BY <1>3, <1>5, <2>3, <2>4, <2>5
<1>6. CASE page \in {"query", "login"}
  <2>1. requests' = pending
    BY <1>6 DEF Mount
  <2>2. \A kind : UnderWay(kind)' = Slots(pending, kind)
    BY <2>1, UnderWaySlots DEF Slots
  <2>3. \/ view' = [EmptyView(page) EXCEPT !.table = store'.hasSearched]
        \/ view' = EmptyView(page)
    BY <1>6 DEF Mount
  <2>4. /\ view'.page = page /\ view'.confirmKey = None /\ view'.deactivating = None
        /\ view'.keys = [k \in Keys |-> None] /\ ~view'.loading
    BY <1>1, <2>3 DEF Views
  <2> QED BY <1>3, <2>1, <2>2, <2>4
<1> QED BY <1>4, <1>5, <1>6 DEF PageNames

(***************************************************************************)
(* No page waits for nothing                                               *)
(***************************************************************************)

Spinners == {"login", "insights", "keys", "deactivate", "query"}

\* A step that takes no request away from who waits for it.
LEMMA SpinnerQuiet ==
    ASSUME SpinnerInv, view.page \in PageNames, view' = view,
           session'.token = None => session.token = None,
           \A kind \in {"login", "insights", "keys"} : UnderWay(kind)' = UnderWay(kind),
           \A kind \in Spinners : UnderWay(kind) \subseteq UnderWay(kind)',
           store'.loading => store.loading \/ UnderWay("query")' # {}
    PROVE  SpinnerInv'
<1>1. \A kind \in {"login", "insights", "keys", "deactivate", "query"} :
            UnderWay(kind) \subseteq UnderWay(kind)'
  BY DEF Spinners
<1>2. SignedInv'
  BY DEF SpinnerInv, SignedInv
<1>3. view.loading => view.page \in {"login", "insights", "keys"}
  BY DEF SpinnerInv, PageNames
<1>4. UnderWay(view.page)' = {r \in Requests : requests'[r] # None /\ requests'[r].kind = view.page}
  BY DEF UnderWay
<1>5. view'.loading => UnderWay(view.page)' # {}
  <2>1. ASSUME view.loading, NEW page \in {"login", "insights", "keys"}, view.page = page
        PROVE  UnderWay(view.page)' # {}
    <3>1. UnderWay(page) # {} /\ UnderWay(page) \subseteq UnderWay(page)'
      BY <1>1, <2>1 DEF SpinnerInv, NoSpinnerForever
    <3>2. UnderWay(view.page)' = UnderWay(page)'
      BY <1>4, <2>1 DEF UnderWay
    <3> QED BY <3>1, <3>2
  <2> QED BY <1>3, <2>1
<1>6. NoSpinnerForever'
  BY <1>1, <1>5 DEF SpinnerInv, NoSpinnerForever
<1> QED BY <1>2, <1>6 DEF SpinnerInv

LEMMA SpinnerLogout ==
    ASSUME TypeInv, SpinnerInv, NEW pending, Typed(pending), Logout(pending),
           Slots(pending, "login") = UnderWay("login"),
           \A kind : Slots(pending, kind) \subseteq UnderWay(kind),
           store'.loading => Slots(pending, "query") # {}
    PROVE  SpinnerInv'
<1>1. session'.token = None
  BY DEF Logout, SignedOut
<1>2. CASE view.page = "login"
  <2>1. view' = view /\ requests' = pending
    BY <1>2 DEF Logout
  <2>2. \A kind : UnderWay(kind)' = Slots(pending, kind)
    BY <2>1, UnderWaySlots DEF Slots
  <2>3. UnderWay(view.page)' = UnderWay("login") /\ UnderWay(view.page) = UnderWay("login")
    BY <1>2, <2>1, <2>2 DEF UnderWay
  <2> QED BY <1>2, <2>1, <2>2, <2>3 DEF SpinnerInv, SignedInv, NoSpinnerForever
<1>3. CASE view.page # "login"
  <2>1. view' = EmptyView("login") /\ requests' = Orphaned(pending)
    BY <1>3 DEF Logout
  <2>2. \A kind : UnderWay(kind)' = Slots(Orphaned(pending), kind)
    BY <2>1, UnderWaySlots DEF Slots
  <2>3. /\ UnderWay("login")' = {} /\ UnderWay("query")' = Slots(pending, "query")
        /\ UnderWay("insights")' = {} /\ UnderWay("keys")' = {}
    BY <2>2, OrphanEffect DEF PageKinds, StoreKinds
  <2>4. /\ view'.page = "login" /\ ~view'.loading
        /\ view'.confirmKey = None /\ view'.deactivating = None
    BY <2>1, EmptyViewShape
  <2> QED BY <2>3, <2>4 DEF SpinnerInv, SignedInv, NoSpinnerForever
<1> QED BY <1>2, <1>3

LEMMA SpinnerUnauthorised ==
    ASSUME TypeInv, SpinnerInv, NEW r, r \notin UnderWay("login"), Unauthorised(r),
           store'.loading => UnderWay("query") \ {r} # {}
    PROVE  SpinnerInv'
<1> DEFINE pending == Without(requests, r)
<1>1. Typed(pending) /\ Typed(requests)
  BY TypedWithout DEF TypeInv, RequestsType
<1>2. \A kind : Slots(pending, kind) = UnderWay(kind) \ {r}
  BY <1>1, WithoutEffect, UnderWaySlots
<1>3. CASE session.token # None
  <2>1. Logout(pending)
    BY <1>3 DEF Unauthorised, Without
  <2>2. /\ Slots(pending, "login") = UnderWay("login")
        /\ \A kind : Slots(pending, kind) \subseteq UnderWay(kind)
    BY <1>2
  <2> HIDE DEF pending
  <2> QED BY <1>1, <1>2, <2>1, <2>2, SpinnerLogout
<1>4. CASE session.token = None
  <2>1. requests' = pending /\ view' = view /\ session' = session /\ view.page = "login"
    BY <1>4 DEF Unauthorised, Without, SpinnerInv, SignedInv
  <2>2. \A kind : UnderWay(kind)' = UnderWay(kind) \ {r}
    BY <1>2, <2>1, UnderWaySlots DEF Slots
  <2>3. UnderWay(view.page)' = UnderWay("login") /\ UnderWay(view.page) = UnderWay("login")
    BY <2>1, <2>2 DEF UnderWay
  <2> QED BY <2>1, <2>2, <2>3 DEF SpinnerInv, SignedInv, NoSpinnerForever
<1> QED BY <1>3, <1>4

LEMMA SpinnerMount ==
    ASSUME TypeInv, NEW pending, Typed(pending), NEW page \in PageNames,
           \A kind \in PageKinds : Slots(pending, kind) = {}, Mount(page, pending),
           page # "login" => session'.token # None,
           store'.loading => Slots(pending, "query") # {}
    PROVE  SpinnerInv'
<1>1. /\ view'.page = page /\ view'.confirmKey = None /\ view'.deactivating = None
      /\ view'.loading => page \in {"insights", "keys"} /\ UnderWay(page)' # {}
      /\ UnderWay("login")' = {} /\ UnderWay("query")' = Slots(pending, "query")
      /\ UnderWay("insights")' # {} => page = "insights"
      /\ UnderWay("keys")' # {} => page = "keys"
  BY MountEffect DEF TypeInv, StoreKinds
<1>2. UnderWay(view.page)' = UnderWay(page)'
  BY <1>1 DEF UnderWay
<1> QED BY <1>1, <1>2 DEF SpinnerInv, SignedInv, NoSpinnerForever

\* What a request that is sent, or is over, does to the kinds under way.
LEMMA SentEffect ==
    ASSUME TypeInv, NEW kind, NEW about, NEW status,
           MessageType(Message(kind, about, status)), Send(kind, about, status)
    PROVE  \E r \in Requests :
                /\ r \notin UnderWay(kind) /\ UnderWay(kind)' = UnderWay(kind) \union {r}
                /\ requests'[r] = Message(kind, about, status)
                /\ \A q \in Requests : q # r => requests'[q] = requests[q]
                /\ \A other : other # kind => UnderWay(other)' = UnderWay(other)
<1>1. Typed(requests)
  BY DEF TypeInv, RequestsType
<1> QED BY <1>1, OccupyEffect, UnderWaySlots DEF Send

LEMMA OverEffect ==
    ASSUME TypeInv, NEW kind, NEW r \in UnderWay(kind), requests' = Without(requests, r)
    PROVE  /\ UnderWay(kind)' = UnderWay(kind) \ {r}
           /\ \A other : other # kind => UnderWay(other)' = UnderWay(other)
           /\ \A q \in Requests : q # r => requests'[q] = requests[q]
<1>1. Typed(requests)
  BY DEF TypeInv, RequestsType
<1>2. \A other : UnderWay(other)' = UnderWay(other) \ {r}
  BY <1>1, WithoutEffect, UnderWaySlots DEF Slots
<1>3. \A other : other # kind => r \notin UnderWay(other)
  BY DEF UnderWay
<1> QED BY <1>1, <1>2, <1>3, WithoutEffect

LEMMA OldMessage ==
    ASSUME NEW message \in Messages
    PROVE  LET aged == [message EXCEPT !.old = TRUE]
           IN  /\ aged \in Messages /\ aged # None /\ aged.kind = message.kind
               /\ aged.about = message.about /\ aged.status = message.status /\ aged.old = TRUE
<1>1. [message EXCEPT !.old = TRUE] \in Messages
  BY DEF Messages
<1> QED BY <1>1, NoneAssumption DEF Messages

LEMMA SettleEffect ==
    ASSUME TypeInv, NEW r \in UnderWay("deactivate"), Settle(r)
    PROVE  /\ UnderWay("deactivate")' = UnderWay("deactivate") \ {r}
           /\ \A other : other # "deactivate" => UnderWay(other)' = UnderWay(other)
           /\ \A q \in Requests : q # r /\ q \notin UnderWay("keys") => requests'[q] = requests[q]
           /\ \A q \in UnderWay("keys") :
                /\ requests'[q].about = requests[q].about
                /\ requests'[q].old = (requests[q].old \/ requests[r].about \in requests[q].about)
<1>1. r \in Requests /\ requests[r] # None /\ requests[r].kind = "deactivate"
  BY DEF UnderWay
<1>2. /\ requests'[r] = None
      /\ \A q \in Requests : q # r /\ q \notin UnderWay("keys") => requests'[q] = requests[q]
  BY <1>1 DEF Settle
<1>3. ASSUME NEW q \in UnderWay("keys")
      PROVE  /\ q # r /\ q \in Requests /\ requests'[q] # None /\ requests'[q].kind = "keys"
             /\ requests'[q].about = requests[q].about
             /\ requests'[q].old = (requests[q].old \/ requests[r].about \in requests[q].about)
  <2>1. /\ q # r /\ q \in Requests /\ requests[q] \in Messages /\ requests[q].kind = "keys"
        /\ requests[q] # None
    BY <1>1, SlotTyped
  <2>2. requests[q].old \in BOOLEAN
    BY SlotTyped
  <2>3. CASE requests[r].about \in requests[q].about
    <3>1. requests'[q] = [requests[q] EXCEPT !.old = TRUE]
      BY <2>1, <2>3 DEF Settle
    <3> QED BY <2>1, <2>3, <3>1, OldMessage
  <2>4. CASE requests[r].about \notin requests[q].about
    <3>1. requests'[q] = requests[q]
      BY <2>1, <2>4 DEF Settle
    <3> QED BY <2>1, <2>2, <2>4, <3>1
  <2> QED BY <2>3, <2>4
<1>4. UnderWay("deactivate")' = UnderWay("deactivate") \ {r}
  BY <1>2, <1>3 DEF UnderWay
<1>5. ASSUME NEW other, other # "deactivate"
      PROVE  UnderWay(other)' = UnderWay(other)
  <2>1. \A q \in Requests : \/ q = r
                            \/ requests'[q] = requests[q]
                            \/ /\ requests[q] # None /\ requests'[q] # None
                               /\ requests'[q].kind = requests[q].kind
    BY <1>2, <1>3 DEF UnderWay
  <2> QED BY <1>1, <1>2, <1>5, <2>1, UnderWaySlots DEF Slots
<1> QED BY <1>2, <1>3, <1>4, <1>5

LEMMA SpinnerStep ==
    ASSUME TypeInv, SpinnerInv, Next
    PROVE  SpinnerInv'
<1>1. /\ view.page \in PageNames /\ view \in Views /\ Typed(requests) /\ active \subseteq Keys
      /\ RequestsType /\ SessionType /\ StoreType
  BY DEF TypeInv, ViewType, Views, RequestsType
<1>2. /\ Typed(Orphaned(requests))
      /\ \A kind \in PageKinds : Slots(Orphaned(requests), kind) = {}
      /\ Slots(Orphaned(requests), "query") = UnderWay("query")
  BY <1>1, TypedOrphaned, OrphanEffect, UnderWaySlots DEF StoreKinds
<1>3. ASSUME NEW r, NEW kind, NEW status, Answered(r, kind, status)
      PROVE  r \in UnderWay(kind) /\ requests' = Without(requests, r)
  BY <1>3 DEF Answered, Without
<1>4. ASSUME NEW r, NEW kind, Fails(r, kind)
      PROVE  r \in UnderWay(kind) /\ requests' = Without(requests, r)
  BY <1>4 DEF Fails, Without
\* A request of no spinner's kind is sent, or is over.
<1>5. ASSUME NEW kind \in {"delete", "export", "left"}, NEW r \in UnderWay(kind),
             requests' = Without(requests, r), view' = view, store' = store,
             session'.token = session.token
      PROVE  SpinnerInv'
  <2>1. \A other \in Spinners : UnderWay(other)' = UnderWay(other)
    BY <1>5, OverEffect DEF Spinners
  <2>2. \A other \in {"login", "insights", "keys"} : UnderWay(other)' = UnderWay(other)
    BY <2>1 DEF Spinners
  <2> QED BY <1>1, <1>5, <2>1, <2>2, SpinnerQuiet
<1>6. ASSUME NEW kind \in {"delete", "export", "query", "insights", "keys", "deactivate"}, NEW about,
             NEW status, MessageType(Message(kind, about, status)), Send(kind, about, status)
      PROVE  /\ \A other \in {"login", "insights", "keys"} :
                    other # kind => UnderWay(other)' = UnderWay(other)
             /\ UnderWay(kind)' # {}
             /\ \A other : UnderWay(other) \subseteq UnderWay(other)'
  BY <1>6, SentEffect
<1>7. CASE SignOut
  <2>1. Logout(requests) /\ store' = store
    BY <1>7 DEF SignOut
  <2> QED BY <1>1, <2>1, SpinnerLogout, UnderWaySlots DEF SpinnerInv, NoSpinnerForever
<1>8. CASE Expire
  <2>1. session'.token # None /\ requests' = requests /\ view' = view /\ store' = store
    <3>1. session'.token = "expired"
      BY <1>1, <1>8 DEF Expire, SessionType
    <3>2. "expired" # None
      BY NoneAssumption DEF Tokens
    <3> QED BY <1>8, <3>1, <3>2 DEF Expire
  <2>2. \A kind : UnderWay(kind)' = UnderWay(kind)
    BY <2>1 DEF UnderWay
  <2> QED BY <1>1, <2>1, <2>2, SpinnerQuiet
<1>9. ASSUME NEW page \in PageNames, Open(page)
      PROVE  SpinnerInv'
  <2>1. Mount(page, Orphaned(requests)) /\ session' = session /\ store' = store
        /\ session.token # None
    BY <1>9 DEF Open, SpinnerInv, SignedInv
  <2> QED BY <1>2, <2>1, SpinnerMount DEF SpinnerInv, NoSpinnerForever
<1>10. ASSUME NEW page \in PageNames, Reload(page)
       PROVE  SpinnerInv'
  <2> DEFINE nothing == [r \in Requests |-> None]
  <2>1. Typed(nothing) /\ \A kind : Slots(nothing, kind) = {}
    BY DEF Typed, Slots
  <2>2. /\ Mount(page, nothing) /\ session' = session /\ ~store'.loading
        /\ page # "login" => session.token # None
    BY <1>10 DEF Reload, EmptyStore
  <2> HIDE DEF nothing
  <2> QED BY <2>1, <2>2, SpinnerMount
<1>11. ASSUME NEW key \in Keys \union {None}, Submit(key)
       PROVE  SpinnerInv'
  <2>1. PICK status \in LoginStatus(key) : Send("login", key, status)
    BY <1>11 DEF Submit
  <2>2. MessageType(Message("login", key, status))
    BY MessagesTyped DEF LoginStatus
  <2>3. PICK r \in Requests :
            /\ UnderWay("login")' = UnderWay("login") \union {r}
            /\ \A other : other # "login" => UnderWay(other)' = UnderWay(other)
    BY <2>1, <2>2, SentEffect
  <2>4. UnderWay("login") = {}
    BY <1>11 DEF Submit, SpinnerInv, SignedInv
  <2>5. /\ view'.page = "login" /\ view'.loading /\ view'.confirmKey = view.confirmKey
        /\ view'.deactivating = view.deactivating /\ view.page = "login"
        /\ session' = session /\ store' = store
    BY <1>1, <1>11 DEF Submit, Views
  <2>6. UnderWay(view.page)' = UnderWay("login")'
    BY <2>5 DEF UnderWay
  <2> QED BY <2>3, <2>4, <2>5, <2>6 DEF SpinnerInv, SignedInv, NoSpinnerForever
\* The form, the table, the list of keys and the dialog.
<1>12. ASSUME UNCHANGED <<requests, session>>, store'.loading => store.loading,
              view'.page = view.page, view'.loading = view.loading,
              view'.deactivating = view.deactivating,
              view'.confirmKey # None => view.page = "keys"
       PROVE  SpinnerInv'
  <2>1. \A kind : UnderWay(kind)' = UnderWay(kind)
    BY <1>12 DEF UnderWay
  <2>2. UnderWay(view.page)' = UnderWay(view.page)
    BY <1>12 DEF UnderWay
  <2> QED BY <1>12, <2>1, <2>2 DEF SpinnerInv, SignedInv, NoSpinnerForever
<1>13. ASSUME NEW form \in Forms, Edit(form)
       PROVE  SpinnerInv'
  <2>1. /\ view'.page = view.page /\ view'.loading = view.loading
        /\ view'.deactivating = view.deactivating /\ view'.confirmKey = view.confirmKey
    BY <1>1, <1>13 DEF Edit, Views
  <2> QED BY <1>12, <1>13, <2>1 DEF Edit, SpinnerInv
<1>14. CASE Clear
  <2>1. /\ view'.page = view.page /\ view'.loading = view.loading
        /\ view'.deactivating = view.deactivating /\ view'.confirmKey = view.confirmKey
    BY <1>1, <1>14 DEF Clear, Views
  <2>2. store'.loading = store.loading
    BY <1>14 DEF Clear, ResetStore, EmptyStore
  <2> QED BY <1>12, <1>14, <2>1, <2>2 DEF Clear, SpinnerInv
<1>15. CASE Cancel \/ \E key \in Keys : ConfirmDeactivate(key)
  <2>1. /\ view'.page = view.page /\ view'.loading = view.loading
        /\ view'.deactivating = view.deactivating
        /\ view'.confirmKey # None => view.page = "keys"
    BY <1>1, <1>15 DEF Cancel, ConfirmDeactivate, Views
  <2> QED BY <1>12, <1>15, <2>1 DEF Cancel, ConfirmDeactivate
<1>16. ASSUME NEW filter \in Filters, NEW page \in Nat, LoadPage(filter, page)
       PROVE  /\ \A other \in {"login", "insights", "keys"} : UnderWay(other)' = UnderWay(other)
              /\ UnderWay("query")' # {}
              /\ \A other : UnderWay(other) \subseteq UnderWay(other)'
  <2>1. filter # None /\ Answer(filter, page) \in Answers
    BY AnswerTyped, NoneAssumption
  <2>2. Send("query", Answer(filter, page), ApiKey)
    BY <1>16, <2>1 DEF LoadPage
  <2>3. MessageType(Message("query", Answer(filter, page), ApiKey))
    BY <2>1, MessagesTyped, StatusTyped
  <2> QED BY <1>6, <2>2, <2>3
<1>17. CASE Search
  <2>1. FilterOf(view.form) \in Filters
    BY <1>1, FilterTyped DEF Views
  <2>2. /\ \A other \in {"login", "insights", "keys"} : UnderWay(other)' = UnderWay(other)
        /\ UnderWay("query")' # {}
        /\ \A other : UnderWay(other) \subseteq UnderWay(other)'
    BY <1>16, <1>17, <2>1 DEF Search
  <2>3. /\ view'.page = view.page /\ view'.loading = view.loading
        /\ view'.deactivating = view.deactivating /\ view'.confirmKey = view.confirmKey
        /\ view.page = "query" /\ session' = session
    BY <1>1, <1>17 DEF Search, Views
  <2>4. ~view.loading /\ view.deactivating = None /\ view.confirmKey = None
    BY <2>3 DEF SpinnerInv
  <2> QED BY <2>2, <2>3, <2>4 DEF SpinnerInv, SignedInv, NoSpinnerForever
<1>18. ASSUME NEW page \in 1 .. Pages, GoToPage(page)
       PROVE  SpinnerInv'
  <2>1. page \in Nat
    BY PagesAssumption
  <2>2. CASE store.filter = None
    <3>1. requests' = requests /\ store'.loading = store.loading
      BY <1>1, <1>18, <2>2 DEF GoToPage, LoadPage, StoreType
    <3> QED BY <1>12, <1>18, <3>1 DEF GoToPage, SpinnerInv
  <2>3. CASE store.filter # None
    <3>1. store.filter \in Filters
      BY <1>1, <2>3 DEF StoreType
    <3>2. /\ \A other \in {"login", "insights", "keys"} : UnderWay(other)' = UnderWay(other)
          /\ UnderWay("query")' # {}
          /\ \A other : UnderWay(other) \subseteq UnderWay(other)'
      BY <1>16, <1>18, <2>1, <3>1 DEF GoToPage
    <3> QED BY <1>1, <1>18, <3>2, SpinnerQuiet DEF GoToPage
  <2> QED BY <2>2, <2>3
<1>19. CASE ConfirmDeleteSegment
  <2>1. PICK status \in {200, 401} : Send("delete", view.form.segment, status)
    BY <1>19 DEF ConfirmDeleteSegment
  <2>2. MessageType(Message("delete", view.form.segment, status))
    BY <1>1, <1>19, SegmentTyped, MessagesTyped DEF ConfirmDeleteSegment, Views
  <2>3. /\ \A other \in {"login", "insights", "keys"} : UnderWay(other)' = UnderWay(other)
        /\ \A other : UnderWay(other) \subseteq UnderWay(other)'
    BY <1>6, <2>1, <2>2
  <2> QED BY <1>1, <1>19, <2>3, SpinnerQuiet DEF ConfirmDeleteSegment
<1>20. ASSUME NEW kind \in {"insights", "keys"}, NEW about, view.page = kind,
              MessageType(Message(kind, about, Jwt)), Send(kind, about, Jwt),
              view'.page = view.page, view'.loading,
              view'.deactivating = view.deactivating, view'.confirmKey = view.confirmKey,
              UNCHANGED <<session, store>>
       PROVE  SpinnerInv'
  <2>1. /\ \A other \in {"login", "insights", "keys"} :
                other # kind => UnderWay(other)' = UnderWay(other)
        /\ UnderWay(kind)' # {}
        /\ \A other : UnderWay(other) \subseteq UnderWay(other)'
    BY <1>6, <1>20
  <2>2. UnderWay(view.page)' = UnderWay(kind)'
    BY <1>20 DEF UnderWay
  <2> QED BY <1>20, <2>1, <2>2 DEF SpinnerInv, SignedInv, NoSpinnerForever
<1>21. CASE LoadInsights \/ LoadKeys
  <2>1. MessageType(Message("insights", None, Jwt)) /\ MessageType(Message("keys", active, Jwt))
    BY <1>1, MessagesTyped, StatusTyped
  <2>2. /\ view'.page = view.page /\ view'.loading
        /\ view'.deactivating = view.deactivating /\ view'.confirmKey = view.confirmKey
    BY <1>1, <1>21 DEF LoadInsights, LoadKeys, Views
  <2> QED BY <1>20, <1>21, <2>1, <2>2 DEF LoadInsights, LoadKeys
<1>22. CASE Deactivate
  <2>1. view.confirmKey \in Keys /\ view.confirmKey # None
    BY <1>1, <1>22 DEF Deactivate, Views
  <2>2. MessageType(Message("deactivate", view.confirmKey, Jwt))
    BY <2>1, MessagesTyped, StatusTyped
  <2>3. /\ \A other \in {"login", "insights", "keys"} : UnderWay(other)' = UnderWay(other)
        /\ UnderWay("deactivate")' # {}
        /\ \A other : UnderWay(other) \subseteq UnderWay(other)'
    BY <1>6, <1>22, <2>2 DEF Deactivate
  <2>4. /\ view'.page = view.page /\ view'.loading = view.loading /\ view'.confirmKey = None
        /\ view.page = "keys" /\ session' = session /\ store' = store
    BY <1>1, <1>22, <2>1 DEF Deactivate, Views, SpinnerInv
  <2>5. UnderWay(view.page)' = UnderWay("keys")' /\ UnderWay(view.page) = UnderWay("keys")
    BY <2>4 DEF UnderWay
  <2> QED BY <2>3, <2>4, <2>5 DEF SpinnerInv, SignedInv, NoSpinnerForever
<1>23. ASSUME NEW key \in Keys, DownloadExport(key)
       PROVE  SpinnerInv'
  <2>1. PICK status \in {200, 401, 403} : Send("export", None, status)
    BY <1>23 DEF DownloadExport
  <2>2. MessageType(Message("export", None, status))
    BY MessagesTyped
  <2>3. /\ \A other \in {"login", "insights", "keys"} : UnderWay(other)' = UnderWay(other)
        /\ \A other : UnderWay(other) \subseteq UnderWay(other)'
    BY <1>6, <2>1, <2>2
  <2>4. session'.token = session.token
    BY <1>1, <1>23 DEF DownloadExport, SessionType
  <2> QED BY <1>1, <1>23, <2>3, <2>4, SpinnerQuiet DEF DownloadExport
<1>24. ASSUME NEW r \in Requests, LoginAnswer(r)
       PROVE  SpinnerInv'
  <2>1. r \in UnderWay("login") /\ UnderWay("login") = {r}
    BY <1>24 DEF LoginAnswer, SpinnerInv, SignedInv
  <2>2. /\ requests' = [requests EXCEPT ![r] = Message("insights", None, 200)]
        /\ Message("insights", None, 200) # None /\ Message("insights", None, 200).kind = "insights"
    <3>1. Message("insights", None, 200) \in Messages
      BY MessagesTyped DEF MessageType
    <3>2. requests' = [requests EXCEPT ![r] = Message("insights", None, 200)]
      BY <1>24 DEF LoginAnswer, Message
    <3> QED BY <3>1, <3>2, NoneAssumption DEF Message
  <2>3. /\ \A q \in Requests : q # r => requests'[q] = requests[q]
        /\ requests'[r] = Message("insights", None, 200)
    BY <1>1, <2>2 DEF Typed
  <2>4. /\ UnderWay("login")' = {} /\ UnderWay("insights")' # {}
        /\ UnderWay("query") \subseteq UnderWay("query")'
        /\ UnderWay("keys")' \subseteq UnderWay("keys")
    BY <2>1, <2>2, <2>3 DEF UnderWay
  <2>5. /\ view'.page = "insights" /\ view'.confirmKey = None /\ view'.deactivating = None
        /\ view' = [EmptyView("insights") EXCEPT !.loading = TRUE] /\ store' = store
    <3>1. EmptyView("insights") \in Views
      BY EmptyViewTyped DEF PageNames
    <3> QED BY <1>24, <3>1, EmptyViewShape DEF LoginAnswer, Views
  <2>6. session'.token # None
    <3>1. session'.token = "valid"
      BY <1>24 DEF LoginAnswer
    <3> QED BY <3>1, NoneAssumption DEF Tokens
  <2>7. UnderWay(view.page)' = UnderWay("insights")'
    BY <2>5 DEF UnderWay
  <2>8. UnderWay("keys")' = {}
    <3>1. view.page = "login"
      BY <2>1 DEF SpinnerInv, SignedInv
    <3> QED BY <2>4, <3>1 DEF SpinnerInv, SignedInv
  <2> QED BY <2>4, <2>5, <2>6, <2>7, <2>8 DEF SpinnerInv, SignedInv, NoSpinnerForever
<1>25. ASSUME NEW r \in Requests, LoginRejected(r) \/ LoginFails(r)
       PROVE  SpinnerInv'
  <2>1. r \in UnderWay("login") /\ requests' = Without(requests, r)
    BY <1>4, <1>25 DEF LoginRejected, LoginFails, Without
  <2>2. view.page = "login" /\ UnderWay("login") = {r}
    BY <2>1 DEF SpinnerInv, SignedInv
  <2>3. /\ UnderWay("login")' = {} /\ UnderWay("query")' = UnderWay("query")
        /\ UnderWay("insights")' = UnderWay("insights") /\ UnderWay("keys")' = UnderWay("keys")
    BY <2>1, <2>2, OverEffect
  <2>4. view' = [view EXCEPT !.loading = FALSE] /\ store' = store
    BY <1>25 DEF LoginRejected, LoginFails
  <2>5. /\ view'.page = "login" /\ ~view'.loading
        /\ view'.deactivating = view.deactivating /\ view'.confirmKey = view.confirmKey
    BY <1>1, <2>2, <2>4 DEF Views
  <2> QED BY <2>2, <2>3, <2>4, <2>5 DEF SpinnerInv, SignedInv, NoSpinnerForever
<1>26. ASSUME NEW r \in Requests, QueryAnswer(r) \/ QueryFails(r)
       PROVE  SpinnerInv'
  <2>1. r \in UnderWay("query") /\ requests' = Without(requests, r)
    BY <1>3, <1>4, <1>26 DEF QueryAnswer, QueryFails
  <2>2. \A other : other # "query" => UnderWay(other)' = UnderWay(other)
    BY <2>1, OverEffect
  <2>3. ~store'.loading /\ view' = view /\ session' = session
    BY <1>1, <1>26 DEF QueryAnswer, QueryFails, StoreType
  <2>4. /\ UnderWay(view.page)' = UnderWay(view.page) \/ ~view.loading
    <3>1. CASE view.page = "query"
      BY <3>1 DEF SpinnerInv
    <3>2. ASSUME NEW page \in {"login", "insights", "keys"}, view.page = page
          PROVE  UnderWay(view.page)' = UnderWay(view.page)
      <4>1. UnderWay(page)' = UnderWay(page)
        BY <2>2
      <4> QED BY <2>3, <3>2, <4>1 DEF UnderWay
    <3> QED BY <1>1, <3>1, <3>2 DEF PageNames
  <2> QED BY <2>2, <2>3, <2>4 DEF SpinnerInv, SignedInv, NoSpinnerForever
<1>27. ASSUME NEW r \in Requests, QueryRejected(r)
       PROVE  SpinnerInv'
  <2>1. ~store'.loading /\ Unauthorised(r) /\ r \notin UnderWay("login")
    BY <1>1, <1>27 DEF QueryRejected, StoreType, UnderWay
  <2> QED BY <2>1, SpinnerUnauthorised
<1>28. ASSUME NEW r \in Requests, DeleteDone(r)
       PROVE  SpinnerInv'
  <2>1. r \in UnderWay("delete") /\ requests' = Without(requests, r)
    BY <1>3, <1>28 DEF DeleteDone
  <2>2. \A other : other # "delete" => UnderWay(other)' = UnderWay(other)
    BY <2>1, OverEffect
  <2>3. /\ view'.page = view.page /\ view'.loading = view.loading
        /\ view'.deactivating = view.deactivating /\ view'.confirmKey = view.confirmKey
    BY <1>1, <1>28 DEF DeleteDone, Views
  <2>4. store'.loading = store.loading /\ session' = session
    BY <1>28 DEF DeleteDone, ResetStore, EmptyStore
  <2>5. UnderWay(view.page)' = UnderWay(view.page)
    <3>1. ASSUME NEW page \in {"login", "insights", "query", "keys"}, view.page = page
          PROVE  UnderWay(view.page)' = UnderWay(view.page)
      <4>1. UnderWay(page)' = UnderWay(page)
        BY <2>2
      <4> QED BY <2>3, <3>1, <4>1 DEF UnderWay
    <3> QED BY <1>1, <3>1 DEF PageNames
  <2> QED BY <2>2, <2>3, <2>4, <2>5 DEF SpinnerInv, SignedInv, NoSpinnerForever
<1>29. ASSUME NEW r \in Requests, ExportDone(r) \/ ExportForbidden(r) \/ RequestLost(r)
       PROVE  SpinnerInv'
  <2>1. \E kind \in {"delete", "export", "left"} :
            r \in UnderWay(kind) /\ requests' = Without(requests, r)
    BY <1>3, <1>4, <1>29 DEF ExportDone, ExportForbidden, RequestLost
  <2>2. session'.token = session.token
    BY <1>1, <1>29 DEF ExportDone, ExportForbidden, RequestLost, SessionType
  <2> QED BY <1>5, <1>29, <2>1, <2>2 DEF ExportDone, ExportForbidden, RequestLost
<1>30. ASSUME NEW r \in Requests, Rejected(r)
       PROVE  SpinnerInv'
  <2>1. /\ r \notin UnderWay("login") /\ r \notin UnderWay("query") /\ Unauthorised(r)
        /\ store' = store
    BY <1>30 DEF Rejected, UnderWay
  <2> QED BY <2>1, SpinnerUnauthorised DEF SpinnerInv, NoSpinnerForever
<1>31. ASSUME NEW r \in Requests, NEW kind \in {"insights", "keys"}, r \in UnderWay(kind),
              requests' = Without(requests, r), view'.page = view.page, ~view'.loading,
              view'.deactivating = view.deactivating, view'.confirmKey = view.confirmKey,
              UNCHANGED <<session, store>>
       PROVE  SpinnerInv'
  <2>1. \A other : other # kind => UnderWay(other)' = UnderWay(other)
    BY <1>31, OverEffect
  <2>2. /\ UnderWay("login")' = UnderWay("login") /\ UnderWay("query")' = UnderWay("query")
        /\ UnderWay("deactivate")' = UnderWay("deactivate")
    BY <2>1
  <2>3. view.page = kind
    BY <1>31 DEF SpinnerInv, SignedInv
  <2>4. /\ UnderWay("insights")' # {} => view.page = "insights"
        /\ UnderWay("keys")' # {} => view.page = "keys"
    BY <2>1, <2>3 DEF SpinnerInv, SignedInv
  <2> QED BY <1>31, <2>2, <2>3, <2>4 DEF SpinnerInv, SignedInv, NoSpinnerForever
<1>32. ASSUME NEW r \in Requests, InsightsAnswer(r) \/ InsightsFail(r) \/ KeysFail(r) \/ KeysAnswer(r)
       PROVE  SpinnerInv'
  <2>1. \E kind \in {"insights", "keys"} :
            r \in UnderWay(kind) /\ requests' = Without(requests, r)
    BY <1>3, <1>4, <1>32 DEF InsightsAnswer, InsightsFail, KeysFail, KeysAnswer
  <2>2. /\ view'.page = view.page /\ ~view'.loading
        /\ view'.deactivating = view.deactivating /\ view'.confirmKey = view.confirmKey
    BY <1>1, <1>32 DEF InsightsAnswer, InsightsFail, KeysFail, KeysAnswer, Views
  <2> QED BY <1>31, <1>32, <2>1, <2>2 DEF InsightsAnswer, InsightsFail, KeysFail, KeysAnswer
<1>33. ASSUME NEW r \in Requests, DeactivateDone(r) \/ DeactivateFails(r)
       PROVE  SpinnerInv'
  <2>1. r \in UnderWay("deactivate") /\ Settle(r)
    BY <1>33 DEF DeactivateDone, DeactivateFails
  <2>2. \A other : other # "deactivate" => UnderWay(other)' = UnderWay(other)
    BY <2>1, SettleEffect
  <2>3. /\ view'.page = view.page /\ view'.loading = view.loading
        /\ view'.deactivating = None /\ view'.confirmKey = view.confirmKey
        /\ UNCHANGED <<session, store>>
    BY <1>1, <1>33 DEF DeactivateDone, DeactivateFails, Views
  <2>4. UnderWay(view.page)' = UnderWay(view.page)
    <3>1. ASSUME NEW page \in {"login", "insights", "query", "keys"}, view.page = page
          PROVE  UnderWay(view.page)' = UnderWay(view.page)
      <4>1. UnderWay(page)' = UnderWay(page)
        BY <2>2
      <4> QED BY <2>3, <3>1, <4>1 DEF UnderWay
    <3> QED BY <1>1, <3>1 DEF PageNames
  <2> QED BY <2>2, <2>3, <2>4 DEF SpinnerInv, SignedInv, NoSpinnerForever
<1>34. {"insights", "query", "keys"} \subseteq PageNames /\ "login" \in PageNames
  BY DEF PageNames
<1> QED
  BY <1>7, <1>8, <1>9, <1>10, <1>11, <1>13, <1>14, <1>15, <1>17, <1>18, <1>19, <1>21, <1>22,
     <1>23, <1>24, <1>25, <1>26, <1>27, <1>28, <1>29, <1>30, <1>32, <1>33, <1>34 DEF Next

\* A signal that disables a button or shows a spinner is set only while a request is
\* under way that will reset it: no sequence of answers, failures, navigations and
\* sessions leaves a page that waits for nothing.
THEOREM NoPageWaitsForNothing == Spec => []NoSpinnerForever
<1>1. Init => SpinnerInv
  <2> SUFFICES ASSUME Init PROVE SpinnerInv
    OBVIOUS
  <2>1. /\ view.page = "login" /\ ~view.loading /\ view.confirmKey = None
        /\ view.deactivating = None /\ ~store.loading
    BY EmptyViewShape DEF Init, EmptyStore
  <2>2. \A kind : UnderWay(kind) = {}
    BY DEF Init, UnderWay
  <2> QED BY <2>1, <2>2 DEF SpinnerInv, SignedInv, NoSpinnerForever
<1>2. TypeInv /\ SpinnerInv /\ [Next]_vars => SpinnerInv'
  <2>1. SpinnerInv /\ UNCHANGED vars => SpinnerInv'
    BY DEF vars, SpinnerInv, SignedInv, NoSpinnerForever, UnderWay
  <2> QED BY <2>1, SpinnerStep
<1>3. SpinnerInv => NoSpinnerForever
  BY DEF SpinnerInv
<1> QED BY <1>1, <1>2, <1>3, TypeInvariant, PTL DEF Spec

(***************************************************************************)
(* The list of keys                                                        *)
(***************************************************************************)

\* The requests of a kind stay as they are.
Same(kind) == UnderWay(kind)' = UnderWay(kind)
              /\ \A r \in UnderWay(kind) : requests'[r] = requests[r]

LEMMA KeysQuiet ==
    ASSUME KeysInv, active' = active, Same("deactivate"),
           UnderWay("keys")' \subseteq UnderWay("keys"),
           \A r \in UnderWay("keys")' : requests'[r] = requests[r],
           view'.page = "keys" =>
                view.page = "keys" /\ view'.keys = view.keys /\ view'.stale = view.stale
    PROVE  KeysInv'
<1>1. \A key : Doing(key) => Doing(key)'
  BY DEF Doing, Same
<1>2. \A r \in UnderWay("deactivate")' :
            requests'[r].status = 200 => requests'[r].about \notin active'
  BY DEF KeysInv, Same
<1>3. \A r \in UnderWay("keys")' :
            /\ active' \subseteq requests'[r].about
            /\ ~requests'[r].old => \A key \in requests'[r].about \ active' : Doing(key)'
  BY <1>1 DEF KeysInv
<1>4. view'.page = "keys" => \A key \in Keys :
            /\ view'.keys[key] = FALSE => key \notin active'
            /\ view'.keys[key] = TRUE /\ key \notin active' => view'.stale \/ Doing(key)'
  BY <1>1 DEF KeysInv
<1> QED BY <1>2, <1>3, <1>4 DEF KeysInv

\* The page is left, and its reads with it.
LEMMA KeysLeft ==
    ASSUME KeysInv, active' = active, view'.page # "keys", UnderWay("keys")' = {},
           UnderWay("deactivate")' \subseteq UnderWay("deactivate"),
           \A r \in UnderWay("deactivate")' : requests'[r] = requests[r]
    PROVE  KeysInv'
BY DEF KeysInv

LEMMA KeysMount ==
    ASSUME TypeInv, NEW pending, Typed(pending), NEW page \in PageNames, active' = active,
           \A kind \in PageKinds : Slots(pending, kind) = {}, Mount(page, pending)
    PROVE  KeysInv'
<1>1. /\ view'.keys = [k \in Keys |-> None]
      /\ UnderWay("deactivate")' = {}
      /\ \A r \in UnderWay("keys")' : requests'[r] = Message("keys", active, Jwt)
  BY MountEffect DEF TypeInv
<1>2. \A r \in UnderWay("keys")' : requests'[r].about = active
  BY <1>1 DEF Message
<1>3. \A key \in Keys : view'.keys[key] # TRUE /\ view'.keys[key] # FALSE
  BY <1>1, NoneAssumption
<1> QED BY <1>1, <1>2, <1>3 DEF KeysInv

LEMMA KeysLogout ==
    ASSUME TypeInv, SpinnerInv, KeysInv, active' = active, NEW pending, Typed(pending),
           \A kind : Slots(pending, kind) \subseteq UnderWay(kind),
           \A kind : \A r \in Slots(pending, kind) : pending[r] = requests[r],
           \/ Logout(pending)
           \/ view.page = "login" /\ requests' = pending /\ view' = view
    PROVE  KeysInv'
<1>1. CASE view.page = "login"
  <2>1. view' = view /\ requests' = pending
    BY <1>1 DEF Logout
  <2>2. \A kind : UnderWay(kind)' = Slots(pending, kind)
    BY <2>1, UnderWaySlots DEF Slots
  <2>3. UnderWay("keys") = {}
    BY <1>1 DEF SpinnerInv, SignedInv
  <2> QED BY <1>1, <2>1, <2>2, <2>3, KeysLeft
<1>2. CASE view.page # "login"
  <2>1. view' = EmptyView("login") /\ requests' = Orphaned(pending)
    BY <1>2 DEF Logout
  <2>2. \A kind : UnderWay(kind)' = Slots(Orphaned(pending), kind)
    BY <2>1, UnderWaySlots DEF Slots
  <2>3. UnderWay("keys")' = {} /\ UnderWay("deactivate")' = {}
    BY <2>2, OrphanEffect DEF PageKinds
  <2> QED BY <2>1, <2>3, EmptyViewShape, KeysLeft
<1> QED BY <1>1, <1>2

LEMMA KeysUnauthorised ==
    ASSUME TypeInv, SpinnerInv, KeysInv, active' = active, NEW r, Unauthorised(r)
    PROVE  KeysInv'
<1> DEFINE pending == Without(requests, r)
<1>1. Typed(pending) /\ Typed(requests)
  BY TypedWithout DEF TypeInv, RequestsType
<1>2. /\ \A kind : Slots(pending, kind) = UnderWay(kind) \ {r}
      /\ \A kind : \A q \in Slots(pending, kind) : pending[q] = requests[q]
  <2>1. \A kind : Slots(pending, kind) = UnderWay(kind) \ {r}
    BY <1>1, WithoutEffect, UnderWaySlots
  <2>2. \A kind : \A q \in Slots(pending, kind) : q \in Requests /\ q # r
    BY <2>1 DEF UnderWay
  <2>3. \A q \in Requests : q # r => pending[q] = requests[q]
    BY <1>1, WithoutEffect
  <2> HIDE DEF pending
  <2> QED BY <2>1, <2>2, <2>3
<1>3. \/ Logout(pending)
      \/ view.page = "login" /\ requests' = pending /\ view' = view
  BY DEF Unauthorised, Without, SpinnerInv, SignedInv
<1> HIDE DEF pending
<1> QED BY <1>1, <1>2, <1>3, KeysLogout

\* A deactivation is over: what waits for another one still does.
LEMMA KeysSettle ==
    ASSUME TypeInv, KeysInv, active' = active, NEW r \in UnderWay("deactivate"), Settle(r)
    PROVE  /\ \A key : Doing(key) /\ key # requests[r].about => Doing(key)'
           /\ \A q \in UnderWay("deactivate")' :
                requests'[q].status = 200 => requests'[q].about \notin active'
           /\ \A q \in UnderWay("keys")' :
                /\ active' \subseteq requests'[q].about
                /\ ~requests'[q].old => \A key \in requests'[q].about \ active' : Doing(key)'
<1>1. /\ UnderWay("deactivate")' = UnderWay("deactivate") \ {r}
      /\ UnderWay("keys")' = UnderWay("keys")
      /\ \A q \in UnderWay("keys") :
            /\ requests'[q].about = requests[q].about
            /\ requests'[q].old = (requests[q].old \/ requests[r].about \in requests[q].about)
  BY SettleEffect
<1>2. \A q \in UnderWay("deactivate")' : requests'[q] = requests[q]
  <2>1. \A q \in UnderWay("deactivate") : q \in Requests /\ q \notin UnderWay("keys")
    BY DEF UnderWay
  <2> QED BY <1>1, <2>1, SettleEffect
<1>3. \A key : Doing(key) /\ key # requests[r].about => Doing(key)'
  BY <1>1, <1>2 DEF Doing
<1>4. ASSUME NEW q \in UnderWay("keys")', ~requests'[q].old,
             NEW key \in requests'[q].about \ active'
      PROVE  Doing(key)'
  <2>1. ~requests[q].old /\ key \in requests[q].about \ active /\ key # requests[r].about
    BY <1>1, <1>4
  <2> QED BY <1>1, <1>3, <2>1 DEF KeysInv
<1> QED BY <1>1, <1>2, <1>3, <1>4 DEF KeysInv

LEMMA KeysStep ==
    ASSUME TypeInv, SpinnerInv, KeysInv, Next
    PROVE  KeysInv'
<1>1. /\ view.page \in PageNames /\ view \in Views /\ Typed(requests) /\ active \subseteq Keys
      /\ RequestsType /\ SessionType /\ StoreType
  BY DEF TypeInv, ViewType, Views, RequestsType
<1>2. ASSUME NEW kind \in {"login", "insights", "query", "delete", "export", "left"}, NEW about,
             NEW status, MessageType(Message(kind, about, status)), Send(kind, about, status)
      PROVE  Same("deactivate") /\ Same("keys")
  <2>1. PICK r \in Requests :
            /\ r \notin UnderWay(kind) /\ UnderWay(kind)' = UnderWay(kind) \union {r}
            /\ \A q \in Requests : q # r => requests'[q] = requests[q]
            /\ \A other : other # kind => UnderWay(other)' = UnderWay(other)
            /\ requests'[r] = Message(kind, about, status)
    BY <1>2, SentEffect
  <2>2. requests'[r].kind = kind
    BY <2>1 DEF Message
  <2>3. \A other \in {"deactivate", "keys"} :
            UnderWay(other)' = UnderWay(other) /\ r \notin UnderWay(other)'
    BY <2>1, <2>2, UnderWaySlots
  <2> QED BY <2>1, <2>3 DEF Same, UnderWay
<1>3. ASSUME NEW kind \in Kinds \ {"deactivate"}, NEW r \in UnderWay(kind),
             requests' = Without(requests, r)
      PROVE  /\ Same("deactivate") /\ UnderWay("keys")' \subseteq UnderWay("keys")
             /\ \A q \in UnderWay("keys")' : requests'[q] = requests[q]
  <2>1. /\ \A other : other # kind => UnderWay(other)' = UnderWay(other)
        /\ UnderWay(kind)' = UnderWay(kind) \ {r}
        /\ \A q \in Requests : q # r => requests'[q] = requests[q]
    BY <1>3, OverEffect
  <2>2. \A q \in UnderWay("deactivate") : q \in Requests /\ q # r
    BY <1>3 DEF UnderWay
  <2>3. \A q \in UnderWay("keys")' : q \in Requests /\ q # r /\ q \in UnderWay("keys")
    <3>1. CASE kind = "keys"
      BY <2>1, <3>1 DEF UnderWay
    <3>2. CASE kind # "keys"
      BY <1>3, <2>1, <3>2 DEF UnderWay
    <3> QED BY <3>1, <3>2
  <2> QED BY <1>3, <2>1, <2>2, <2>3 DEF Same
<1>4. ASSUME UNCHANGED requests
      PROVE  Same("deactivate") /\ Same("keys")
  BY <1>4 DEF Same, UnderWay
<1>5. ASSUME active' = active, Same("deactivate"), Same("keys"),
             view'.page = "keys" =>
                view.page = "keys" /\ view'.keys = view.keys /\ view'.stale = view.stale
      PROVE  KeysInv'
  BY <1>5, KeysQuiet DEF Same
<1>6. CASE SignOut
  <2>1. Logout(requests) /\ active' = active
    BY <1>6 DEF SignOut, server
  <2> QED BY <1>1, <2>1, KeysLogout, UnderWaySlots
<1>7. CASE Expire
  BY <1>4, <1>5, <1>7 DEF Expire, server
<1>8. ASSUME NEW page \in PageNames, Open(page) \/ Reload(page)
      PROVE  KeysInv'
  <2> DEFINE nothing == [r \in Requests |-> None]
  <2>1. Typed(nothing) /\ \A kind : Slots(nothing, kind) = {}
    BY DEF Typed, Slots
  <2>2. Typed(Orphaned(requests)) /\ \A kind \in PageKinds : Slots(Orphaned(requests), kind) = {}
    BY <1>1, TypedOrphaned, OrphanEffect
  <2>3. active' = active
    BY <1>8 DEF Open, Reload, server
  <2>4. Mount(page, Orphaned(requests)) \/ Mount(page, nothing)
    BY <1>8 DEF Open, Reload
  <2> HIDE DEF nothing
  <2> QED BY <2>1, <2>2, <2>3, <2>4, KeysMount
<1>9. ASSUME NEW key \in Keys \union {None}, Submit(key)
      PROVE  KeysInv'
  <2>1. PICK status \in LoginStatus(key) : Send("login", key, status)
    BY <1>9 DEF Submit
  <2>2. MessageType(Message("login", key, status))
    BY MessagesTyped DEF LoginStatus
  <2>3. view'.page # "keys" /\ active' = active
    BY <1>1, <1>9 DEF Submit, Views, server
  <2> QED BY <1>2, <1>5, <2>1, <2>2, <2>3
<1>10. CASE (\E form \in Forms : Edit(form)) \/ Clear
  <2>1. view'.page # "keys" /\ active' = active /\ requests' = requests
    BY <1>1, <1>10 DEF Edit, Clear, Views, server
  <2> QED BY <1>4, <1>5, <2>1
<1>11. CASE Cancel \/ \E key \in Keys : ConfirmDeactivate(key)
  <2>1. /\ view'.keys = view.keys /\ view'.stale = view.stale /\ view'.page = view.page
        /\ active' = active /\ requests' = requests
    BY <1>1, <1>11 DEF Cancel, ConfirmDeactivate, Views, server
  <2> QED BY <1>4, <1>5, <2>1
<1>12. ASSUME NEW filter \in Filters \union {None}, NEW page \in Nat, LoadPage(filter, page)
       PROVE  Same("deactivate") /\ Same("keys")
  <2>1. CASE filter = None
    BY <1>4, <1>12, <2>1 DEF LoadPage
  <2>2. CASE filter # None
    <3>1. Answer(filter, page) \in Answers
      BY <2>2, AnswerTyped
    <3>2. Send("query", Answer(filter, page), ApiKey)
      BY <1>12, <2>2 DEF LoadPage
    <3>3. MessageType(Message("query", Answer(filter, page), ApiKey))
      BY <3>1, MessagesTyped, StatusTyped
    <3> QED BY <1>2, <3>2, <3>3
  <2> QED BY <2>1, <2>2
<1>13. CASE Search
  <2>1. FilterOf(view.form) \in Filters
    BY <1>1, FilterTyped DEF Views
  <2>2. Same("deactivate") /\ Same("keys")
    BY <1>12, <1>13, <2>1 DEF Search
  <2>3. view'.page # "keys" /\ active' = active
    BY <1>1, <1>13 DEF Search, Views, server
  <2> QED BY <1>5, <2>2, <2>3
<1>14. ASSUME NEW page \in 1 .. Pages, GoToPage(page)
       PROVE  KeysInv'
  <2>1. page \in Nat /\ store.filter \in Filters \union {None}
    BY <1>1, PagesAssumption DEF StoreType
  <2>2. Same("deactivate") /\ Same("keys")
    BY <1>12, <1>14, <2>1 DEF GoToPage
  <2> QED BY <1>5, <1>14, <2>2 DEF GoToPage, server
<1>15. CASE ConfirmDeleteSegment
  <2>1. PICK status \in {200, 401} : Send("delete", view.form.segment, status)
    BY <1>15 DEF ConfirmDeleteSegment
  <2>2. MessageType(Message("delete", view.form.segment, status))
    BY <1>1, <1>15, SegmentTyped, MessagesTyped DEF ConfirmDeleteSegment, Views
  <2> QED BY <1>2, <1>5, <1>15, <2>1, <2>2 DEF ConfirmDeleteSegment
<1>16. ASSUME NEW key \in Keys, DownloadExport(key)
       PROVE  KeysInv'
  <2>1. PICK status \in {200, 401, 403} : Send("export", None, status)
    BY <1>16 DEF DownloadExport
  <2>2. MessageType(Message("export", None, status))
    BY MessagesTyped
  <2> QED BY <1>2, <1>5, <1>16, <2>1, <2>2 DEF DownloadExport, server
<1>17. CASE LoadInsights
  <2>1. MessageType(Message("insights", None, Jwt))
    BY MessagesTyped, StatusTyped
  <2>2. view'.page # "keys" /\ active' = active
    BY <1>1, <1>17 DEF LoadInsights, Views, server
  <2> QED BY <1>2, <1>5, <1>17, <2>1, <2>2 DEF LoadInsights
<1>18. CASE LoadKeys
  <2>1. MessageType(Message("keys", active, Jwt)) /\ Send("keys", active, Jwt)
    BY <1>1, <1>18, MessagesTyped, StatusTyped DEF LoadKeys
  <2>2. PICK r \in Requests :
            /\ r \notin UnderWay("keys") /\ UnderWay("keys")' = UnderWay("keys") \union {r}
            /\ requests'[r] = Message("keys", active, Jwt)
            /\ \A q \in Requests : q # r => requests'[q] = requests[q]
            /\ \A other : other # "keys" => UnderWay(other)' = UnderWay(other)
    BY <2>1, SentEffect
  <2>3. requests'[r].about = active /\ requests'[r].kind = "keys"
    BY <2>2 DEF Message
  <2>4. UnderWay("deactivate")' = UnderWay("deactivate") /\ r \notin UnderWay("deactivate")'
    BY <2>2, <2>3, UnderWaySlots
  <2>5. \A q \in UnderWay("deactivate") : requests'[q] = requests[q]
    BY <2>2, <2>4 DEF UnderWay
  <2>6. \A q \in UnderWay("keys") : requests'[q] = requests[q]
    BY <2>2 DEF UnderWay
  <2>7. \A key : Doing(key) => Doing(key)'
    BY <2>4, <2>5 DEF Doing
  <2>8. /\ view'.keys = view.keys /\ view'.stale = view.stale /\ view'.page = view.page
        /\ active' = active
    BY <1>1, <1>18 DEF LoadKeys, Views, server
  <2>9. \A q \in UnderWay("keys")' :
            /\ active' \subseteq requests'[q].about
            /\ ~requests'[q].old => \A key \in requests'[q].about \ active' : Doing(key)'
    BY <2>2, <2>3, <2>6, <2>7, <2>8 DEF KeysInv
  <2> QED BY <2>4, <2>5, <2>7, <2>8, <2>9 DEF KeysInv
<1>19. CASE Deactivate
  <2>1. PICK key \in Keys : key = view.confirmKey
    BY <1>1, <1>19 DEF Deactivate, Views
  <2>2. MessageType(Message("deactivate", key, Jwt)) /\ Send("deactivate", key, Jwt)
    BY <1>19, <2>1, MessagesTyped, StatusTyped DEF Deactivate
  <2>3. PICK r \in Requests :
            /\ r \notin UnderWay("deactivate")
            /\ UnderWay("deactivate")' = UnderWay("deactivate") \union {r}
            /\ requests'[r] = Message("deactivate", key, Jwt)
            /\ \A q \in Requests : q # r => requests'[q] = requests[q]
            /\ \A other : other # "deactivate" => UnderWay(other)' = UnderWay(other)
    BY <2>2, SentEffect
  <2>4. /\ requests'[r].about = key /\ requests'[r].status = Jwt
        /\ requests'[r].kind = "deactivate"
    BY <2>3 DEF Message
  <2>5. UnderWay("keys")' = UnderWay("keys") /\ r \notin UnderWay("keys")'
    BY <2>3, <2>4, UnderWaySlots
  <2>6. /\ \A q \in UnderWay("keys") : requests'[q] = requests[q]
        /\ \A q \in UnderWay("deactivate") : requests'[q] = requests[q]
    BY <2>3, <2>5 DEF UnderWay
  <2>7. active' = IF Jwt = 200 THEN active \ {key} ELSE active
    BY <1>19, <2>1 DEF Deactivate
  <2>8. /\ view'.keys = view.keys /\ view'.stale = view.stale /\ view'.page = view.page
    BY <1>1, <1>19 DEF Deactivate, Views
  <2>9. /\ \A other : Doing(other) => Doing(other)'
        /\ Jwt = 200 => Doing(key)'
    BY <2>3, <2>4, <2>6 DEF Doing
  <2>10. \A other : other \notin active' => other \notin active \/ Doing(other)'
    BY <2>7, <2>9
  <2>11. \A q \in UnderWay("deactivate")' :
            requests'[q].status = 200 => requests'[q].about \notin active'
    BY <2>3, <2>4, <2>6, <2>7 DEF KeysInv
  <2>12. \A q \in UnderWay("keys")' :
            /\ active' \subseteq requests'[q].about
            /\ ~requests'[q].old => \A other \in requests'[q].about \ active' : Doing(other)'
    BY <2>5, <2>6, <2>7, <2>9, <2>10 DEF KeysInv
  <2>13. view'.page = "keys" => \A other \in Keys :
            /\ view'.keys[other] = FALSE => other \notin active'
            /\ view'.keys[other] = TRUE /\ other \notin active' => view'.stale \/ Doing(other)'
    BY <2>7, <2>8, <2>9, <2>10 DEF KeysInv
  <2> QED BY <2>11, <2>12, <2>13 DEF KeysInv
<1>20. ASSUME NEW r \in Requests, LoginAnswer(r)
       PROVE  KeysInv'
  <2>1. r \in UnderWay("login") /\ requests' = [requests EXCEPT ![r] = Message("insights", None, 200)]
    BY <1>20 DEF LoginAnswer, Message
  <2>2. UnderWay("keys") = {}
    BY <2>1 DEF SpinnerInv, SignedInv
  <2>3. requests'[r].kind = "insights" /\ \A q \in Requests : q # r => requests'[q] = requests[q]
    BY <1>1, <2>1 DEF Typed, Message
  <2>4. /\ UnderWay("keys")' = {} /\ UnderWay("deactivate")' \subseteq UnderWay("deactivate")
        /\ \A q \in UnderWay("deactivate")' : requests'[q] = requests[q]
    BY <2>2, <2>3 DEF UnderWay
  <2>5. view'.page = "insights" /\ active' = active
    <3>1. EmptyView("insights") \in Views
      BY EmptyViewTyped DEF PageNames
    <3> QED BY <1>20, <3>1, EmptyViewShape DEF LoginAnswer, Views, server
  <2> QED BY <2>4, <2>5, KeysLeft
<1>21. ASSUME NEW r, NEW kind, NEW status, Answered(r, kind, status)
       PROVE  r \in UnderWay(kind) /\ requests' = Without(requests, r)
  BY <1>21 DEF Answered, Without
<1>22. ASSUME NEW r, NEW kind, Fails(r, kind)
       PROVE  r \in UnderWay(kind) /\ requests' = Without(requests, r)
  BY <1>22 DEF Fails, Without
<1>23. ASSUME NEW r \in Requests,
              \/ LoginRejected(r) \/ LoginFails(r) \/ QueryAnswer(r) \/ QueryFails(r)
              \/ DeleteDone(r) \/ ExportDone(r) \/ ExportForbidden(r) \/ RequestLost(r)
              \/ InsightsAnswer(r) \/ InsightsFail(r) \/ KeysFail(r)
       PROVE  KeysInv'
  <2>1. \E kind \in Kinds \ {"deactivate"} :
            r \in UnderWay(kind) /\ requests' = Without(requests, r)
    <3>1. {"login", "query", "delete", "export", "insights", "keys", "left"} =
                Kinds \ {"deactivate"}
      BY DEF Kinds
    <3>2. CASE LoginRejected(r) \/ LoginFails(r)
      BY <1>22, <3>1, <3>2 DEF LoginRejected, LoginFails, Without
    <3>3. CASE QueryAnswer(r) \/ QueryFails(r)
      BY <1>21, <1>22, <3>1, <3>3 DEF QueryAnswer, QueryFails
    <3>4. CASE DeleteDone(r) \/ ExportDone(r) \/ ExportForbidden(r) \/ RequestLost(r)
      BY <1>21, <1>22, <3>1, <3>4 DEF DeleteDone, ExportDone, ExportForbidden, RequestLost
    <3>5. CASE InsightsAnswer(r) \/ InsightsFail(r) \/ KeysFail(r)
      BY <1>21, <1>22, <3>1, <3>5 DEF InsightsAnswer, InsightsFail, KeysFail
    <3> QED BY <1>23, <3>2, <3>3, <3>4, <3>5
  <2>2. active' = active
    BY <1>23 DEF LoginRejected, LoginFails, QueryAnswer, QueryFails, DeleteDone, ExportDone,
       ExportForbidden, RequestLost, InsightsAnswer, InsightsFail, KeysFail, server
  <2>3. view'.page = view.page /\ view'.keys = view.keys /\ view'.stale = view.stale
    <3>1. CASE LoginRejected(r) \/ LoginFails(r)
      <4>1. view' = [view EXCEPT !.loading = FALSE]
        BY <3>1 DEF LoginRejected, LoginFails
      <4> QED BY <1>1, <4>1 DEF Views
    <3>2. CASE \/ QueryAnswer(r) \/ QueryFails(r) \/ ExportDone(r) \/ ExportForbidden(r)
               \/ RequestLost(r)
      BY <3>2 DEF QueryAnswer, QueryFails, ExportDone, ExportForbidden, RequestLost
    <3>3. CASE DeleteDone(r)
      BY <1>1, <3>3 DEF DeleteDone, Views
    <3>4. CASE InsightsAnswer(r) \/ InsightsFail(r) \/ KeysFail(r)
      BY <1>1, <3>4 DEF InsightsAnswer, InsightsFail, KeysFail, Views
    <3> QED BY <1>23, <3>1, <3>2, <3>3, <3>4
  <2> QED BY <1>3, <2>1, <2>2, <2>3, KeysQuiet
<1>24. ASSUME NEW r \in Requests, QueryRejected(r) \/ Rejected(r)
       PROVE  KeysInv'
  <2>1. Unauthorised(r) /\ active' = active
    BY <1>24 DEF QueryRejected, Rejected, server
  <2> QED BY <2>1, KeysUnauthorised
<1>25. ASSUME NEW r \in Requests, KeysAnswer(r)
       PROVE  KeysInv'
  <2>1. r \in UnderWay("keys") /\ requests' = Without(requests, r)
    BY <1>21, <1>25 DEF KeysAnswer
  <2>2. /\ Same("deactivate") /\ UnderWay("keys")' \subseteq UnderWay("keys")
        /\ \A q \in UnderWay("keys")' : requests'[q] = requests[q]
    BY <1>3, <2>1 DEF Kinds
  <2>3. /\ view'.keys = [k \in Keys |-> k \in requests[r].about]
        /\ view'.stale = requests[r].old /\ active' = active
    BY <1>1, <1>25 DEF KeysAnswer, Views, server
  <2>4. \A key : Doing(key) => Doing(key)'
    BY <2>2 DEF Doing, Same
  <2>5. ASSUME NEW key \in Keys
        PROVE  /\ view'.keys[key] = FALSE => key \notin active'
               /\ view'.keys[key] = TRUE /\ key \notin active' => view'.stale \/ Doing(key)'
    <3>1. view'.keys[key] = (key \in requests[r].about)
      BY <2>3
    <3>2. /\ active \subseteq requests[r].about
          /\ ~requests[r].old => \A other \in requests[r].about \ active : Doing(other)
      BY <2>1 DEF KeysInv
    <3> QED BY <2>3, <2>4, <3>1, <3>2
  <2>6. \A q \in UnderWay("deactivate")' :
            requests'[q].status = 200 => requests'[q].about \notin active'
    BY <2>2, <2>3 DEF KeysInv, Same
  <2>7. \A q \in UnderWay("keys")' :
            /\ active' \subseteq requests'[q].about
            /\ ~requests'[q].old => \A key \in requests'[q].about \ active' : Doing(key)'
    BY <2>2, <2>3, <2>4 DEF KeysInv
  <2> QED BY <2>5, <2>6, <2>7 DEF KeysInv
<1>26. ASSUME NEW r \in Requests, DeactivateDone(r)
       PROVE  KeysInv'
  <2>1. r \in UnderWay("deactivate") /\ Settle(r) /\ active' = active /\ requests[r].status = 200
    BY <1>26 DEF DeactivateDone, server
  <2>2. requests[r].about \notin active
    BY <2>1 DEF KeysInv
  <2>3. /\ view'.keys = [view.keys EXCEPT ![requests[r].about] = FALSE]
        /\ view'.stale = view.stale /\ view'.page = view.page
    <3> DEFINE listed == [view.keys EXCEPT ![requests[r].about] = FALSE]
    <3>1. view' = [view EXCEPT !.keys = listed, !.deactivating = None]
      BY <1>26 DEF DeactivateDone
    <3> HIDE DEF listed
    <3>2. view'.keys = listed /\ view'.stale = view.stale /\ view'.page = view.page
      BY <1>1, <3>1 DEF Views
    <3> QED BY <3>2 DEF listed
  <2>4. \A key \in Keys : view'.keys[key] = IF key = requests[r].about THEN FALSE ELSE view.keys[key]
    BY <1>1, <2>3 DEF Views
  <2>5. /\ \A key : Doing(key) /\ key # requests[r].about => Doing(key)'
        /\ \A q \in UnderWay("deactivate")' :
                requests'[q].status = 200 => requests'[q].about \notin active'
        /\ \A q \in UnderWay("keys")' :
                /\ active' \subseteq requests'[q].about
                /\ ~requests'[q].old => \A key \in requests'[q].about \ active' : Doing(key)'
    BY <2>1, KeysSettle
  <2>6. view'.page = "keys" => \A key \in Keys :
            /\ view'.keys[key] = FALSE => key \notin active'
            /\ view'.keys[key] = TRUE /\ key \notin active' => view'.stale \/ Doing(key)'
    BY <2>1, <2>2, <2>3, <2>4, <2>5 DEF KeysInv
  <2> QED BY <2>5, <2>6 DEF KeysInv
<1>27. ASSUME NEW r \in Requests, DeactivateFails(r)
       PROVE  KeysInv'
  <2>1. r \in UnderWay("deactivate") /\ Settle(r) /\ active' = active
    BY <1>27 DEF DeactivateFails, server
  <2>2. view'.keys = view.keys /\ view'.stale = TRUE /\ view'.page = view.page
    BY <1>1, <1>27 DEF DeactivateFails, Views
  <2>3. view'.page = "keys" => \A key \in Keys :
            /\ view'.keys[key] = FALSE => key \notin active'
            /\ view'.keys[key] = TRUE /\ key \notin active' => view'.stale \/ Doing(key)'
    BY <2>1, <2>2 DEF KeysInv
  <2>4. /\ \A q \in UnderWay("deactivate")' :
                requests'[q].status = 200 => requests'[q].about \notin active'
        /\ \A q \in UnderWay("keys")' :
                /\ active' \subseteq requests'[q].about
                /\ ~requests'[q].old => \A key \in requests'[q].about \ active' : Doing(key)'
    BY <2>1, KeysSettle
  <2> QED BY <2>3, <2>4 DEF KeysInv
<1>28. {"insights", "query", "keys"} \subseteq PageNames /\ "login" \in PageNames
  BY DEF PageNames
<1> QED
  BY <1>6, <1>7, <1>8, <1>9, <1>10, <1>11, <1>13, <1>14, <1>15, <1>16, <1>17, <1>18, <1>19,
     <1>20, <1>23, <1>24, <1>25, <1>26, <1>27, <1>28 DEF Next

\* A key that is listed inactive is inactive, and when nothing is under way every key
\* is listed as it is, however lists and deactivations overtake each other.
THEOREM KeysTold == Spec => []KeysShownAsTheyAre
<1>1. Init => SpinnerInv /\ KeysInv
  <2> SUFFICES ASSUME Init PROVE SpinnerInv /\ KeysInv
    OBVIOUS
  <2>1. /\ view.page = "login" /\ ~view.loading /\ view.confirmKey = None
        /\ view.deactivating = None /\ ~store.loading
    BY EmptyViewShape DEF Init, EmptyStore
  <2>2. \A kind : UnderWay(kind) = {}
    BY DEF Init, UnderWay
  <2> QED BY <2>1, <2>2 DEF SpinnerInv, SignedInv, NoSpinnerForever, KeysInv
<1>2. TypeInv /\ SpinnerInv /\ KeysInv /\ [Next]_vars => SpinnerInv' /\ KeysInv'
  <2>1. SpinnerInv /\ UNCHANGED vars => SpinnerInv'
    BY DEF vars, SpinnerInv, SignedInv, NoSpinnerForever, UnderWay
  <2>2. KeysInv /\ UNCHANGED vars => KeysInv'
    BY DEF vars, server, KeysInv, Doing, UnderWay
  <2> QED BY <2>1, <2>2, SpinnerStep, KeysStep
<1>3. TypeInv /\ KeysInv => KeysShownAsTheyAre
  <2> SUFFICES ASSUME TypeInv, KeysInv, view.page = "keys"
               PROVE  KeysShownAsTheyAre
    BY DEF KeysShownAsTheyAre
  <2>1. \A k \in Keys : view.keys[k] \in {TRUE, FALSE, None}
    BY DEF TypeInv, ViewType, Views
  <2>2. UnderWay("keys") \union UnderWay("deactivate") = {} => \A key : ~Doing(key)
    BY DEF Doing
  <2>3. \A k \in Keys : view.keys[k] = FALSE => k \notin active
    BY DEF KeysInv
  <2>4. ASSUME ~view.stale, UnderWay("keys") \union UnderWay("deactivate") = {}, NEW k \in Keys
        PROVE  view.keys[k] \in {None, (k \in active)}
    <3>1. CASE view.keys[k] = None
      BY <3>1
    <3>2. CASE view.keys[k] = FALSE
      <4>1. (k \in active) = FALSE
        BY <2>3, <3>2
      <4> QED BY <3>2, <4>1, Zenon
    <3>3. CASE view.keys[k] = TRUE
      <4>1. (k \in active) = TRUE
        BY <2>2, <2>4, <3>3 DEF KeysInv
      <4> QED BY <3>3, <4>1, Zenon
    <3> QED BY <2>1, <3>1, <3>2, <3>3
  <2> QED BY <2>3, <2>4 DEF KeysShownAsTheyAre
<1> QED BY <1>1, <1>2, <1>3, TypeInvariant, PTL DEF Spec

(***************************************************************************)
(* The table of results                                                    *)
(***************************************************************************)

\* A request of another kind is sent, or is over.
LEMMA OtherSent ==
    ASSUME TypeInv, NEW kind, NEW about, NEW status, NEW other, other # kind,
           MessageType(Message(kind, about, status)), Send(kind, about, status)
    PROVE  Same(other)
<1>1. PICK r \in Requests :
            /\ requests'[r] = Message(kind, about, status)
            /\ \A q \in Requests : q # r => requests'[q] = requests[q]
            /\ \A some : some # kind => UnderWay(some)' = UnderWay(some)
  BY SentEffect
<1>2. requests'[r].kind = kind
  BY <1>1 DEF Message
<1>3. UnderWay(other)' = UnderWay(other) /\ r \notin UnderWay(other)'
  BY <1>1, <1>2, UnderWaySlots
<1> QED BY <1>1, <1>3 DEF Same, UnderWay

LEMMA OtherOver ==
    ASSUME TypeInv, NEW kind, NEW r \in UnderWay(kind), NEW other, other # kind,
           requests' = Without(requests, r)
    PROVE  Same(other)
<1>1. UnderWay(other)' = UnderWay(other) /\ \A q \in Requests : q # r => requests'[q] = requests[q]
  BY OverEffect
<1>2. \A q \in UnderWay(other) : q \in Requests /\ q # r
  BY DEF UnderWay
<1> QED BY <1>1, <1>2 DEF Same

\* A query goes on when its user is signed out.
LEMMA QueriesOutlive ==
    ASSUME NEW pending, Typed(pending), Logout(pending)
    PROVE  /\ UnderWay("query")' = Slots(pending, "query")
           /\ \A r \in Slots(pending, "query") : requests'[r] = pending[r]
<1>1. CASE requests' = pending
  BY <1>1, UnderWaySlots DEF Slots
<1>2. CASE requests' = Orphaned(pending)
  <2>1. UnderWay("query")' = Slots(Orphaned(pending), "query")
    BY <1>2, UnderWaySlots DEF Slots
  <2> QED BY <1>2, <2>1, OrphanEffect DEF StoreKinds
<1> QED BY <1>1, <1>2 DEF Logout

LEMMA UnauthorisedQueries ==
    ASSUME TypeInv, NEW r, Unauthorised(r)
    PROVE  /\ UnderWay("query")' = UnderWay("query") \ {r}
           /\ \A q \in UnderWay("query") \ {r} : requests'[q] = requests[q]
<1> DEFINE pending == Without(requests, r)
<1>1. Typed(pending) /\ Typed(requests)
  BY TypedWithout DEF TypeInv, RequestsType
<1>2. /\ Slots(pending, "query") = UnderWay("query") \ {r}
      /\ \A q \in Requests : q # r => pending[q] = requests[q]
  BY <1>1, WithoutEffect, UnderWaySlots
<1>3. requests' = pending \/ Logout(pending)
  BY DEF Unauthorised, Without
<1> HIDE DEF pending
<1>4. /\ UnderWay("query")' = Slots(pending, "query")
      /\ \A q \in Slots(pending, "query") : requests'[q] = pending[q]
  <2>1. CASE requests' = pending
    BY <2>1, UnderWaySlots DEF Slots
  <2> QED BY <1>1, <1>3, <2>1, QueriesOutlive
<1>5. \A q \in UnderWay("query") \ {r} : q \in Requests /\ q # r
  BY DEF UnderWay
<1> QED BY <1>2, <1>4, <1>5

LEMMA QueryQuiet ==
    ASSUME QueryInv, Same("query"), UNCHANGED ghosts,
           store'.filter = store.filter, store'.contacts = store.contacts,
           store'.currentPage = store.currentPage, store'.totalPages = store.totalPages
    PROVE  QueryInv'
BY DEF QueryInv, LastAskedIsShown, Same, ghosts

LEMMA QueryTorn ==
    ASSUME torn', store'.contacts = None => store'.totalPages = 0
    PROVE  QueryInv'
BY DEF QueryInv, LastAskedIsShown

LEMMA QueryAsked ==
    ASSUME TypeInv, QueryInv, NEW filter \in Filters, NEW page \in Nat, LoadPage(filter, page),
           store'.filter = filter, store'.contacts = store.contacts,
           store'.totalPages = store.totalPages
    PROVE  QueryInv'
<1> DEFINE answer == Answer(filter, page)
<1>1. filter # None /\ answer \in Answers
  BY AnswerTyped, NoneAssumption
<1>2. Ask(answer) /\ Send("query", answer, ApiKey)
  BY <1>1 DEF LoadPage
<1>3. MessageType(Message("query", answer, ApiKey))
  <2> HIDE DEF answer
  <2> QED BY <1>1, MessagesTyped, StatusTyped
<1>4. answer.filter = filter
  BY DEF Answer
<1> HIDE DEF answer
<1>5. PICK r \in Requests :
            /\ UnderWay("query")' = UnderWay("query") \union {r}
            /\ requests'[r] = Message("query", answer, ApiKey)
  BY <1>2, <1>3, SentEffect
<1>6. requests'[r].about = answer
  BY <1>5 DEF Message
<1>7. CASE UnderWay("query") = {}
  <2>1. asked' = answer /\ ~crossed' /\ ~torn'
    BY <1>2, <1>7 DEF Ask
  <2>2. UnderWay("query")' = {r}
    BY <1>5, <1>7
  <2> QED BY <1>1, <1>4, <1>6, <2>1, <2>2 DEF QueryInv, LastAskedIsShown
<1>8. CASE UnderWay("query") # {}
  <2>1. torn' \/ crossed'
    BY <1>2, <1>8 DEF Ask
  <2>2. UnderWay("query")' # {}
    BY <1>5
  <2> QED BY <1>1, <2>1, <2>2 DEF QueryInv, LastAskedIsShown
<1> QED BY <1>7, <1>8

LEMMA QueryReset ==
    ASSUME Same("query"), ResetStore
    PROVE  QueryInv'
<1>1. store'.filter = None /\ store'.contacts = None /\ store'.totalPages = 0
  BY DEF ResetStore, EmptyStore
<1>2. CASE UnderWay("query") = {}
  <2>1. asked' = None /\ ~crossed' /\ ~torn'
    BY <1>2 DEF ResetStore
  <2>2. UnderWay("query")' = {}
    BY <1>2 DEF Same
  <2> QED BY <1>1, <2>1, <2>2 DEF QueryInv, LastAskedIsShown
<1>3. CASE UnderWay("query") # {}
  <2>1. torn'
    BY <1>3 DEF ResetStore, Tear
  <2> QED BY <1>1, <2>1, QueryTorn
<1> QED BY <1>2, <1>3

LEMMA QueryStep ==
    ASSUME TypeInv, QueryInv, Next
    PROVE  QueryInv'
<1>1. /\ view.page \in PageNames /\ view \in Views /\ Typed(requests) /\ active \subseteq Keys
      /\ RequestsType /\ SessionType /\ StoreType
  BY DEF TypeInv, ViewType, Views, RequestsType
<1>2. ASSUME NEW r, NEW kind, NEW status, Answered(r, kind, status)
      PROVE  r \in UnderWay(kind) /\ requests' = Without(requests, r)
  BY <1>2 DEF Answered, Without
<1>3. ASSUME NEW r, NEW kind, Fails(r, kind)
      PROVE  r \in UnderWay(kind) /\ requests' = Without(requests, r)
  BY <1>3 DEF Fails, Without
<1>4. UNCHANGED requests => Same("query")
  BY DEF Same, UnderWay
<1>5. Same("query") /\ UNCHANGED <<store, ghosts>> => QueryInv'
  BY QueryQuiet
<1>6. CASE SignOut
  <2>1. Same("query")
    BY <1>1, <1>6, QueriesOutlive, UnderWaySlots DEF SignOut, Same
  <2> QED BY <1>5, <1>6, <2>1 DEF SignOut
<1>7. CASE Expire \/ Cancel \/ (\E key \in Keys : ConfirmDeactivate(key))
           \/ (\E form \in Forms : Edit(form))
  BY <1>4, <1>5, <1>7 DEF Expire, Cancel, ConfirmDeactivate, Edit
<1>8. ASSUME NEW page \in PageNames, Open(page)
      PROVE  QueryInv'
  <2>1. /\ Typed(Orphaned(requests))
        /\ \A kind \in PageKinds : Slots(Orphaned(requests), kind) = {}
        /\ Slots(Orphaned(requests), "query") = UnderWay("query")
        /\ \A r \in UnderWay("query") : Orphaned(requests)[r] = requests[r]
    BY <1>1, TypedOrphaned, OrphanEffect, UnderWaySlots DEF StoreKinds
  <2>2. Mount(page, Orphaned(requests))
    BY <1>8 DEF Open
  <2>3. /\ UnderWay("query")' = Slots(Orphaned(requests), "query")
        /\ \A r \in Slots(Orphaned(requests), "query") : requests'[r] = Orphaned(requests)[r]
    BY <1>1, <2>1, <2>2, MountEffect DEF StoreKinds
  <2> QED BY <1>5, <1>8, <2>1, <2>3 DEF Open, Same
<1>9. ASSUME NEW page \in PageNames, Reload(page)
      PROVE  QueryInv'
  <2> DEFINE nothing == [r \in Requests |-> None]
  <2>1. Typed(nothing) /\ \A kind : Slots(nothing, kind) = {}
    BY DEF Typed, Slots
  <2>2. Mount(page, nothing)
    BY <1>9 DEF Reload
  <2> HIDE DEF nothing
  <2>3. UnderWay("query")' = {}
    BY <1>1, <2>1, <2>2, MountEffect DEF StoreKinds
  <2>4. store'.filter = None /\ store'.contacts = None /\ store'.totalPages = 0
        /\ asked' = None
    BY <1>9 DEF Reload, EmptyStore
  <2> QED BY <2>3, <2>4 DEF QueryInv, LastAskedIsShown
<1>10. ASSUME NEW key \in Keys \union {None}, Submit(key)
       PROVE  QueryInv'
  <2>1. PICK status \in LoginStatus(key) : Send("login", key, status)
    BY <1>10 DEF Submit
  <2>2. MessageType(Message("login", key, status))
    BY MessagesTyped DEF LoginStatus
  <2>3. Same("query")
    BY <2>1, <2>2, OtherSent
  <2> QED BY <1>5, <1>10, <2>3 DEF Submit
<1>11. CASE Search
  <2>1. FilterOf(view.form) \in Filters
    BY <1>1, FilterTyped DEF Views
  <2>2. /\ store'.filter = FilterOf(view.form) /\ store'.contacts = store.contacts
        /\ store'.totalPages = store.totalPages
    BY <1>1, <1>11 DEF Search, StoreType
  <2> QED BY <1>11, <2>1, <2>2, QueryAsked DEF Search
<1>12. ASSUME NEW page \in 1 .. Pages, GoToPage(page)
       PROVE  QueryInv'
  <2>1. page \in Nat /\ store.totalPages > 1
    BY <1>12, PagesAssumption DEF GoToPage
  <2>2. /\ store'.filter = store.filter /\ store'.contacts = store.contacts
        /\ store'.totalPages = store.totalPages /\ LoadPage(store.filter, page)
    BY <1>1, <1>12 DEF GoToPage, StoreType
  <2>3. CASE store.filter = None
    <3>1. store.contacts # None
      BY <2>1 DEF QueryInv
    <3>2. torn
      BY <2>3, <3>1 DEF QueryInv, LastAskedIsShown
    <3>3. torn'
      BY <2>2, <2>3, <3>2 DEF LoadPage, ghosts
    <3> QED BY <2>2, <3>1, <3>3, QueryTorn
  <2>4. CASE store.filter # None
    <3>1. store.filter \in Filters
      BY <1>1, <2>4 DEF StoreType
    <3> QED BY <2>1, <2>2, <3>1, QueryAsked
  <2> QED BY <2>3, <2>4
<1>13. CASE Clear
  BY <1>4, <1>13, QueryReset DEF Clear
<1>14. CASE ConfirmDeleteSegment
  <2>1. PICK status \in {200, 401} : Send("delete", view.form.segment, status)
    BY <1>14 DEF ConfirmDeleteSegment
  <2>2. MessageType(Message("delete", view.form.segment, status))
    BY <1>1, <1>14, SegmentTyped, MessagesTyped DEF ConfirmDeleteSegment, Views
  <2>3. Same("query")
    BY <2>1, <2>2, OtherSent
  <2> QED BY <1>5, <1>14, <2>3 DEF ConfirmDeleteSegment
<1>15. ASSUME NEW key \in Keys, DownloadExport(key)
       PROVE  QueryInv'
  <2>1. PICK status \in {200, 401, 403} : Send("export", None, status)
    BY <1>15 DEF DownloadExport
  <2>2. MessageType(Message("export", None, status))
    BY MessagesTyped
  <2>3. Same("query")
    BY <2>1, <2>2, OtherSent
  <2> QED BY <1>5, <1>15, <2>3 DEF DownloadExport
<1>16. CASE LoadInsights \/ LoadKeys
  <2>1. MessageType(Message("insights", None, Jwt)) /\ MessageType(Message("keys", active, Jwt))
    BY <1>1, MessagesTyped, StatusTyped
  <2>2. Same("query")
    BY <1>16, <2>1, OtherSent DEF LoadInsights, LoadKeys
  <2> QED BY <1>5, <1>16, <2>2 DEF LoadInsights, LoadKeys
<1>17. CASE Deactivate
  <2>1. view.confirmKey \in Keys
    BY <1>1, <1>17 DEF Deactivate, Views
  <2>2. MessageType(Message("deactivate", view.confirmKey, Jwt))
    BY <2>1, MessagesTyped, StatusTyped
  <2>3. Same("query")
    BY <1>17, <2>2, OtherSent DEF Deactivate
  <2> QED BY <1>5, <1>17, <2>3 DEF Deactivate
<1>18. ASSUME NEW r \in Requests, LoginAnswer(r)
       PROVE  QueryInv'
  <2>1. r \in UnderWay("login") /\ requests' = [requests EXCEPT ![r] = Message("insights", None, 200)]
    BY <1>18 DEF LoginAnswer, Message
  <2>2. requests'[r].kind = "insights" /\ \A q \in Requests : q # r => requests'[q] = requests[q]
    BY <1>1, <2>1 DEF Typed, Message
  <2>3. Same("query")
    BY <2>1, <2>2 DEF Same, UnderWay
  <2> QED BY <1>5, <1>18, <2>3 DEF LoginAnswer
<1>19. ASSUME NEW r \in Requests,
              \/ LoginRejected(r) \/ LoginFails(r) \/ ExportDone(r) \/ ExportForbidden(r)
              \/ RequestLost(r) \/ InsightsAnswer(r) \/ InsightsFail(r) \/ KeysAnswer(r)
              \/ KeysFail(r)
       PROVE  QueryInv'
  <2>1. \E kind \in {"login", "insights", "keys", "delete", "export", "left"} :
            r \in UnderWay(kind) /\ requests' = Without(requests, r)
    <3>1. CASE LoginRejected(r) \/ LoginFails(r)
      BY <1>3, <3>1 DEF LoginRejected, LoginFails, Without
    <3>2. CASE ExportDone(r) \/ ExportForbidden(r) \/ RequestLost(r)
      BY <1>2, <1>3, <3>2 DEF ExportDone, ExportForbidden, RequestLost
    <3>3. CASE InsightsAnswer(r) \/ InsightsFail(r) \/ KeysAnswer(r) \/ KeysFail(r)
      BY <1>2, <1>3, <3>3 DEF InsightsAnswer, InsightsFail, KeysAnswer, KeysFail
    <3> QED BY <1>19, <3>1, <3>2, <3>3
  <2>2. Same("query")
    BY <2>1, OtherOver
  <2> QED BY <1>5, <1>19, <2>2 DEF LoginRejected, LoginFails, ExportDone, ExportForbidden,
             RequestLost, InsightsAnswer, InsightsFail, KeysAnswer, KeysFail
<1>20. ASSUME NEW r \in Requests, QueryAnswer(r)
       PROVE  QueryInv'
  <2>1. r \in UnderWay("query") /\ requests' = Without(requests, r)
    BY <1>2, <1>20 DEF QueryAnswer
  <2>2. UnderWay("query")' = UnderWay("query") \ {r}
        /\ \A q \in Requests : q # r => requests'[q] = requests[q]
    BY <2>1, OverEffect
  <2>3. requests[r].about \in Answers /\ requests[r].about # None
    BY <2>1, SlotTyped, NoneAssumption DEF MessageType
  <2>4. /\ store'.contacts = requests[r].about /\ store'.currentPage = requests[r].about.page
        /\ store'.filter = store.filter /\ UNCHANGED ghosts
    BY <1>1, <1>20 DEF QueryAnswer, StoreType
  <2>5. \A q \in UnderWay("query")' : q \in UnderWay("query") /\ requests'[q] = requests[q]
    BY <2>2 DEF UnderWay
  <2>6. ~torn => store.filter # None
    BY <2>1 DEF QueryInv
  <2>7. ~torn /\ ~crossed =>
            UnderWay("query")' = {} /\ requests[r].about = asked /\ store.filter = asked.filter
    BY <2>1, <2>2 DEF QueryInv
  <2> QED BY <2>3, <2>4, <2>5, <2>6, <2>7 DEF QueryInv, LastAskedIsShown, ghosts
<1>21. ASSUME NEW r \in Requests, QueryRejected(r) \/ QueryFails(r)
       PROVE  QueryInv'
  <2>1. torn' /\ store'.contacts = store.contacts /\ store'.totalPages = store.totalPages
    BY <1>1, <1>21 DEF QueryRejected, QueryFails, Tear, StoreType
  <2> QED BY <2>1, QueryTorn DEF QueryInv
<1>22. ASSUME NEW r \in Requests, DeleteDone(r)
       PROVE  QueryInv'
  <2>1. r \in UnderWay("delete") /\ requests' = Without(requests, r)
    BY <1>2, <1>22 DEF DeleteDone
  <2>2. Same("query")
    BY <2>1, OtherOver
  <2> QED BY <1>22, <2>2, QueryReset DEF DeleteDone
<1>23. ASSUME NEW r \in Requests, Rejected(r)
       PROVE  QueryInv'
  <2>1. r \notin UnderWay("query") /\ Unauthorised(r)
    BY <1>23 DEF Rejected, UnderWay
  <2>2. Same("query")
    BY <2>1, UnauthorisedQueries DEF Same
  <2> QED BY <1>5, <1>23, <2>2 DEF Rejected
<1>24. ASSUME NEW r \in Requests, DeactivateDone(r) \/ DeactivateFails(r)
       PROVE  QueryInv'
  <2>1. r \in UnderWay("deactivate") /\ Settle(r)
    BY <1>24 DEF DeactivateDone, DeactivateFails
  <2>2. \A q \in UnderWay("query") : q \in Requests /\ q # r /\ q \notin UnderWay("keys")
    BY <2>1 DEF UnderWay
  <2>3. Same("query")
    BY <2>1, <2>2, SettleEffect DEF Same
  <2> QED BY <1>5, <1>24, <2>3 DEF DeactivateDone, DeactivateFails
<1>25. {"insights", "query", "keys"} \subseteq PageNames /\ "login" \in PageNames
  BY DEF PageNames
<1> QED
  BY <1>6, <1>7, <1>8, <1>9, <1>10, <1>11, <1>12, <1>13, <1>14, <1>15, <1>16, <1>17, <1>18,
     <1>19, <1>20, <1>21, <1>22, <1>23, <1>24, <1>25 DEF Next

\* When no query is under way the rows are those of the page the pager names, in
\* whatever order the answers came, unless a query failed or was overtaken by a
\* "Clear"; and they are what was asked for last, if no two queries crossed.
THEOREM ResultsTold == Spec => []LastAskedIsShown
<1>1. Init => QueryInv
  <2> SUFFICES ASSUME Init PROVE QueryInv
    OBVIOUS
  <2>1. store.filter = None /\ store.contacts = None /\ store.totalPages = 0 /\ asked = None
    BY DEF Init, EmptyStore
  <2>2. UnderWay("query") = {}
    BY DEF Init, UnderWay
  <2> QED BY <2>1, <2>2 DEF QueryInv, LastAskedIsShown
<1>2. TypeInv /\ QueryInv /\ [Next]_vars => QueryInv'
  <2>1. QueryInv /\ UNCHANGED vars => QueryInv'
    BY DEF vars, ghosts, QueryInv, LastAskedIsShown, UnderWay
  <2> QED BY <2>1, QueryStep
<1>3. QueryInv => LastAskedIsShown
  BY DEF QueryInv
<1> QED BY <1>1, <1>2, <1>3, TypeInvariant, PTL DEF Spec
=============================================================================
