--------------------------- MODULE JobPagesProofs ---------------------------
(***************************************************************************)
(* Theorems about JobPages: a file is sent with a mapping of its own columns, *)
(* and the wizard's last page tells a status its job has had, for any numbers *)
(* of jobs, files, requests under way, reruns and failures.                  *)
(***************************************************************************)
EXTENDS JobPages, TLAPS

(***************************************************************************)
(* Types                                                                   *)
(***************************************************************************)

Wizards ==
    [step : {"select", "map", "confirm", "uploading", "done"},
     file : Files \union {None}, columnsOf : Files \union {None},
     ready : BOOLEAN, isParsing : BOOLEAN,
     jobId : Jobs \union {None}, jobStatus : Statuses]

TypeInv ==
    /\ rows \in [Jobs -> Statuses \union {None, "gone"}]
    /\ reruns \in [Jobs -> Nat]
    /\ wizard \in Wizards
    /\ parsing \subseteq Files
    /\ ingest \in Ingests \union {None}
    /\ polling \in Jobs \union {None}
    /\ deleting \in Deletions \union {None}
    /\ requests \in [Requests -> Asked \union {None}]
    /\ late \in BOOLEAN

(***************************************************************************)
(* The inductive invariants                                                *)
(***************************************************************************)

\* A POST whose page is still there is the one its wizard waits for.
PostInv == ingest # None /\ ingest.mounted => wizard.step = "uploading"

\* Only the file of the wizard is parsed, and only on its first page; from the
\* second page on the columns are those of the file.
MappingInv ==
    /\ MappingIsOfFile /\ PostInv
    /\ wizard.isParsing => wizard.step = "select" /\ parsing = {wizard.file}
    /\ ~wizard.isParsing => parsing = {}
    /\ wizard.step \in {"map", "confirm", "uploading"} => wizard.columnsOf = wizard.file

\* The job has had the status, and has it still unless it ran again or is deleted.
Had(j, status) ==
    /\ status = "processing" => rows[j] \notin {None, "queued"}
    /\ status \in Final => rows[j] \in {status, "gone"} \/ reruns[j] > 0

\* Requests answer with a status their job has had.
AnswerHad(r) ==
    requests[r] # None /\ requests[r].about # "list" =>
        Had(requests[r].about, requests[r].answer)

\* While none is late, only the job on the last page is asked for, and what the page
\* shows is an answer about that job.
AsksPage(r) ==
    requests[r] # None /\ requests[r].about # "list" /\ ~late =>
        wizard.step = "done" /\ requests[r].about = wizard.jobId

PageInv ==
    ~late =>
        /\ polling # None => wizard.step = "done" /\ polling = wizard.jobId
        /\ IF wizard.step = "done"
           THEN wizard.jobId # None /\ Had(wizard.jobId, wizard.jobStatus)
           ELSE wizard.jobStatus = "queued"

StatusInv ==
    /\ \A r \in Requests : AnswerHad(r) /\ AsksPage(r)
    /\ PageInv

(***************************************************************************)
(* The type invariant                                                      *)
(***************************************************************************)

LEMMA EmptyWizardType == EmptyWizard \in Wizards
BY DEF Wizards, EmptyWizard, Statuses, Live

LEMMA InitTyped == Init => TypeInv
<1> SUFFICES ASSUME Init PROVE TypeInv OBVIOUS
<1>1. wizard \in Wizards BY EmptyWizardType DEF Init
<1>2. rows \in [Jobs -> Statuses \union {None, "gone"}] /\ reruns \in [Jobs -> Nat]
    BY DEF Init
<1>3. requests \in [Requests -> Asked \union {None}] BY DEF Init
<1>4. QED BY <1>1, <1>2, <1>3 DEF Init, TypeInv

LEMMA ListedType ==
    ASSUME rows \in [Jobs -> Statuses \union {None, "gone"}]
    PROVE  Listed \in [Jobs -> Statuses \union {None}]
BY DEF Listed

\* A request that is sent takes a free slot.
LEMMA Sent ==
    ASSUME NEW about, NEW answer, Send(about, answer),
           requests \in [Requests -> Asked \union {None}],
           [about |-> about, answer |-> answer] \in Asked
    PROVE  /\ requests' \in [Requests -> Asked \union {None}]
           /\ \A r \in Requests :
                requests'[r] \in {requests[r], [about |-> about, answer |-> answer]}
<1> DEFINE free == {r \in Requests : requests[r] = None}
<1>1. PICK slot \in Requests :
        requests' = [requests EXCEPT ![slot] = [about |-> about, answer |-> answer]]
    <2>1. (CHOOSE r \in free : TRUE) \in free BY DEF Send
    <2>2. QED BY <2>1 DEF Send
<1>2. QED BY <1>1

LEMMA Polled ==
    ASSUME TypeInv, PollTick
    PROVE  /\ requests' \in [Requests -> Asked \union {None}]
           /\ \A r \in Requests :
                requests'[r] \in {requests[r], [about |-> polling, answer |-> Listed[polling]]}
<1>1. polling \in Jobs BY DEF TypeInv, PollTick
<1>2. [about |-> polling, answer |-> Listed[polling]] \in Asked
    BY <1>1, ListedType DEF TypeInv, Asked
<1>3. Send(polling, Listed[polling]) BY DEF PollTick
<1> HIDE DEF TypeInv, Listed
<1>4. requests \in [Requests -> Asked \union {None}] BY DEF TypeInv
<1>5. QED BY <1>2, <1>3, <1>4, Sent

LEMMA Loaded ==
    ASSUME TypeInv, LoadJobs, rows' \in [Jobs -> Statuses \union {None, "gone"}]
    PROVE  /\ requests' \in [Requests -> Asked \union {None}]
           /\ \A r \in Requests :
                requests'[r] \in {requests[r], [about |-> "list", answer |-> Listed']}
<1>1. Listed' \in [Jobs -> Statuses \union {None}]
    BY DEF Listed
<1>2. [about |-> "list", answer |-> Listed'] \in Asked BY <1>1 DEF Asked
<1>3. Send("list", Listed') BY DEF LoadJobs
<1>4. requests \in [Requests -> Asked \union {None}] BY DEF TypeInv
<1>5. QED BY <1>2, <1>3, <1>4, Sent

LEMMA PollAnswerType ==
    ASSUME TypeInv, NEW r \in Requests, requests[r] # None, requests[r].about \in Jobs
    PROVE  requests[r].answer \in Statuses \union {None}
BY NoneAssumption DEF TypeInv, Asked

LEMMA StepTyped == TypeInv /\ [Next]_vars => TypeInv'
<1> SUFFICES ASSUME TypeInv, [Next]_vars PROVE TypeInv' OBVIOUS
<1>1. ASSUME NEW j \in Jobs, Take(j) PROVE TypeInv'
    BY <1>1 DEF TypeInv, Take, upload, jobsList, Statuses, Live
<1>2. ASSUME NEW j \in Jobs, Finish(j) PROVE TypeInv'
    BY <1>2 DEF TypeInv, Finish, upload, jobsList, Statuses, Final
<1>3. ASSUME NEW j \in Jobs, IngestDone(j) PROVE TypeInv'
    <2>1. rows' \in [Jobs -> Statuses \union {None, "gone"}]
        BY <1>3 DEF TypeInv, IngestDone, Statuses, Live
    <2>2. wizard' \in Wizards
        <3>1. [wizard EXCEPT !.step = "done", !.jobId = j] \in Wizards
            BY DEF TypeInv, Wizards
        <3>2. QED BY <1>3, <3>1 DEF TypeInv, IngestDone
    <2>3. polling' \in Jobs \union {None}
        BY <1>3 DEF TypeInv, IngestDone
    <2>4. QED BY <1>3, <2>1, <2>2, <2>3 DEF TypeInv, IngestDone, jobsList
<1>4. ASSUME NEW j \in Jobs, ConfirmDelete(j) PROVE TypeInv'
    BY <1>4 DEF TypeInv, ConfirmDelete, server, upload, Deletions
<1>5. ASSUME NEW r \in Requests, PollAnswer(r) PROVE TypeInv'
    <2>1. requests[r].answer \in Statuses \union {None}
        BY <1>5, PollAnswerType DEF PollAnswer, Answered
    <2>2. wizard' \in Wizards
        BY <1>5, <2>1 DEF TypeInv, PollAnswer, Wizards
    <2>3. polling' \in Jobs \union {None}
        BY <1>5 DEF TypeInv, PollAnswer, StopPoll
    <2>4. QED BY <1>5, <2>2, <2>3 DEF TypeInv, PollAnswer, Answered, server, jobsList
<1>6. ASSUME NEW r \in Requests, PollFails(r) PROVE TypeInv'
    BY <1>6 DEF TypeInv, PollFails, Fails, StopPoll, server, jobsList
<1>7. ASSUME NEW r \in Requests, ListAnswer(r) \/ ListFails(r) PROVE TypeInv'
    BY <1>7 DEF TypeInv, ListAnswer, ListFails, Answered, Fails, server, upload
<1>8. ASSUME NEW f \in Files, ProcessFile(f) \/ OnMessage(f) PROVE TypeInv'
    BY <1>8 DEF TypeInv, ProcessFile, OnMessage, server, jobsList, Wizards
<1>9. ASSUME NEW ready \in BOOLEAN, Edit(ready) PROVE TypeInv'
    BY <1>9 DEF TypeInv, Edit, OnlyWizard, server, jobsList, Wizards
<1>10. ASSUME Back \/ Review \/ EditMapping PROVE TypeInv'
    BY <1>10 DEF TypeInv, Back, Review, EditMapping, Turn, OnlyWizard, server, jobsList,
                 Wizards
<1>11. CASE Submit
    BY <1>11 DEF TypeInv, Submit, server, jobsList, Wizards, Ingests
<1>12. CASE IngestFails
    BY <1>12 DEF TypeInv, IngestFails, jobsList, Wizards, Statuses, Live
<1>13. CASE PollTick
    <2>1. requests' \in [Requests -> Asked \union {None}] BY <1>13, Polled
    <2>2. QED BY <1>13, <2>1 DEF TypeInv, PollTick, server, upload, jobsList
<1>14. CASE Reset
    BY <1>14 DEF TypeInv, Reset, StopPoll, server, jobsList, EmptyWizard, Wizards,
                 Statuses, Live
<1>15. CASE Refresh \/ ListTick \/ OpenJobs
    <2>1. UNCHANGED <<server, upload, deleting>> /\ LoadJobs
        BY <1>15 DEF Refresh, ListTick, OpenJobs
    <2>2. requests' \in [Requests -> Asked \union {None}]
        BY <2>1, Loaded DEF TypeInv, server
    <2>3. QED BY <2>1, <2>2 DEF TypeInv, server, upload
<1>16. CASE DeleteDone
    <2>1. rows' \in [Jobs -> Statuses \union {None, "gone"}]
        BY <1>16 DEF TypeInv, DeleteDone, Deletions
    <2>2. requests' \in [Requests -> Asked \union {None}]
        <3>1. CASE deleting.mounted BY <1>16, <2>1, <3>1, Loaded DEF DeleteDone
        <3>2. CASE ~deleting.mounted BY <1>16, <3>2 DEF DeleteDone, TypeInv
        <3>3. QED BY <3>1, <3>2
    <2>3. QED BY <1>16, <2>1, <2>2 DEF TypeInv, DeleteDone, upload
<1>17. CASE DeleteFails
    BY <1>17 DEF TypeInv, DeleteFails, upload, Deletions
<1>18. CASE OpenUpload
    BY <1>18 DEF TypeInv, OpenUpload, server, upload, jobsList
<1>19. CASE Leave
    <2>1. wizard' \in Wizards /\ requests' \in [Requests -> Asked \union {None}]
        BY <1>19 DEF Leave, EmptyWizard, Wizards, Lost, Statuses, Live
    <2>2. ingest' \in Ingests \union {None}
        BY <1>19 DEF TypeInv, Leave, Ingests
    <2>3. deleting' \in Deletions \union {None}
        BY <1>19 DEF TypeInv, Leave, Deletions
    <2>4. QED BY <1>19, <2>1, <2>2, <2>3 DEF TypeInv, Leave, StopPoll, server
<1>20. CASE UNCHANGED vars
    BY <1>20 DEF TypeInv, vars, server, upload, jobsList
<1>21. QED
    BY <1>1, <1>2, <1>3, <1>4, <1>5, <1>6, <1>7, <1>8, <1>9, <1>10, <1>11, <1>12, <1>13,
       <1>14, <1>15, <1>16, <1>17, <1>18, <1>19, <1>20 DEF Next

LEMMA TypeInvariant == Spec => []TypeInv
BY InitTyped, StepTyped, PTL DEF Spec

(***************************************************************************)
(* The mapping                                                             *)
(***************************************************************************)

mapped == <<wizard, parsing, ingest>>

LEMMA InitMapping == Init => MappingInv
BY DEF Init, MappingInv, MappingIsOfFile, PostInv, EmptyWizard

LEMMA StepMapping == TypeInv /\ MappingInv /\ [Next]_vars => MappingInv'
<1> SUFFICES ASSUME TypeInv, MappingInv, [Next]_vars PROVE MappingInv' OBVIOUS
<1> USE DEF MappingInv, MappingIsOfFile, PostInv
<1>1. CASE UNCHANGED mapped
    BY <1>1 DEF mapped
<1>2. ASSUME NEW j \in Jobs, Take(j) \/ Finish(j) \/ ConfirmDelete(j) PROVE UNCHANGED mapped
    BY <1>2 DEF Take, Finish, ConfirmDelete, upload, mapped
<1>3. ASSUME NEW j \in Jobs, IngestDone(j) PROVE MappingInv'
    <2>1. CASE ingest.mounted
        BY <1>3, <2>1 DEF IngestDone, TypeInv, Wizards
    <2>2. CASE ~ingest.mounted
        BY <1>3, <2>2 DEF IngestDone
    <2>3. QED BY <2>1, <2>2
<1>4. ASSUME NEW r \in Requests, PollAnswer(r) PROVE MappingInv'
    <2>1. wizard' \in {wizard, [wizard EXCEPT !.jobStatus = requests[r].answer]}
        BY <1>4 DEF PollAnswer
    <2>2. UNCHANGED <<parsing, ingest>> BY <1>4 DEF PollAnswer
    <2>3. QED BY <2>1, <2>2 DEF TypeInv, Wizards
<1>5. ASSUME NEW r \in Requests, PollFails(r) \/ ListAnswer(r) \/ ListFails(r)
      PROVE  UNCHANGED mapped
    BY <1>5 DEF PollFails, ListAnswer, ListFails, upload, mapped
<1>6. ASSUME NEW f \in Files, ProcessFile(f) PROVE MappingInv'
    BY <1>6 DEF ProcessFile, CanPick, Shows, TypeInv, Wizards
<1>7. ASSUME NEW f \in Files, OnMessage(f) PROVE MappingInv'
    <2>1. wizard.step = "select" /\ parsing = {f} /\ wizard.file = f
        BY <1>7 DEF OnMessage
    <2>2. parsing' = {} BY <1>7, <2>1 DEF OnMessage
    <2>3. QED BY <1>7, <2>1, <2>2 DEF OnMessage, TypeInv, Wizards
<1>8. ASSUME NEW ready \in BOOLEAN, Edit(ready) PROVE MappingInv'
    BY <1>8 DEF Edit, OnlyWizard, TypeInv, Wizards
<1>9. CASE Back \/ Review \/ EditMapping
    BY <1>9 DEF Back, Review, EditMapping, Turn, Shows, OnlyWizard, TypeInv, Wizards
<1>10. CASE Submit
    BY <1>10 DEF Submit, Shows, TypeInv, Wizards
<1>11. CASE IngestFails
    BY <1>11 DEF IngestFails, TypeInv, Wizards
<1>12. CASE Reset
    BY <1>12 DEF Reset, Shows, EmptyWizard
<1>13. CASE Leave
    <2>1. ingest' # None => ingest'.columnsOf = ingest'.file /\ ~ingest'.mounted
        BY <1>13 DEF Leave, TypeInv, Ingests
    <2>2. QED BY <1>13, <2>1 DEF Leave, EmptyWizard
<1>14. CASE PollTick \/ Refresh \/ ListTick \/ DeleteDone \/ DeleteFails \/ OpenUpload
            \/ OpenJobs \/ UNCHANGED vars
    <2>1. UNCHANGED mapped
        BY <1>14 DEF PollTick, Refresh, ListTick, DeleteDone, DeleteFails, OpenUpload,
                     OpenJobs, upload, vars, mapped
    <2>2. QED BY <1>1, <2>1
<1>15. QED
    BY <1>1, <1>2, <1>3, <1>4, <1>5, <1>6, <1>7, <1>8, <1>9, <1>10, <1>11, <1>12, <1>13,
       <1>14 DEF Next

LEMMA MappingInvariant == Spec => []MappingInv
BY InitMapping, TypeInvariant, StepMapping, PTL DEF Spec

\* A file is never sent with a mapping made from another one's columns, however often
\* the administrator goes back and picks another file (upload.component.ts).
THEOREM MappingOfFile == Spec => []MappingIsOfFile
<1>1. MappingInv => MappingIsOfFile BY DEF MappingInv
<1>2. QED BY <1>1, MappingInvariant, PTL

(***************************************************************************)
(* The status on the last page                                             *)
(***************************************************************************)

\* What a job has had it will have had.
LEMMA HadKept ==
    ASSUME TypeInv, TypeInv', [Next]_vars, NEW j \in Jobs, NEW status, Had(j, status)
    PROVE  Had(j, status)'
<1>1. None \notin {"queued", "processing", "done", "failed", "gone"}
    BY NoneAssumption DEF Statuses, Live, Final
<1>2. CASE UNCHANGED server BY <1>2 DEF Had, server
<1>3. ASSUME NEW i \in Jobs, Take(i) PROVE Had(j, status)'
    BY <1>1, <1>3 DEF Had, Take, TypeInv, Final
<1>4. ASSUME NEW i \in Jobs, Finish(i) PROVE Had(j, status)'
    BY <1>1, <1>4 DEF Had, Finish, TypeInv, Final
<1>5. ASSUME NEW i \in Jobs, rows[i] = None, rows' = [rows EXCEPT ![i] = "queued"],
             reruns' = reruns
      PROVE  Had(j, status)'
    BY <1>1, <1>5 DEF Had, TypeInv, Final
<1>6. ASSUME NEW i \in Jobs, rows' = [rows EXCEPT ![i] = "gone"], reruns' = reruns
      PROVE  Had(j, status)'
    BY <1>1, <1>6 DEF Had, TypeInv, Final
<1>7. ASSUME NEW i \in Jobs, IngestDone(i) PROVE Had(j, status)'
    BY <1>5, <1>7 DEF IngestDone
<1>8. CASE IngestFails
    BY <1>2, <1>5, <1>8 DEF IngestFails, server
<1>9. CASE DeleteDone \/ DeleteFails
    <2>1. deleting.job \in Jobs
        BY <1>9 DEF DeleteDone, DeleteFails, TypeInv, Deletions
    <2>2. rows' \in {rows, [rows EXCEPT ![deleting.job] = "gone"]} /\ reruns' = reruns
        BY <1>9 DEF DeleteDone, DeleteFails
    <2>3. CASE rows' = rows BY <1>2, <2>2, <2>3 DEF server
    <2>4. CASE rows' = [rows EXCEPT ![deleting.job] = "gone"]
        <3>1. PICK i \in Jobs : i = deleting.job BY <2>1
        <3>2. QED BY <1>6, <2>2, <2>4, <3>1
    <2>5. QED BY <2>2, <2>3, <2>4
<1>10. ASSUME NEW i \in Jobs, ConfirmDelete(i) PROVE UNCHANGED server
    BY <1>10 DEF ConfirmDelete
<1>11. ASSUME NEW r \in Requests,
              PollAnswer(r) \/ PollFails(r) \/ ListAnswer(r) \/ ListFails(r)
       PROVE  UNCHANGED server
    BY <1>11 DEF PollAnswer, PollFails, ListAnswer, ListFails
<1>12. ASSUME NEW f \in Files, ProcessFile(f) \/ OnMessage(f) PROVE UNCHANGED server
    BY <1>12 DEF ProcessFile, OnMessage
<1>13. ASSUME NEW ready \in BOOLEAN, Edit(ready) PROVE UNCHANGED server
    BY <1>13 DEF Edit, OnlyWizard
<1>14. CASE \/ Back \/ Review \/ EditMapping \/ Submit \/ PollTick \/ Reset \/ Refresh
            \/ ListTick \/ OpenUpload \/ OpenJobs \/ Leave \/ UNCHANGED vars
    <2>1. UNCHANGED server
        BY <1>14 DEF Back, Review, EditMapping, Turn, OnlyWizard, Submit, PollTick, Reset,
                     Refresh, ListTick, OpenUpload, OpenJobs, Leave, vars
    <2>2. QED BY <1>2, <2>1
<1>15. QED
    BY <1>2, <1>3, <1>4, <1>7, <1>8, <1>9, <1>10, <1>11, <1>12, <1>13, <1>14 DEF Next

LEMMA InitStatus == Init => StatusInv
BY DEF Init, StatusInv, AnswerHad, AsksPage, PageInv, EmptyWizard

\* The page shows the same status, of the same job, and asks for no other.
Still ==
    /\ late' = late /\ polling' \in {polling, None}
    /\ wizard'.step = "done" <=> wizard.step = "done"
    /\ wizard'.jobId = wizard.jobId /\ wizard'.jobStatus = wizard.jobStatus

LEMMA StepStatus ==
    TypeInv /\ TypeInv' /\ MappingInv /\ StatusInv /\ [Next]_vars => StatusInv'
<1> SUFFICES ASSUME TypeInv, TypeInv', MappingInv, StatusInv, [Next]_vars
             PROVE  StatusInv'
    OBVIOUS
<1> DEFINE Answers(r) == requests'[r] \in {requests[r], None}
<1> DEFINE Loads(r) == requests'[r] \in {requests[r], [about |-> "list", answer |-> Listed']}
<1>1. \A j \in Jobs, status \in Statuses \union {None} : Had(j, status) => Had(j, status)'
    BY HadKept
<1>2. \A r \in Requests :
        requests[r] # None /\ requests[r].about # "list" =>
            requests[r].about \in Jobs /\ requests[r].answer \in Statuses \union {None}
    BY DEF TypeInv, Asked
<1>3. ASSUME NEW r \in Requests, Answers(r) \/ Loads(r) PROVE AnswerHad(r)'
    <2>1. CASE requests'[r] = requests[r]
        <3>1. SUFFICES ASSUME requests[r] # None, requests[r].about # "list"
                       PROVE  Had(requests[r].about, requests[r].answer)'
            BY <2>1 DEF AnswerHad
        <3>2. PICK j \in Jobs, status \in Statuses \union {None} :
                j = requests[r].about /\ status = requests[r].answer
            BY <1>2, <3>1
        <3>3. Had(j, status)' BY <1>1, <3>1, <3>2 DEF StatusInv, AnswerHad
        <3>4. j = requests'[r].about /\ status = requests'[r].answer BY <2>1, <3>2
        <3>5. QED BY <3>3, <3>4 DEF Had
    <2>2. CASE requests'[r] # requests[r] BY <1>3, <2>2 DEF AnswerHad
    <2>3. QED BY <2>1, <2>2
<1>4. ASSUME Still, NEW r \in Requests, Answers(r) \/ Loads(r) PROVE AsksPage(r)'
    BY <1>4 DEF AsksPage, StatusInv, Still
<1>5. ASSUME Still PROVE PageInv'
    <2>1. SUFFICES ASSUME ~late', wizard'.step = "done" 
                   PROVE  Had(wizard.jobId, wizard.jobStatus)'
        BY <1>5 DEF Still, StatusInv, PageInv
    <2>2. wizard.jobId # None /\ Had(wizard.jobId, wizard.jobStatus)
        BY <1>5, <2>1 DEF Still, StatusInv, PageInv
    <2>3. PICK j \in Jobs, status \in Statuses : j = wizard.jobId /\ status = wizard.jobStatus
        BY <2>2 DEF TypeInv, Wizards
    <2>4. Had(j, status)' BY <1>1, <2>2, <2>3
    <2>5. j = wizard'.jobId /\ status = wizard'.jobStatus BY <1>5, <2>3 DEF Still
    <2>6. QED BY <2>4, <2>5 DEF Had
<1>6. ASSUME Still, \A r \in Requests : Answers(r) \/ Loads(r) PROVE StatusInv'
    BY <1>3, <1>4, <1>5, <1>6 DEF StatusInv
<1>7. ASSUME UNCHANGED <<wizard, polling, late>>, \A r \in Requests : Answers(r) \/ Loads(r)
      PROVE  StatusInv'
    BY <1>6, <1>7 DEF Still
<1>8. ASSUME NEW j \in Jobs, Take(j) \/ Finish(j) \/ ConfirmDelete(j) PROVE StatusInv'
    BY <1>7, <1>8 DEF Take, Finish, ConfirmDelete, upload
<1>9. ASSUME NEW j \in Jobs, IngestDone(j) PROVE StatusInv'
    <2>1. UNCHANGED <<requests, late>> BY <1>9 DEF IngestDone
    <2>2. CASE ~ingest.mounted
        BY <1>7, <1>9, <2>1, <2>2 DEF IngestDone
    <2>3. CASE ingest.mounted
        <3>1. wizard.step = "uploading"
            BY <1>9, <2>3 DEF IngestDone, MappingInv, PostInv
        <3>2. /\ wizard'.step = "done" /\ wizard'.jobId = j
              /\ wizard'.jobStatus = wizard.jobStatus /\ polling' = j
            BY <1>9, <2>3 DEF IngestDone, TypeInv, Wizards
        <3>3. \A r \in Requests : AnswerHad(r)' BY <1>3, <2>1
        <3>4. \A r \in Requests : AsksPage(r)'
            BY <2>1, <3>1 DEF StatusInv, AsksPage
        <3>5. ~late => wizard'.jobStatus = "queued"
            BY <3>1, <3>2 DEF StatusInv, PageInv
        <3>6. PageInv'
            BY <2>1, <3>2, <3>5, NoneAssumption DEF PageInv, Had, Final
        <3>7. QED BY <3>3, <3>4, <3>6 DEF StatusInv
    <2>4. QED BY <2>2, <2>3
<1>10. ASSUME NEW r \in Requests, PollAnswer(r) PROVE StatusInv'
    <2>1. /\ requests[r] # None /\ requests[r].about # "list"
          /\ requests' = [requests EXCEPT ![r] = None] /\ late' = late
          /\ polling' \in {polling, None}
        BY <1>10, NoneAssumption DEF PollAnswer, Answered, StopPoll
    <2>2. \A q \in Requests : Answers(q) BY <2>1 DEF TypeInv
    <2>3. CASE requests[r].answer = None
        BY <1>6, <1>10, <2>1, <2>2, <2>3 DEF PollAnswer, Still
    <2>4. CASE requests[r].answer # None
        <3>1. wizard' = [wizard EXCEPT !.jobStatus = requests[r].answer]
            BY <1>10, <2>4 DEF PollAnswer
        <3>2. /\ wizard'.step = wizard.step /\ wizard'.jobId = wizard.jobId
              /\ wizard'.jobStatus = requests[r].answer
            BY <3>1 DEF TypeInv, Wizards
        <3>3. \A q \in Requests : AnswerHad(q)' BY <1>3, <2>2
        <3>4. \A q \in Requests : AsksPage(q)'
            BY <2>1, <2>2, <3>2 DEF StatusInv, AsksPage
        <3>5. PageInv'
            <4>1. SUFFICES ASSUME ~late PROVE PageInv' BY <2>1 DEF PageInv
            <4>2. wizard.step = "done" /\ requests[r].about = wizard.jobId
                BY <2>1, <4>1 DEF StatusInv, AsksPage
            <4>3. PICK j \in Jobs, status \in Statuses \union {None} :
                    j = requests[r].about /\ status = requests[r].answer
                BY <1>2, <2>1
            <4>4. Had(j, status)' BY <1>1, <2>1, <4>3 DEF StatusInv, AnswerHad
            <4>5. j = wizard'.jobId /\ status = wizard'.jobStatus
                BY <3>2, <4>2, <4>3
            <4>6. Had(wizard.jobId, wizard.jobStatus)' BY <4>4, <4>5 DEF Had
            <4>7. wizard'.jobId # None BY <4>3, <4>5, NoneAssumption
            <4>8. polling' # None => polling' = wizard'.jobId
                BY <2>1, <3>2, <4>1 DEF StatusInv, PageInv
            <4>9. QED BY <3>2, <4>2, <4>6, <4>7, <4>8 DEF PageInv
        <3>6. QED BY <3>3, <3>4, <3>5 DEF StatusInv
    <2>5. QED BY <2>3, <2>4
<1>11. ASSUME NEW r \in Requests, PollFails(r) PROVE StatusInv'
    <2>1. \A q \in Requests : Answers(q) BY <1>11 DEF PollFails, Fails, TypeInv
    <2>2. Still BY <1>11 DEF PollFails, StopPoll, Still
    <2>3. QED BY <1>6, <2>1, <2>2
<1>12. ASSUME NEW r \in Requests, ListAnswer(r) \/ ListFails(r) PROVE StatusInv'
    <2>1. \A q \in Requests : Answers(q)
        BY <1>12 DEF ListAnswer, ListFails, Answered, Fails, TypeInv
    <2>2. UNCHANGED <<wizard, polling, late>> BY <1>12 DEF ListAnswer, ListFails, upload
    <2>3. QED BY <1>7, <2>1, <2>2
<1>13. ASSUME NEW f \in Files, ProcessFile(f) PROVE StatusInv'
    BY <1>6, <1>13 DEF ProcessFile, TypeInv, Wizards, Still
<1>14. ASSUME NEW f \in Files, OnMessage(f) PROVE StatusInv'
    <2>1. wizard.step = "select" BY <1>14 DEF OnMessage, MappingInv
    <2>2. Still BY <1>14, <2>1 DEF OnMessage, TypeInv, Wizards, Still
    <2>3. QED BY <1>6, <1>14, <2>2 DEF OnMessage
<1>15. ASSUME NEW ready \in BOOLEAN, Edit(ready) PROVE StatusInv'
    BY <1>6, <1>15 DEF Edit, OnlyWizard, TypeInv, Wizards, Still
<1>16. CASE Back \/ Review \/ EditMapping
    BY <1>6, <1>16 DEF Back, Review, EditMapping, Turn, Shows, OnlyWizard, TypeInv, Wizards,
                       Still
<1>17. CASE Submit
    BY <1>6, <1>17 DEF Submit, Shows, TypeInv, Wizards, Still
<1>18. CASE IngestFails
    <2>1. UNCHANGED <<requests, late, polling>> BY <1>18 DEF IngestFails
    <2>2. ingest.mounted => wizard.step = "uploading"
        BY <1>18 DEF IngestFails, MappingInv, PostInv
    <2>3. Still BY <1>18, <2>1, <2>2 DEF IngestFails, TypeInv, Wizards, Still
    <2>4. QED BY <1>6, <2>1, <2>3
<1>19. CASE PollTick
    <2>1. UNCHANGED <<rows, reruns, wizard, polling, late>> /\ polling # None
        BY <1>19 DEF PollTick, server, upload
    <2>2. \A r \in Requests :
            requests'[r] \in {requests[r], [about |-> polling, answer |-> Listed[polling]]}
        BY <1>19, Polled
    <2>3. Had(polling, Listed[polling])'
        <3>1. PICK j \in Jobs : j = polling BY <2>1 DEF TypeInv
        <3>2. Listed[j] = IF rows[j] = "gone" THEN None ELSE rows[j] BY DEF Listed
        <3>3. None \notin {"queued", "processing", "done", "failed"}
            BY NoneAssumption DEF Statuses, Live, Final
        <3>4. Had(j, Listed[j]) BY <3>2, <3>3 DEF Had
        <3>5. Listed' = Listed BY <2>1 DEF Listed
        <3>6. QED BY <2>1, <3>1, <3>4, <3>5 DEF Had
    <2>4. ASSUME NEW r \in Requests PROVE AnswerHad(r)' /\ AsksPage(r)'
        <3>1. CASE requests'[r] = requests[r]
            <4>1. AnswerHad(r)' BY <1>3, <3>1
            <4>2. AsksPage(r)' BY <2>1, <3>1 DEF StatusInv, AsksPage
            <4>3. QED BY <4>1, <4>2
        <3>2. CASE requests'[r] = [about |-> polling, answer |-> Listed[polling]]
            <4>1. requests'[r].about = polling' /\ requests'[r].answer = Listed[polling]'
                BY <2>1, <3>2 DEF Listed
            <4>2. AnswerHad(r)' BY <2>3, <4>1 DEF AnswerHad, Had
            <4>3. AsksPage(r)' BY <2>1, <4>1 DEF StatusInv, PageInv, AsksPage
            <4>4. QED BY <4>2, <4>3
        <3>3. QED BY <2>2, <3>1, <3>2
    <2>5. PageInv' BY <1>5, <2>1 DEF Still
    <2>6. QED BY <2>4, <2>5 DEF StatusInv
<1>20. CASE Reset
    <2>1. UNCHANGED requests BY <1>20 DEF Reset
    <2>2. wizard'.step # "done" /\ wizard'.jobStatus = "queued" /\ polling' = None
        BY <1>20 DEF Reset, EmptyWizard, StopPoll
    <2>3. ~late' => \A r \in Requests : requests[r] = None
        BY <1>20 DEF Reset
    <2>4. \A r \in Requests : AnswerHad(r)' /\ AsksPage(r)'
        BY <1>3, <2>1, <2>3 DEF AsksPage
    <2>5. PageInv' BY <2>2 DEF PageInv
    <2>6. QED BY <2>4, <2>5 DEF StatusInv
<1>21. CASE Refresh \/ ListTick \/ OpenJobs
    <2>1. UNCHANGED <<rows, wizard, polling, late>> /\ LoadJobs
        BY <1>21 DEF Refresh, ListTick, OpenJobs, server, upload
    <2>2. \A r \in Requests : Loads(r) BY <2>1, Loaded DEF TypeInv
    <2>3. QED BY <1>7, <2>1, <2>2
<1>22. CASE DeleteDone
    <2>1. UNCHANGED <<wizard, polling, late>> BY <1>22 DEF DeleteDone, upload
    <2>2. \A r \in Requests : Answers(r) \/ Loads(r)
        <3>1. CASE deleting.mounted BY <1>22, <3>1, Loaded DEF DeleteDone, TypeInv
        <3>2. CASE ~deleting.mounted BY <1>22, <3>2 DEF DeleteDone
        <3>3. QED BY <3>1, <3>2
    <2>3. QED BY <1>7, <2>1, <2>2
<1>23. CASE DeleteFails \/ OpenUpload \/ UNCHANGED vars
    BY <1>7, <1>23 DEF DeleteFails, OpenUpload, upload, vars
<1>24. CASE Leave
    <2>1. \A r \in Requests : requests'[r] = None BY <1>24 DEF Leave, Lost
    <2>2. wizard'.step = "select" /\ wizard'.jobStatus = "queued" /\ polling' = None
        BY <1>24 DEF Leave, EmptyWizard, StopPoll
    <2>3. QED BY <2>1, <2>2 DEF StatusInv, AnswerHad, AsksPage, PageInv
<1>25. QED
    BY <1>8, <1>9, <1>10, <1>11, <1>12, <1>13, <1>14, <1>15, <1>16, <1>17, <1>18, <1>19,
       <1>20, <1>21, <1>22, <1>23, <1>24 DEF Next

\* While no status request was under way when the wizard was reset, the status on its
\* last page is one the job of that page has had.
THEOREM StatusOfJob == Spec => []StatusIsOfThisJob
<1>1. TypeInv /\ StatusInv => StatusIsOfThisJob
    <2>1. SUFFICES ASSUME TypeInv, StatusInv, NEW j \in Jobs, Reports(j), ~late
                   PROVE  Had(j, wizard.jobStatus)
        BY DEF StatusIsOfThisJob, Had, TypeInv, Wizards, Statuses, Live, Final
    <2>2. QED BY <2>1 DEF StatusInv, PageInv, Reports, Shows
<1>2. Spec => []StatusInv
    BY InitStatus, TypeInvariant, MappingInvariant, StepStatus, PTL DEF Spec
<1>3. QED BY <1>1, <1>2, TypeInvariant, PTL
=============================================================================
