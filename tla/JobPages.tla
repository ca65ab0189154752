------------------------------ MODULE JobPages ------------------------------
(***************************************************************************)
(* The two pages of the portal that watch uploads: the wizard               *)
(* (UploadComponent), which sends a file and polls the job it became, and   *)
(* the list of jobs (JobsListComponent).  The router mounts one page at a   *)
(* time; leaving a page destroys it with its timers, but not the requests   *)
(* under way.                                                               *)
(*                                                                          *)
(* Abstracted: a job row is its status, and what the import does to it is   *)
(* the part of JobLifecycle a reader of the status sees.  A mapping is the  *)
(* file whose columns it maps, and whether a phone is among them and a       *)
(* segment is given (ColumnMapping has the rest).  Angular, the browser and HTTP are not     *)
(* under src/: requests run concurrently, answers come in any order, and      *)
(* timers fire without waiting for them.                                    *)
(***************************************************************************)
EXTENDS Integers, FiniteSets

CONSTANTS
    Jobs,           \* the uploads that may be queued
    Files,          \* the files the administrator has
    None,
    Requests,       \* a bound: status or list requests under way
    MayFail,        \* the jobs whose import may fail
    MaxReruns,      \* a bound: how often each job may run again
    MaxErrors       \* a bound: requests that fail

VARIABLES
    rows,        \* the server: status of every job, None, or "gone"
    reruns,      \* how often each job ran again
    page,        \* "upload", "jobs" or "away"
    wizard,      \* the signals of UploadComponent
    parsing,     \* the files that are being read or parsed
    ingest,      \* what POST /ingest carries while it is under way, or None
    polling,     \* the job the wizard's interval asks for, or None
    list,        \* the signals of JobsListComponent
    deleting,    \* the job DELETE /delete/job is under way for, or None,
                 \* and whether its page is still there
    requests,    \* status and list requests under way
    errors,      \* how many requests failed
    late         \* ghost: a wizard was reset with a status request under way

Live == {"queued", "processing"}
Final == {"done", "failed"}
Statuses == Live \union Final

\* What POST /ingest carries, a deletion under way, and a status or list request
Ingests == [file : Files \union {None}, columnsOf : Files \union {None}, mounted : BOOLEAN]
Deletions == [job : Jobs, mounted : BOOLEAN]
Asked ==
    [about : Jobs, answer : Statuses \union {None}]
        \union [about : {"list"}, answer : [Jobs -> Statuses \union {None}]]

ASSUME NoneAssumption ==
    /\ None \notin Jobs \union Files \union Statuses \union {"gone"}
    /\ None \notin Ingests \union Deletions \union Asked
    /\ "list" \notin Jobs

server == <<rows, reruns>>
upload == <<wizard, parsing, ingest, polling, late>>
jobsList == <<list, deleting>>
vars == <<server, page, upload, jobsList, requests, errors>>

EmptyWizard ==
    [step |-> "select", file |-> None, columnsOf |-> None, ready |-> FALSE,
     isParsing |-> FALSE, jobId |-> None, jobStatus |-> "queued"]

EmptyList == [jobs |-> [j \in Jobs |-> None], loading |-> FALSE]

\* The status is final, and the job does not run again.
Settled(j) == rows[j] \in Final /\ reruns[j] = MaxReruns[j]

Init ==
    /\ rows = [j \in Jobs |-> None]
    /\ reruns = [j \in Jobs |-> 0]
    /\ page = "away"
    /\ wizard = EmptyWizard
    /\ parsing = {} /\ ingest = None /\ polling = None
    /\ list = EmptyList
    /\ deleting = None
    /\ requests = [r \in Requests |-> None]
    /\ errors = 0
    /\ late = FALSE

(***************************************************************************)
(* Requests                                                                *)
(***************************************************************************)

\* The rows a reader finds.
Listed == [j \in Jobs |-> IF rows[j] = "gone" THEN None ELSE rows[j]]

\* about is a job, or "list".  The server reads when the request is sent: an answer
\* read later is that of a request sent later.  Which free slot is taken does not
\* matter.
Send(about, answer) ==
    LET free == {r \in Requests : requests[r] = None}
    IN  /\ free # {}
        /\ requests' = [requests EXCEPT ![CHOOSE r \in free : TRUE] =
                            [about |-> about, answer |-> answer]]

Answered(r, about) ==
    /\ requests[r] # None /\ requests[r].about = about
    /\ requests' = [requests EXCEPT ![r] = None]

\* A request fails before or after the server has seen it, or is turned down: a rate
\* limit, a job that is not there.
Fails(r, about) ==
    /\ requests[r] # None /\ requests[r].about = about
    /\ errors < MaxErrors
    /\ errors' = errors + 1
    /\ requests' = [requests EXCEPT ![r] = None]

Lost == [r \in Requests |-> None]

(***************************************************************************)
(* The server                                                              *)
(***************************************************************************)

\* A job is taken again after a failed attempt, and after its worker was killed: also
\* between the UPDATE to 'done' or 'failed' and the moment the queue is told.  (A worker
\* killed before that UPDATE leaves 'processing', which its rerun writes again.)
Take(j) ==
    /\ \/ rows[j] = "queued" /\ reruns' = reruns
       \/ /\ rows[j] \in Final /\ reruns[j] < MaxReruns[j]
          /\ reruns' = [reruns EXCEPT ![j] = @ + 1]
    /\ rows' = [rows EXCEPT ![j] = "processing"]
    /\ UNCHANGED <<page, upload, jobsList, requests, errors>>

Finish(j) ==
    /\ rows[j] = "processing"
    /\ \E status \in (IF j \in MayFail THEN Final ELSE {"done"}) :
        rows' = [rows EXCEPT ![j] = status]
    /\ UNCHANGED <<reruns, page, upload, jobsList, requests, errors>>

(***************************************************************************)
(* The wizard                                                              *)
(***************************************************************************)

Shows(step) == page = "upload" /\ wizard.step = step

OnlyWizard == UNCHANGED <<server, page, parsing, ingest, polling, late,
                          jobsList, requests, errors>>

\* While a file is parsed the page shows nothing to pick one with.
CanPick == Shows("select") /\ ~wizard.isParsing

\* The last page, with the status of the job
Reports(j) == Shows("done") /\ wizard.jobId = j

\* Fault: a second file can be picked while the first one is parsed.
ProcessAnyFile(f) ==
    /\ Shows("select")
    /\ wizard' = [wizard EXCEPT !.file = f, !.ready = FALSE, !.isParsing = TRUE]
    /\ parsing' = parsing \union {f}
    /\ UNCHANGED <<server, page, ingest, polling, late, jobsList, requests, errors>>

\* A file of another type or above 100 MB only shows an error.
ProcessFile(f) ==
    /\ CanPick
    /\ wizard' = [wizard EXCEPT !.file = f, !.ready = FALSE, !.isParsing = TRUE]
    /\ parsing' = parsing \union {f}
    /\ UNCHANGED <<server, page, ingest, polling, late, jobsList, requests, errors>>

\* The worker answers with columns or with an error.
OnMessage(f) ==
    /\ page = "upload" /\ f \in parsing
    /\ parsing' = parsing \ {f}
    /\ \/ wizard' = [wizard EXCEPT !.isParsing = FALSE, !.columnsOf = f, !.step = "map"]
       \/ wizard' = [wizard EXCEPT !.isParsing = FALSE]
    /\ UNCHANGED <<server, page, ingest, polling, late, jobsList, requests, errors>>

\* setMapping and the segment's input
Edit(ready) ==
    /\ Shows("map")
    /\ wizard' = [wizard EXCEPT !.ready = ready]
    /\ OnlyWizard

CanConfirm == wizard.ready /\ ~wizard.isParsing

Turn(from, to) ==
    /\ Shows(from)
    /\ wizard' = [wizard EXCEPT !.step = to]
    /\ OnlyWizard

Back == Turn("map", "select")
Review == CanConfirm /\ Turn("map", "confirm")
EditMapping == Turn("confirm", "map")

\* Bound: one POST at a time.
Submit ==
    /\ Shows("confirm") /\ ingest = None
    /\ ingest' = [file |-> wizard.file, columnsOf |-> wizard.columnsOf, mounted |-> TRUE]
    /\ wizard' = [wizard EXCEPT !.step = "uploading"]
    /\ UNCHANGED <<server, page, parsing, polling, late, jobsList, requests, errors>>

\* The answer of a POST starts the interval.  In a wizard that is destroyed it does
\* so as well, for answers that reach nobody; that interval is left out.
IngestDone(j) ==
    /\ ingest # None /\ rows[j] = None
    /\ rows' = [rows EXCEPT ![j] = "queued"]
    /\ ingest' = None
    /\ IF ingest.mounted
       THEN /\ wizard' = [wizard EXCEPT !.step = "done", !.jobId = j]
            /\ polling' = j
       ELSE UNCHANGED <<wizard, polling>>
    /\ UNCHANGED <<reruns, page, parsing, late, jobsList, requests, errors>>

\* The answer may be lost after the job was queued.
IngestFails ==
    /\ ingest # None /\ errors < MaxErrors
    /\ errors' = errors + 1
    /\ ingest' = None
    /\ wizard' = IF ingest.mounted THEN [wizard EXCEPT !.step = "confirm"] ELSE wizard
    /\ \/ UNCHANGED rows
       \/ \E j \in Jobs : rows[j] = None /\ rows' = [rows EXCEPT ![j] = "queued"]
    /\ UNCHANGED <<reruns, page, parsing, polling, late, jobsList, requests>>

PollTick ==
    /\ polling # None
    /\ Send(polling, Listed[polling])
    /\ UNCHANGED <<server, page, upload, jobsList, errors>>

StopPoll == polling' = None

\* Fault: any answer stops the poll.
PollOnce(r) ==
    /\ \E j \in Jobs : Answered(r, j)
    /\ wizard' = [wizard EXCEPT !.jobStatus = requests[r].answer]
    /\ StopPoll
    /\ UNCHANGED <<server, page, parsing, ingest, late, jobsList, errors>>

\* The answer of any status request, also of an earlier job.
PollAnswer(r) ==
    /\ \E j \in Jobs : Answered(r, j)
    /\ LET status == requests[r].answer
       IN  /\ wizard' = IF status = None THEN wizard
                        ELSE [wizard EXCEPT !.jobStatus = status]
           /\ IF status \in Final \union {None} THEN StopPoll ELSE UNCHANGED polling
    /\ UNCHANGED <<server, page, parsing, ingest, late, jobsList, errors>>

PollFails(r) ==
    /\ \E j \in Jobs : Fails(r, j)
    /\ StopPoll
    /\ UNCHANGED <<server, page, wizard, parsing, ingest, late, jobsList>>

\* Fault: the interval goes on.
ResetKeepsPolling ==
    /\ Shows("done")
    /\ wizard' = EmptyWizard
    /\ late' = (late \/ \E r \in Requests : requests[r] # None)
    /\ UNCHANGED <<server, page, parsing, ingest, polling, jobsList, requests, errors>>

Reset ==
    /\ Shows("done")
    /\ StopPoll
    /\ wizard' = [EmptyWizard EXCEPT !.isParsing = wizard.isParsing]
    /\ late' = (late \/ \E r \in Requests : requests[r] # None)
    /\ UNCHANGED <<server, page, parsing, ingest, jobsList, requests, errors>>

(***************************************************************************)
(* The list of jobs                                                        *)
(***************************************************************************)

\* Fault: a queued job does not count.
ProcessingJobs == {j \in Jobs : list.jobs[j] = "processing"}

LiveJobs == {j \in Jobs : list.jobs[j] \in Live}

LoadJobs ==
    /\ list' = [list EXCEPT !.loading = TRUE]
    /\ Send("list", Listed')

Refresh ==
    /\ page = "jobs" /\ ~list.loading
    /\ UNCHANGED <<server, page, upload, deleting, errors>>
    /\ LoadJobs

\* The interval of ngOnInit: it loads whether or not a load is under way.
ListTick ==
    /\ page = "jobs" /\ LiveJobs # {}
    /\ UNCHANGED <<server, page, upload, deleting, errors>>
    /\ LoadJobs

ListAnswer(r) ==
    /\ Answered(r, "list")
    /\ list' = [jobs |-> requests[r].answer, loading |-> FALSE]
    /\ UNCHANGED <<server, page, upload, deleting, errors>>

ListFails(r) ==
    /\ Fails(r, "list")
    /\ list' = [list EXCEPT !.loading = FALSE]
    /\ UNCHANGED <<server, page, upload, deleting>>

\* Bound: one deletion at a time.
ConfirmDelete(j) ==
    /\ page = "jobs" /\ ~list.loading /\ deleting = None
    /\ list.jobs[j] \notin {None, "processing"}
    /\ list' = [list EXCEPT !.loading = TRUE]
    /\ deleting' = [job |-> j, mounted |-> TRUE]
    /\ UNCHANGED <<server, page, upload, requests, errors>>

DeleteDone ==
    /\ deleting # None
    /\ rows' = [rows EXCEPT ![deleting.job] = "gone"]
    /\ deleting' = None
    /\ IF deleting.mounted THEN LoadJobs ELSE UNCHANGED <<list, requests>>
    /\ UNCHANGED <<reruns, page, upload, errors>>

DeleteFails ==
    /\ deleting # None /\ errors < MaxErrors
    /\ errors' = errors + 1
    /\ deleting' = None
    /\ list' = IF deleting.mounted THEN [list EXCEPT !.loading = FALSE] ELSE list
    /\ rows' \in {rows, [rows EXCEPT ![deleting.job] = "gone"]}
    /\ UNCHANGED <<reruns, page, upload, requests>>

(***************************************************************************)
(* The router                                                              *)
(***************************************************************************)

OpenUpload ==
    /\ page = "away"
    /\ page' = "upload"
    /\ UNCHANGED <<server, upload, jobsList, requests, errors>>

\* ngOnInit of the list
OpenJobs ==
    /\ page = "away"
    /\ page' = "jobs"
    /\ UNCHANGED <<server, upload, deleting, errors>>
    /\ LoadJobs

\* A page is destroyed.  The answers to its reads reach nobody.
Leave ==
    /\ page # "away"
    /\ page' = "away"
    /\ StopPoll /\ late' = FALSE
    /\ wizard' = EmptyWizard /\ list' = EmptyList
    /\ parsing' = {} /\ requests' = Lost
    /\ ingest' = IF ingest = None THEN None ELSE [ingest EXCEPT !.mounted = FALSE]
    /\ deleting' = IF deleting = None THEN None ELSE [deleting EXCEPT !.mounted = FALSE]
    /\ UNCHANGED <<server, errors>>

Next ==
    \/ \E j \in Jobs : Take(j) \/ Finish(j) \/ IngestDone(j) \/ ConfirmDelete(j)
    \/ \E r \in Requests : \/ PollAnswer(r) \/ PollFails(r)
                          \/ ListAnswer(r) \/ ListFails(r)
    \/ \E f \in Files : ProcessFile(f) \/ OnMessage(f)
    \/ \E ready \in BOOLEAN : Edit(ready)
    \/ Back \/ Review \/ EditMapping \/ Submit \/ IngestFails
    \/ PollTick \/ Reset
    \/ Refresh \/ ListTick \/ DeleteDone \/ DeleteFails
    \/ OpenUpload \/ OpenJobs \/ Leave

\* Timers fire and requests are answered; what users, jobs and faults do is theirs.
Fairness ==
    /\ WF_vars(PollTick) /\ WF_vars(ListTick)
    /\ \A r \in Requests :
        WF_vars(PollAnswer(r)) /\ WF_vars(ListAnswer(r))

Spec == Init /\ [][Next]_vars
FairSpec == Spec /\ Fairness

(***************************************************************************)
(* Properties                                                              *)
(***************************************************************************)

\* The mapping that is sent with a file was made from the columns of that file: the
\* wizard clears the mapping and waits for the parse worker (upload.component.ts).
MappingIsOfFile == ingest # None => ingest.columnsOf = ingest.file

\* The status on the wizard's last page is one its own job had.  It may have another by
\* now, though no deletion took it: only when it ran again, after a failed attempt or
\* because its worker was killed between the UPDATE 'done' and the queue
\* (normaliserWorker.ts:166, 83); a page that saw 'done' has stopped asking.
\* A status request that was under way when "Upload another file" was pressed is not
\* cancelled: its late answer shows the earlier job's status, and stops the poll if
\* that is final.
StatusIsOfThisJob ==
    \A j \in Jobs : Reports(j) /\ ~late =>
        CASE wizard.jobStatus = "queued" -> TRUE
          [] wizard.jobStatus = "processing" -> rows[j] # "queued"
          [] wizard.jobStatus \in Final ->
                rows[j] \in {wizard.jobStatus, "gone"} \/ reruns[j] > 0

\* "page updates every 2 s": as long as the page polls a job that has settled, it
\* will show an outcome, unless a request fails, which stops the poll for good, or
\* the job is deleted.  It need not keep showing it: an answer that was overtaken by
\* the final one puts 'processing' back when nothing is polled any more.
OutcomeIsShown ==
    \A j \in Jobs :
        (polling = j /\ Settled(j)) ~>
            \/ wizard.jobStatus \in Final
            \/ ~Reports(j)
            \/ errors > 0 \/ rows[j] = "gone"

\* "Auto-refreshes every 5 s while any job is in a non-terminal state": a settled
\* job is not listed as live for ever, whatever fails or arrives late.  What stands
\* there instead may be old: a first attempt's 'failed', or a list from before the
\* job was there that was overtaken.
ListCatchesUp ==
    \A j \in Jobs :
        (page = "jobs" /\ list.jobs[j] \in Live /\ Settled(j)) ~>
            \/ list.jobs[j] \notin Live
            \/ page # "jobs"
=============================================================================
