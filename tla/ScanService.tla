----------------------------- MODULE ScanService -----------------------------
(***************************************************************************)
(* The life of scan submissions in the backend process: the coroutine of   *)
(* POST /api/v1/scans with its upload reservation (api/v1/scans.py), the   *)
(* thread that runs ScanService.create_and_submit_scan                     *)
(* (services/scan_service.py), the scans table as ScanRepository writes it *)
(* (repositories/scan.py), the workspace directories, the shared job       *)
(* runner, and start-up recovery (main.py).                                *)
(*                                                                         *)
(* The pieces with a module of their own are instantiated: UploadAdmission *)
(* for the slots, JobRunnerSpec for the runner (ProcessJobRunner shows     *)
(* that the pipe protocol implements it).  What they share is here: a      *)
(* thread reads the table, is overtaken by the other threads and writes    *)
(* later; a write may fail, or be applied and reported as failed; the      *)
(* client may go away; the process may be killed between any two steps     *)
(* and be started again over the same table and the same directories.      *)
(***************************************************************************)
EXTENDS Naturals, Sequences, FiniteSets

CONSTANTS
    Requests,           \* submissions, each at most one row, directory, job
    Clients,            \* authenticated client identities
    ClientOf,           \* who sends a submission
    MaxGlobal,          \* settings.max_concurrent_uploads
    MaxPerClient,       \* settings.max_concurrent_uploads_per_client
    MaxActive,          \* settings.max_active_scans
    MaxClientActive,    \* settings.max_concurrent_scans_per_client
    MaxWorkers,         \* settings.max_worker_processes
    MaxDbFaults,        \* bound: database calls that fail
    MaxFsFaults,        \* bound: workspace removals that fail
    MaxRestarts         \* bound: times the process stops

ASSUME ServiceAssumption ==
    /\ ClientOf \in [Requests -> Clients]
    /\ \A n \in {MaxGlobal, MaxPerClient, MaxActive, MaxClientActive, MaxWorkers} :
          n \in Nat \ {0}
    /\ \A n \in {MaxDbFaults, MaxFsFaults, MaxRestarts} : n \in Nat

VARIABLES
    \* the backend process
    server,         \* down, cleaning (in lifespan's start-up loop) or up
    ready,          \* app.state.startup_recovery_complete
    interrupted,    \* recovered ids whose workspace the loop still visits
    \* the submission's coroutine and thread
    pc,             \* where the submission is
    session,        \* its SQLAlchemy Session: nothing ever calls rollback()
    raised,         \* the exception on its way out of the thread, or "no"
    cancelled,      \* the client has gone away while the thread runs
    reply,          \* what the client was answered
    \* UploadAdmission
    globalCount, clientCounts, reservation,
    \* LocalProcessJobRunner
    queue, job, child, sent, outcome,
    \* the database and the disk, which survive the process
    status,         \* Scan.status of the submission's row, or "NONE"
    error,          \* the prefix of Scan.error_message
    stored,         \* submissions with a ScanResult row and an AuditEvent
    workspaces,     \* submissions whose scratch/scans directory exists
    \* faults used up so far
    dbFaults, fsFaults, restarts

serverVars == <<server, ready, interrupted>>
threadVars == <<session, raised, cancelled>>
admissionVars == <<globalCount, clientCounts, reservation>>
runnerVars == <<queue, job, child, sent, outcome>>
tableVars == <<status, error, stored>>
diskVars == <<workspaces, fsFaults>>
faultVars == <<dbFaults, restarts>>
vars == <<serverVars, pc, threadVars, reply, admissionVars, runnerVars,
          tableVars, diskVars, faultVars>>

(* What a child sends: a JobResult with an AnalysisWorkerOutput without or *)
(* with an error_message, or a FAILED JobResult.                           *)
Messages == {"output", "error", "failed"}

Admission == INSTANCE UploadAdmission
Runner == INSTANCE JobRunnerSpec WITH Jobs <- Requests

(* The steps of the thread of create_and_submit_scan, in program order.    *)
ThreadStates ==
    {"count_total", "count_client", "create", "prepare", "reject_clean",
     "reject_status", "start", "submit", "wait", "save", "save_failed", "fail",
     "handler", "cleanup", "cleanup_raise", "respond"}

(* A submission in flight is one whose coroutine is inside the try of      *)
(* create_scan that releases the reservation.                              *)
InFlightStates == ThreadStates \cup {"reading"}

ActiveStatus == {"QUEUED", "RUNNING"}
Terminal == {"COMPLETED", "FAILED"}
Active == {r \in Requests : status[r] \in ActiveStatus}
ActiveOf(c) == {r \in Active : ClientOf[r] = c}

Errors == {"none", "UNTRUSTED_ARCHIVE_REJECTED", "SYSTEM_INTERRUPTED", "WORKER_ERROR",
           "PROCESS_EXECUTION_ERROR", "TIMEOUT_EXCEEDED", "PERSISTENCE_ERROR"}

TypeOK ==
    /\ server \in {"down", "cleaning", "up"}
    /\ ready \in BOOLEAN
    /\ interrupted \subseteq Requests
    /\ pc \in [Requests -> InFlightStates \cup {"idle", "over"}]
    /\ session \in [Requests -> {"ok", "broken"}]
    /\ raised \in [Requests -> {"no", "busy", "invalid", "error"}]
    /\ cancelled \in [Requests -> BOOLEAN]
    /\ reply \in [Requests -> {"none", "accepted", "busy", "invalid", "error",
                               "cancelled", "lost"}]
    /\ Admission!AdmissionTypeOK
    /\ Runner!RunnerTypeOK
    /\ status \in [Requests -> ActiveStatus \cup Terminal \cup {"NONE"}]
    /\ error \in [Requests -> Errors]
    /\ stored \subseteq Requests
    /\ workspaces \subseteq Requests
    /\ dbFaults \in 0..MaxDbFaults
    /\ fsFaults \in 0..MaxFsFaults
    /\ restarts \in 0..MaxRestarts

Init ==
    /\ server = "down" /\ ready = FALSE /\ interrupted = {}
    /\ pc = [r \in Requests |-> "idle"]
    /\ session = [r \in Requests |-> "ok"]
    /\ raised = [r \in Requests |-> "no"]
    /\ cancelled = [r \in Requests |-> FALSE]
    /\ reply = [r \in Requests |-> "none"]
    /\ Admission!AdmissionInit
    /\ Runner!RunnerInit
    /\ status = [r \in Requests |-> "NONE"]
    /\ error = [r \in Requests |-> "none"]
    /\ stored = {}
    /\ workspaces = {}
    /\ dbFaults = 0 /\ fsFaults = 0 /\ restarts = 0

Goto(r, l) == pc' = [pc EXCEPT ![r] = l]

(* An exception that nothing in the thread catches any more. *)
Raise(r, e) == raised' = [raised EXCEPT ![r] = e] /\ Goto(r, "respond")

DbFault == dbFaults < MaxDbFaults /\ dbFaults' = dbFaults + 1

----------------------------------------------------------------------------
(* ScanRepository and cleanup_scan_workspace as their callers see them.    *)

SetStatus(r, s, e) ==
    /\ status' = [status EXCEPT ![r] = s]
    /\ error' = [error EXCEPT ![r] = e]

(* update_status followed by a jump.  An UPDATE without a condition on the *)
(* old status, then COMMIT.  It raises when it could not begin (the        *)
(* session stays usable), when it failed inside the transaction (every     *)
(* later call on the session raises too, for want of a rollback), when the *)
(* COMMIT was applied but not acknowledged, or when the session is already *)
(* unusable.                                                               *)
UpdateStatus(r, s, e, done, failed) ==
    /\ \/ /\ session[r] = "ok"
          /\ SetStatus(r, s, e)
          /\ Goto(r, done)
          /\ UNCHANGED <<session, dbFaults>>
       \/ /\ session[r] = "ok" /\ DbFault
          /\ \E after \in {"ok", "broken"} : session' = [session EXCEPT ![r] = after]
          /\ Goto(r, failed)
          /\ UNCHANGED <<status, error>>
       \/ /\ session[r] = "ok" /\ DbFault
          /\ session' = [session EXCEPT ![r] = "broken"]
          /\ SetStatus(r, s, e)
          /\ Goto(r, failed)
       \/ /\ session[r] = "broken"
          /\ Goto(r, failed)
          /\ UNCHANGED <<session, dbFaults, status, error>>
    /\ UNCHANGED <<serverVars, raised, cancelled, reply, admissionVars, runnerVars,
                   stored, diskVars, restarts>>

(* cleanup_scan_workspace: removes the directory, or returns False.        *)
CleanWorkspace(r) ==
    /\ workspaces' = workspaces \ {r}
    /\ UNCHANGED fsFaults

CleanWorkspaceFails(r) ==
    /\ r \in workspaces
    /\ fsFaults < MaxFsFaults /\ fsFaults' = fsFaults + 1
    /\ UNCHANGED workspaces

(* The Session of the request and the frames of its calls are gone.        *)
DropThread(r) ==
    /\ session' = [session EXCEPT ![r] = "ok"]
    /\ raised' = [raised EXCEPT ![r] = "no"]
    /\ cancelled' = [cancelled EXCEPT ![r] = FALSE]

(* Mutant of EndRequest: the slot is released after a success only.        *)
EndRequestNoFinally(r, answer) ==
    /\ Goto(r, "over")
    /\ reply' = [reply EXCEPT ![r] = answer]
    /\ DropThread(r)
    /\ IF answer = "accepted" THEN Admission!Release(r) ELSE UNCHANGED admissionVars

(* The finally of the endpoint: whatever the coroutine ends with, the      *)
(* reservation is released.                                                *)
EndRequest(r, answer) ==
    /\ Goto(r, "over")
    /\ reply' = [reply EXCEPT ![r] = answer]
    /\ DropThread(r)
    /\ Admission!Release(r)

----------------------------------------------------------------------------
(* The endpoint before its thread.                                         *)

(* try_reserve, or 429 before a byte of the body is read.                  *)
Reserve(r) ==
    /\ server = "up" /\ pc[r] = "idle"
    /\ Admission!TryReserve(r)
    /\ IF Admission!HasSlot(ClientOf[r])
       THEN Goto(r, "reading") /\ UNCHANGED reply
       ELSE Goto(r, "over") /\ reply' = [reply EXCEPT ![r] = "busy"]
    /\ UNCHANGED <<serverVars, threadVars, runnerVars, tableVars, diskVars, faultVars>>

(* The form and both parts are read, and the thread starts.                *)
UploadRead(r) ==
    /\ pc[r] = "reading"
    /\ Goto(r, "count_total")
    /\ UNCHANGED <<serverVars, threadVars, reply, admissionVars, runnerVars, tableVars,
                   diskVars, faultVars>>

(* 400, 413 or 422 for the form, or 408 when UploadBodyLimitMiddleware's   *)
(* deadline passes first.                                                  *)
UploadRefused(r) ==
    /\ pc[r] = "reading"
    /\ EndRequest(r, "invalid")
    /\ UNCHANGED <<serverVars, runnerVars, tableVars, diskVars, faultVars>>

(* Mutant of Cancel: a coroutine that does not shield its thread.          *)
CancelUnshielded(r) ==
    /\ pc[r] \in InFlightStates /\ ~cancelled[r]
    /\ cancelled' = [cancelled EXCEPT ![r] = TRUE]
    /\ Admission!Release(r)
    /\ UNCHANGED <<pc, reply, serverVars, session, raised, runnerVars, tableVars, diskVars,
                   faultVars>>

(* Cancellation: it ends a coroutine that is reading, while one that waits *)
(* for its thread only takes note of it.                                   *)
Cancel(r) ==
    /\ \/ /\ pc[r] = "reading"
          /\ EndRequest(r, "cancelled")
       \/ /\ pc[r] \in ThreadStates /\ ~cancelled[r]
          /\ cancelled' = [cancelled EXCEPT ![r] = TRUE]
          /\ UNCHANGED <<pc, session, raised, reply, admissionVars>>
    /\ UNCHANGED <<serverVars, runnerVars, tableVars, diskVars, faultVars>>

----------------------------------------------------------------------------
(* create_and_submit_scan: the two counts, read one after the other and    *)
(* long before the row is written.                                         *)
CountFails(r) ==
    /\ pc[r] \in {"count_total", "count_client"}
    /\ DbFault
    /\ Raise(r, "error")
    /\ UNCHANGED <<serverVars, session, cancelled, reply, admissionVars, runnerVars,
                   tableVars, diskVars, restarts>>

CountTotal(r) ==
    /\ pc[r] = "count_total"
    /\ IF Cardinality(Active) >= MaxActive
       THEN Raise(r, "busy")
       ELSE Goto(r, "count_client") /\ UNCHANGED raised
    /\ UNCHANGED <<serverVars, session, cancelled, reply, admissionVars, runnerVars,
                   tableVars, diskVars, faultVars>>

CountClient(r) ==
    /\ pc[r] = "count_client"
    /\ IF Cardinality(ActiveOf(ClientOf[r])) >= MaxClientActive
       THEN Raise(r, "busy")
       ELSE Goto(r, "create") /\ UNCHANGED raised
    /\ UNCHANGED <<serverVars, session, cancelled, reply, admissionVars, runnerVars,
                   tableVars, diskVars, faultVars>>

(* validate_spec_upload, validate_source_archive_filename: ValueError.     *)
InputInvalid(r) ==
    /\ pc[r] = "create"
    /\ Raise(r, "invalid")
    /\ UNCHANGED <<serverVars, session, cancelled, reply, admissionVars, runnerVars,
                   tableVars, diskVars, faultVars>>

(* repo.create_scan: INSERT, COMMIT, refresh, all before the first try.    *)
(* When COMMIT fails there is no row; when it is applied but refresh fails *)
(* there is one that no handler knows of.                                  *)
CreateRow(r) ==
    /\ pc[r] = "create"
    /\ \/ /\ SetStatus(r, "QUEUED", "none")
          /\ Goto(r, "prepare")
          /\ UNCHANGED <<raised, dbFaults>>
       \/ /\ DbFault
          /\ SetStatus(r, "QUEUED", "none") \/ UNCHANGED <<status, error>>
          /\ Raise(r, "error")
    /\ UNCHANGED <<serverVars, session, cancelled, reply, admissionVars, runnerVars,
                   stored, diskVars, restarts>>

(* mkdir and extract_source_archive.                                       *)
Prepare(r) ==
    /\ pc[r] = "prepare"
    /\ workspaces' = workspaces \cup {r}
    /\ Goto(r, "start")
    /\ UNCHANGED <<serverVars, threadVars, reply, admissionVars, runnerVars, tableVars,
                   fsFaults, faultVars>>

(* They raise, before or after the directory exists: an Exception becomes  *)
(* ValueError (400), any other BaseException goes on as it is.             *)
PrepareFails(r) ==
    /\ pc[r] = "prepare"
    /\ workspaces' \in {workspaces, workspaces \cup {r}}
    /\ \E e \in {"invalid", "error"} : raised' = [raised EXCEPT ![r] = e]
    /\ Goto(r, "reject_clean")
    /\ UNCHANGED <<serverVars, session, cancelled, reply, admissionVars, runnerVars,
                   tableVars, fsFaults, faultVars>>

RejectClean(r) ==
    /\ pc[r] = "reject_clean"
    /\ CleanWorkspace(r) \/ CleanWorkspaceFails(r)
    /\ Goto(r, "reject_status")
    /\ UNCHANGED <<serverVars, threadVars, reply, admissionVars, runnerVars, tableVars,
                   faultVars>>

(* Mutant of RejectStatus: the row of a rejected upload is left as it is.  *)
RejectForgetsStatus(r) ==
    /\ pc[r] = "reject_status"
    /\ Goto(r, "respond")
    /\ UNCHANGED <<serverVars, threadVars, reply, admissionVars, runnerVars, tableVars,
                   diskVars, faultVars>>

(* The FAILED status of a rejected upload; a database error is logged and  *)
(* swallowed.                                                              *)
RejectStatus(r) ==
    /\ pc[r] = "reject_status"
    /\ UpdateStatus(r, "FAILED",
          IF raised[r] = "invalid" THEN "UNTRUSTED_ARCHIVE_REJECTED" ELSE "SYSTEM_INTERRUPTED",
          "respond", "respond")

----------------------------------------------------------------------------
(* _execute_scan_job.                                                      *)

MarkRunning(r) ==
    /\ pc[r] = "start"
    /\ UpdateStatus(r, "RUNNING", "none", "submit", "handler")

SubmitJob(r) ==
    /\ pc[r] = "submit"
    /\ Runner!Submit(r)
    /\ Goto(r, "wait")
    /\ UNCHANGED <<serverVars, threadVars, reply, admissionVars, tableVars, diskVars,
                   faultVars>>

(* Mutant of TakeResult: the thread does not wait for run() to return.     *)
TakeResultEarly(r) ==
    /\ pc[r] = "wait"
    /\ Goto(r, IF outcome[r] = "output" THEN "save" ELSE "fail")
    /\ UNCHANGED <<serverVars, threadVars, reply, admissionVars, runnerVars, tableVars,
                   diskVars, faultVars>>

(* run() has returned: COMPLETED with a result, or anything else.          *)
TakeResult(r) ==
    /\ pc[r] = "wait" /\ job[r] = "returned"
    /\ Goto(r, IF outcome[r] = "output" THEN "save" ELSE "fail")
    /\ UNCHANGED <<serverVars, threadVars, reply, admissionVars, runnerVars, tableVars,
                   diskVars, faultVars>>

CauseOf(o) ==
    CASE o = "error" -> "WORKER_ERROR"
      [] o = "timeout" -> "TIMEOUT_EXCEEDED"
      [] OTHER -> "PROCESS_EXECUTION_ERROR"

FailScan(r) ==
    /\ pc[r] = "fail"
    /\ UpdateStatus(r, "FAILED", CauseOf(outcome[r]), "cleanup", "handler")

(* Mutant of SaveOutput: the status is committed before the result.        *)
SaveStatusFirst(r) ==
    /\ pc[r] = "save"
    /\ status' = [status EXCEPT ![r] = "COMPLETED"]
    /\ \/ stored' = stored \cup {r} /\ Goto(r, "cleanup") /\ UNCHANGED dbFaults
       \/ DbFault /\ Goto(r, "save_failed") /\ UNCHANGED stored
    /\ UNCHANGED <<serverVars, threadVars, reply, admissionVars, runnerVars, error,
                   diskVars, restarts>>

(* save_worker_output: status, ScanResult and AuditEvent in one COMMIT,    *)
(* then a refresh.  It raises with nothing written, or with everything     *)
(* written and the refresh or the acknowledgement lost.                    *)
SaveOutput(r) ==
    /\ pc[r] = "save"
    /\ \/ /\ status' = [status EXCEPT ![r] = "COMPLETED"]
          /\ stored' = stored \cup {r}
          /\ Goto(r, "cleanup")
          /\ UNCHANGED <<session, dbFaults>>
       \/ /\ DbFault
          /\ \E after \in {"ok", "broken"} : session' = [session EXCEPT ![r] = after]
          /\ \/ UNCHANGED <<status, stored>>
             \/ /\ status' = [status EXCEPT ![r] = "COMPLETED"]
                /\ stored' = stored \cup {r}
          /\ Goto(r, "save_failed")
    /\ UNCHANGED <<serverVars, raised, cancelled, reply, admissionVars, runnerVars, error,
                   diskVars, restarts>>

SaveFailed(r) ==
    /\ pc[r] = "save_failed"
    /\ UpdateStatus(r, "FAILED", "PERSISTENCE_ERROR", "cleanup", "handler")

(* The outer except: one more update_status on the same session; when it   *)
(* raises too, the exception leaves the thread after the finally.          *)
Handler(r) ==
    /\ pc[r] = "handler"
    /\ UpdateStatus(r, "FAILED", "PROCESS_EXECUTION_ERROR", "cleanup", "cleanup_raise")

(* Mutants of Cleanup: a finally that swallows the exception, and a        *)
(* removal that is not in the finally.                                     *)
CleanupSwallows(r) ==
    /\ pc[r] \in {"cleanup", "cleanup_raise"}
    /\ CleanWorkspace(r) \/ CleanWorkspaceFails(r)
    /\ Goto(r, "respond")
    /\ UNCHANGED <<serverVars, threadVars, reply, admissionVars, runnerVars, tableVars,
                   faultVars>>

CleanupOnSuccess(r) ==
    /\ pc[r] \in {"cleanup", "cleanup_raise"}
    /\ IF pc[r] = "cleanup"
       THEN CleanWorkspace(r) /\ UNCHANGED raised
       ELSE UNCHANGED diskVars /\ raised' = [raised EXCEPT ![r] = "error"]
    /\ Goto(r, "respond")
    /\ UNCHANGED <<serverVars, session, cancelled, reply, admissionVars, runnerVars,
                   tableVars, faultVars>>

(* The finally; the Boolean that cleanup_scan_workspace returns is dropped.*)
Cleanup(r) ==
    /\ pc[r] \in {"cleanup", "cleanup_raise"}
    /\ CleanWorkspace(r) \/ CleanWorkspaceFails(r)
    /\ IF pc[r] = "cleanup" THEN UNCHANGED raised
       ELSE raised' = [raised EXCEPT ![r] = "error"]
    /\ Goto(r, "respond")
    /\ UNCHANGED <<serverVars, session, cancelled, reply, admissionVars, runnerVars,
                   tableVars, faultVars>>

(* Back in the coroutine.  The thread's exception becomes the answer; a    *)
(* cancellation that was noted ends the request instead, unless the        *)
(* exception arrives at the await first (RequestOrchestration looks        *)
(* closer).  Otherwise the row is read once more for the 202.              *)
Respond(r) ==
    /\ pc[r] = "respond"
    /\ \/ raised[r] # "no" /\ EndRequest(r, raised[r]) /\ UNCHANGED dbFaults
       \/ cancelled[r] /\ EndRequest(r, "cancelled") /\ UNCHANGED dbFaults
       \/ /\ raised[r] = "no" /\ ~cancelled[r]
          /\ \/ session[r] = "ok" /\ EndRequest(r, "accepted") /\ UNCHANGED dbFaults
             \/ session[r] = "ok" /\ DbFault /\ EndRequest(r, "error")
             \/ session[r] = "broken" /\ EndRequest(r, "error") /\ UNCHANGED dbFaults
    /\ UNCHANGED <<serverVars, runnerVars, tableVars, diskVars, restarts>>

----------------------------------------------------------------------------
(* The runner's own steps, taken by its threads and the child processes.   *)
RunnerStep(r) ==
    /\ Runner!Start(r) \/ Runner!ChildStarts(r) \/ Runner!Ends(r) \/ Runner!Returns(r)
    /\ UNCHANGED <<serverVars, pc, threadVars, reply, admissionVars, tableVars, diskVars,
                   faultVars>>

----------------------------------------------------------------------------
(* The process.                                                            *)

(* The process is killed.  Its memory is gone, and so are its sockets; the *)
(* table and the directories are not.  A child that survives as an orphan  *)
(* can only read a directory and fail to write a pipe.                     *)
Crash ==
    /\ server # "down"
    /\ restarts < MaxRestarts /\ restarts' = restarts + 1
    /\ server' = "down" /\ ready' = FALSE /\ interrupted' = {}
    /\ pc' = [r \in Requests |-> IF pc[r] = "idle" THEN "idle" ELSE "over"]
    /\ reply' = [r \in Requests |-> IF pc[r] \in InFlightStates THEN "lost" ELSE reply[r]]
    /\ globalCount' = 0
    /\ clientCounts' = [c \in {} |-> 0]
    /\ reservation' = [r \in Requests |->
                          IF reservation[r] = "held" THEN "released" ELSE reservation[r]]
    /\ queue' = <<>>
    /\ job' = [r \in Requests |-> IF job[r] = "returned" THEN "returned" ELSE "idle"]
    /\ child' = [r \in Requests |-> IF child[r] = "alive" THEN "dead" ELSE child[r]]
    /\ session' = [r \in Requests |-> "ok"]
    /\ raised' = [r \in Requests |-> "no"]
    /\ cancelled' = [r \in Requests |-> FALSE]
    /\ UNCHANGED <<sent, outcome, tableVars, diskVars, dbFaults>>

(* A graceful stop: uvicorn waits for the requests, lifespan for the       *)
(* runner.                                                                 *)
Shutdown ==
    /\ server = "up"
    /\ \A r \in Requests : pc[r] \in {"idle", "over"}
    /\ restarts < MaxRestarts /\ restarts' = restarts + 1
    /\ server' = "down" /\ ready' = FALSE
    /\ UNCHANGED <<interrupted, pc, threadVars, reply, admissionVars, runnerVars, tableVars,
                   diskVars, dbFaults>>

(* Mutants of RecoverTable: RUNNING rows only, and every row.              *)
RecoverRunningOnly ==
    /\ status' = [r \in Requests |->
                     IF status[r] = "RUNNING" THEN "FAILED" ELSE status[r]]
    /\ error' = [r \in Requests |->
                    IF status[r] = "RUNNING" THEN "SYSTEM_INTERRUPTED" ELSE error[r]]

RecoverEveryRow ==
    /\ status' = [r \in Requests |-> IF status[r] = "NONE" THEN "NONE" ELSE "FAILED"]
    /\ error' = [r \in Requests |->
                    IF status[r] = "NONE" THEN error[r] ELSE "SYSTEM_INTERRUPTED"]

(* recover_interrupted_scans: every active row becomes FAILED in one       *)
(* committed UPDATE ... RETURNING.                                         *)
RecoverTable ==
    /\ status' = [r \in Requests |-> IF r \in Active THEN "FAILED" ELSE status[r]]
    /\ error' = [r \in Requests |-> IF r \in Active THEN "SYSTEM_INTERRUPTED" ELSE error[r]]

(* lifespan up to its loop.  When recovery raises, the server serves all   *)
(* the same and is never ready.                                            *)
StartUp ==
    /\ server = "down"
    /\ \/ /\ RecoverTable
          /\ server' = "cleaning" /\ interrupted' = Active
          /\ UNCHANGED dbFaults
       \/ /\ DbFault
          /\ RecoverTable \/ UNCHANGED <<status, error>>
          /\ server' = "up" /\ UNCHANGED interrupted
    /\ UNCHANGED <<ready, pc, threadVars, reply, admissionVars, runnerVars, stored,
                   diskVars, restarts>>

(* One turn of the loop; False from cleanup_scan_workspace raises OSError. *)
CleanInterrupted(r) ==
    /\ server = "cleaning" /\ r \in interrupted
    /\ \/ /\ CleanWorkspace(r)
          /\ interrupted' = interrupted \ {r}
          /\ UNCHANGED server
       \/ /\ CleanWorkspaceFails(r)
          /\ interrupted' = {}
          /\ server' = "up"
    /\ UNCHANGED <<ready, pc, threadVars, reply, admissionVars, runnerVars, tableVars,
                   faultVars>>

RecoveryComplete ==
    /\ server = "cleaning" /\ interrupted = {}
    /\ server' = "up" /\ ready' = TRUE
    /\ UNCHANGED <<interrupted, pc, threadVars, reply, admissionVars, runnerVars, tableVars,
                   diskVars, faultVars>>

----------------------------------------------------------------------------
ThreadStep(r) ==
    \/ CountFails(r) \/ CountTotal(r) \/ CountClient(r) \/ InputInvalid(r)
    \/ CreateRow(r) \/ Prepare(r) \/ PrepareFails(r) \/ RejectClean(r)
    \/ RejectStatus(r) \/ MarkRunning(r) \/ SubmitJob(r) \/ TakeResult(r)
    \/ FailScan(r) \/ SaveOutput(r) \/ SaveFailed(r) \/ Handler(r) \/ Cleanup(r)
    \/ Respond(r)

UploadEnds(r) == UploadRead(r) \/ UploadRefused(r)

StartUpStep == StartUp \/ RecoveryComplete \/ \E r \in Requests : CleanInterrupted(r)

Next ==
    \/ \E r \in Requests :
          Reserve(r) \/ UploadEnds(r) \/ Cancel(r) \/ ThreadStep(r) \/ RunnerStep(r)
    \/ Crash \/ Shutdown \/ StartUpStep

Spec == Init /\ [][Next]_vars

(* Threads run; the body of an upload is read, refused or given up at the  *)
(* middleware's deadline; the runner's deadline ends every job; a process  *)
(* that stopped is started again.  No client owes anything.                *)
Fairness ==
    /\ \A r \in Requests : /\ WF_vars(UploadEnds(r))
                           /\ WF_vars(ThreadStep(r))
                           /\ WF_vars(RunnerStep(r))
    /\ WF_vars(StartUpStep)

FairSpec == Spec /\ Fairness

----------------------------------------------------------------------------
(* Admission covers the whole life of the thread: exactly the submissions  *)
(* in flight hold a slot, also after the client has gone.  "A cancelled    *)
(* request must not release admission while its synchronous worker thread  *)
(* can still persist scan state or use the workspace" (scans.py:209-210).  *)
SlotHeldInFlight ==
    \A r \in Requests : reservation[r] = "held" <=> pc[r] \in InFlightStates

(* The directory a live analysis process reads is never removed under it,  *)
(* neither by the thread's cleanup nor by start-up recovery                *)
(* (jobs/runner.py:130-132, scan_service.py:233-235).                      *)
ChildHasWorkspace ==
    \A r \in Requests : child[r] = "alive" => r \in workspaces

(* A 202 is given only for a scan that is over and stays over, whatever    *)
(* database calls failed on the way (scan_service.py:171-237,              *)
(* scans.py:232-245): the poller never sees an accepted scan hang.         *)
AcceptedIsSettled ==
    \A r \in Requests : reply[r] = "accepted" => status[r] \in Terminal

(* A COMPLETED row has its result and its audit event: they are one        *)
(* transaction (repositories/scan.py:199-235).                             *)
CompletedHasResult ==
    \A r \in Requests :
        status[r] = "COMPLETED" => r \in stored /\ outcome[r] = "output"

(* Extracted uploads do not pile up: a directory belongs to a submission   *)
(* whose thread will remove it, or to one that a crash cut off, provided   *)
(* removals succeed (scan_service.py:136, 146, 235).                       *)
WorkspaceReclaimed ==
    \A r \in workspaces :
        \/ pc[r] \in {"start", "submit", "wait", "save", "save_failed", "fail", "handler",
                      "cleanup", "cleanup_raise", "reject_clean"}
        \/ reply[r] = "lost"

(* The counts are read before the insert and not under a lock, and rows    *)
(* that a failed write left behind are counted too.  The excess over the   *)
(* documented limits is still bounded, by the upload slots                 *)
(* (scan_service.py:84-97, upload_admission.py:36-44).                     *)
BacklogBounded ==
    /\ Cardinality(Active) < MaxActive + MaxGlobal
    /\ \A c \in Clients : Cardinality(ActiveOf(c)) < MaxClientActive + MaxPerClient

(* Readiness is announced only over a table without interrupted scans      *)
(* (main.py:29-33).                                                        *)
ReadyAfterRecovery == [][~ready /\ ready' => Active = {}]_vars

(* As long as database calls succeed: an active row of a running server    *)
(* has a thread that will finish it (scan_service.py:108-157, 178-231,     *)
(* repositories/scan.py:239-253).                                          *)
ActiveRowHasThread ==
    server = "up" => \A r \in Active : pc[r] \in ThreadStates

(* Nothing serialises the counts with the insert: what really bounds the   *)
(* concurrent scans, as long as no database call has failed, is the upload *)
(* admission (scan_service.py:84-119, scans.py:172-247).  The limits       *)
(* max_active_scans and max_concurrent_scans_per_client hold when the      *)
(* upload limits do not exceed them.                                       *)
ActiveWithinSlots ==
    server = "up" /\ dbFaults = 0 =>
        /\ Cardinality(Active) <= MaxGlobal
        /\ \A c \in Clients : Cardinality(ActiveOf(c)) <= MaxPerClient

(* A slot is never lost: whatever fails, is cancelled or crashes, it comes *)
(* back (scans.py:246-247).                                                *)
SlotComesBack ==
    \A r \in Requests : (reservation[r] = "held") ~> (reservation[r] # "held")

----------------------------------------------------------------------------
(* What the service promises about one scan, as an abstract machine, which *)
(* tells an acceptance and a refusal for want of room from other answers.  *)
Shown == {"accepted", "busy", "none"}
AnswerView == [r \in Requests |-> IF reply[r] \in Shown THEN reply[r] ELSE "other"]

Lifecycle == INSTANCE ScanLifecycle WITH result <- stored, answer <- AnswerView

ImplementsLifecycle == Lifecycle!Spec
==============================================================================
