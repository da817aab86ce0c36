------------------------ MODULE RequestOrchestration ------------------------
(***************************************************************************)
(* _run_scan_orchestration (api/v1/scans.py): the coroutine of a scan      *)
(* request waits for the thread that runs the scan, and must not end       *)
(* before it although it can be cancelled at any moment, any number of     *)
(* times.  It awaits asyncio.shield(operation) in a loop that swallows     *)
(* CancelledError and remembers it.  The steps are those of the event      *)
(* loop: the thread's completion, the completion of the Task, the callback *)
(* that hands it to the shield, and the wake-up of the coroutine are four  *)
(* moments, and a cancellation can come before each of them.               *)
(*                                                                         *)
(* Around it is create_scan, whose finally gives back the slot of          *)
(* UploadAdmission that it took before it read the body.                   *)
(***************************************************************************)
EXTENDS UploadAdmission

CONSTANT
    MaxCancels      \* bound: cancellations delivered to one request

ASSUME OrchestrationAssumption == MaxCancels \in Nat

VARIABLES
    thread,     \* run_in_threadpool(create_and_submit_scan)
    operation,  \* the Task around it
    coroutine,  \* the endpoint: where it is suspended, or finished
    shield,     \* the outer future of asyncio.shield
    mustCancel, \* Task._must_cancel: a cancellation to throw at the wake-up
    requested,  \* the local variable cancellation_requested
    cancels,    \* cancellations delivered to the coroutine so far
    end         \* how the coroutine ended

orchestrationVars ==
    <<thread, operation, coroutine, shield, mustCancel, requested, cancels, end, admissionVars>>

Ends == {"none", "full", "body", "returned", "raised", "cancelled"}

OrchestrationTypeOK ==
    /\ AdmissionTypeOK
    /\ thread \in [Requests -> {"none", "running", "returned", "raised"}]
    /\ operation \in [Requests -> {"none", "pending", "returned", "raised"}]
    /\ coroutine \in [Requests -> {"arrived", "reading", "awaiting", "finished"}]
    /\ shield \in [Requests -> {"none", "pending", "returned", "raised", "cancelled"}]
    /\ mustCancel \in [Requests -> BOOLEAN]
    /\ requested \in [Requests -> BOOLEAN]
    /\ cancels \in [Requests -> 0..MaxCancels]
    /\ end \in [Requests -> Ends]

OrchestrationInit ==
    /\ AdmissionInit
    /\ thread = [r \in Requests |-> "none"]
    /\ operation = [r \in Requests |-> "none"]
    /\ coroutine = [r \in Requests |-> "arrived"]
    /\ shield = [r \in Requests |-> "none"]
    /\ mustCancel = [r \in Requests |-> FALSE]
    /\ requested = [r \in Requests |-> FALSE]
    /\ cancels = [r \in Requests |-> 0]
    /\ end = [r \in Requests |-> "none"]

(* try_reserve, before the body is read; 429 without a slot.               *)
Reserve(r) ==
    /\ coroutine[r] = "arrived"
    /\ TryReserve(r)
    /\ IF reservation'[r] = "held"
       THEN coroutine' = [coroutine EXCEPT ![r] = "reading"] /\ UNCHANGED end
       ELSE /\ coroutine' = [coroutine EXCEPT ![r] = "finished"]
            /\ end' = [end EXCEPT ![r] = "full"]
    /\ UNCHANGED <<thread, operation, shield, mustCancel, requested, cancels>>

(* create_task, the first test of the loop, and the first await. *)
Begin(r) ==
    /\ coroutine[r] = "reading"
    /\ coroutine' = [coroutine EXCEPT ![r] = "awaiting"]
    /\ thread' = [thread EXCEPT ![r] = "running"]
    /\ operation' = [operation EXCEPT ![r] = "pending"]
    /\ shield' = [shield EXCEPT ![r] = "pending"]
    /\ UNCHANGED <<mustCancel, requested, cancels, end, admissionVars>>

ThreadEnds(r) ==
    /\ thread[r] = "running"
    /\ \E how \in {"returned", "raised"} : thread' = [thread EXCEPT ![r] = how]
    /\ UNCHANGED <<operation, coroutine, shield, mustCancel, requested, cancels, end,
                   admissionVars>>

OperationDone(r) ==
    /\ operation[r] = "pending" /\ thread[r] # "running"
    /\ operation' = [operation EXCEPT ![r] = thread[r]]
    /\ UNCHANGED <<thread, coroutine, shield, mustCancel, requested, cancels, end,
                   admissionVars>>

(* The shield's done-callback copies the outcome, unless it was cancelled. *)
ShieldResolves(r) ==
    /\ shield[r] = "pending" /\ operation[r] # "pending"
    /\ shield' = [shield EXCEPT ![r] = operation[r]]
    /\ UNCHANGED <<thread, operation, coroutine, mustCancel, requested, cancels, end,
                   admissionVars>>

(* Task.cancel on the suspended coroutine cancels what it waits for; when  *)
(* that is done already, CancelledError is thrown at the wake-up instead.  *)
Cancel(r) ==
    /\ coroutine[r] = "awaiting" /\ cancels[r] < MaxCancels
    /\ cancels' = [cancels EXCEPT ![r] = @ + 1]
    /\ IF shield[r] = "pending"
       THEN shield' = [shield EXCEPT ![r] = "cancelled"] /\ UNCHANGED mustCancel
       ELSE mustCancel' = [mustCancel EXCEPT ![r] = TRUE] /\ UNCHANGED shield
    /\ UNCHANGED <<thread, operation, coroutine, requested, end, admissionVars>>

(* The coroutine ends, and the endpoint's finally releases the slot.       *)
Finish(r, how) ==
    /\ end' = [end EXCEPT ![r] = how]
    /\ coroutine' = [coroutine EXCEPT ![r] = "finished"]
    /\ Release(r)
    /\ shield' = [shield EXCEPT ![r] = "none"]

(* The form, its parts or the limits on them fail, or the client goes away *)
(* while the body is read: only the endpoint's finally is between that and *)
(* the end.                                                                *)
BodyFails(r) ==
    /\ coroutine[r] = "reading"
    /\ Finish(r, "body")
    /\ UNCHANGED <<thread, operation, mustCancel, requested, cancels>>

Thrown(r) == IF mustCancel[r] THEN "cancelled" ELSE shield[r]

(* Mutant of Resume: one await without the loop; the result is taken,      *)
(* whether there is one or not.                                            *)
ResumeOnce(r) ==
    /\ coroutine[r] = "awaiting" /\ shield[r] # "pending"
    /\ Finish(r, operation[r])
    /\ requested' = [requested EXCEPT ![r] = Thrown(r) = "cancelled"]
    /\ mustCancel' = [mustCancel EXCEPT ![r] = FALSE]
    /\ UNCHANGED <<thread, operation, cancels>>

(* Mutant of Resume: the result is returned although a cancellation was    *)
(* noted before it.                                                        *)
ResumeForgets(r) ==
    /\ coroutine[r] = "awaiting" /\ shield[r] # "pending"
    /\ mustCancel' = [mustCancel EXCEPT ![r] = FALSE]
    /\ IF Thrown(r) = "cancelled" /\ operation[r] = "pending"
       THEN /\ shield' = [shield EXCEPT ![r] = "pending"]
            /\ UNCHANGED <<coroutine, end, admissionVars>>
       ELSE Finish(r, Thrown(r))
    /\ UNCHANGED <<thread, operation, requested, cancels>>

(* Mutant of Resume: the loop goes on as long as a cancellation is noted.  *)
ResumeWhileRequested(r) ==
    /\ coroutine[r] = "awaiting" /\ shield[r] # "pending"
    /\ mustCancel' = [mustCancel EXCEPT ![r] = FALSE]
    /\ IF requested[r] \/ Thrown(r) = "cancelled"
       THEN /\ requested' = [requested EXCEPT ![r] = TRUE]
            /\ shield' = [shield EXCEPT ![r] = "pending"]
            /\ UNCHANGED <<coroutine, end, admissionVars>>
       ELSE Finish(r, Thrown(r)) /\ UNCHANGED requested
    /\ UNCHANGED <<thread, operation, cancels>>

(* The coroutine wakes up.  An exception of the operation leaves the loop  *)
(* and the function at once.  A cancellation is noted; then, and after a   *)
(* normal return, the loop's test decides between another await and the    *)
(* code after it.                                                          *)
Resume(r) ==
    /\ coroutine[r] = "awaiting" /\ shield[r] # "pending"
    /\ mustCancel' = [mustCancel EXCEPT ![r] = FALSE]
    /\ \/ /\ Thrown(r) = "raised"
          /\ Finish(r, "raised")
          /\ UNCHANGED requested
       \/ /\ Thrown(r) = "cancelled"
          /\ requested' = [requested EXCEPT ![r] = TRUE]
          /\ IF operation[r] = "pending"
             THEN /\ shield' = [shield EXCEPT ![r] = "pending"]
                  /\ UNCHANGED <<coroutine, end, admissionVars>>
             ELSE Finish(r, "cancelled")
       \/ /\ Thrown(r) = "returned"
          /\ Finish(r, IF requested[r] THEN "cancelled" ELSE "returned")
          /\ UNCHANGED requested
    /\ UNCHANGED <<thread, operation, cancels>>

OrchestrationNext ==
    \E r \in Requests :
        \/ Reserve(r) \/ BodyFails(r) \/ Begin(r) \/ ThreadEnds(r) \/ OperationDone(r) \/ ShieldResolves(r)
        \/ Cancel(r) \/ Resume(r)

(* The event loop and the thread go on; nobody has to cancel.              *)
OrchestrationFairness ==
    \A r \in Requests : /\ WF_orchestrationVars(ThreadEnds(r))
                        /\ WF_orchestrationVars(OperationDone(r))
                        /\ WF_orchestrationVars(ShieldResolves(r))
                        /\ WF_orchestrationVars(Resume(r))

OrchestrationSpec == OrchestrationInit /\ [][OrchestrationNext]_orchestrationVars /\ OrchestrationFairness

----------------------------------------------------------------------------
(* The slot covers the thread: "A cancelled request must not release       *)
(* admission while its synchronous worker thread can still persist scan    *)
(* state or use the workspace" (scans.py:209-210), however often and       *)
(* whenever the request is cancelled.                                      *)
SlotCoversThread == \A r \in Requests : thread[r] = "running" => reservation[r] = "held"

(* What the request reports is what happened: an answer only if the scan's *)
(* thread returned and nobody cancelled, an error only if it raised, and a *)
(* cancellation only if somebody did cancel (scans.py:91-103).             *)
EndIsTruthful ==
    \A r \in Requests :
        /\ end[r] = "returned" => thread[r] = "returned" /\ cancels[r] = 0
        /\ end[r] = "raised" => thread[r] = "raised"
        /\ end[r] = "cancelled" => cancels[r] > 0

(* The loop cannot be kept waiting by cancellations: once it is awaiting,  *)
(* the coroutine ends (scans.py:92-96).                                    *)
RequestEnds ==
    \A r \in Requests : (coroutine[r] = "awaiting") ~> (coroutine[r] = "finished")
============================================================================
