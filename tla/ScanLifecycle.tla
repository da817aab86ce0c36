--------------------------- MODULE ScanLifecycle ---------------------------
(***************************************************************************)
(* What the users of the scan API may rely on: "QUEUED -> RUNNING ->       *)
(* COMPLETED (or FAILED ...)".  A scan that is over never changes again,   *)
(* has a result exactly when it is COMPLETED, is never left half way, and  *)
(* is over when its submission is answered with 202; a submission answered *)
(* with 429 leaves no scan behind.  ScanService implements this module as  *)
(* long as no database call fails.                                         *)
(***************************************************************************)
EXTENDS FiniteSets

CONSTANT Requests

VARIABLES
    status,     \* the scan of a submission, "NONE" before its row exists
    result,     \* the submissions whose scan has a result
    answer      \* the answer to the submission: accepted, busy or other

vars == <<status, result, answer>>

Unsettled == {r \in Requests : status[r] \in {"QUEUED", "RUNNING"}}

Init ==
    /\ status = [r \in Requests |-> "NONE"]
    /\ result = {}
    /\ answer = [r \in Requests |-> "none"]

Create(r) ==
    /\ status[r] = "NONE" /\ answer[r] = "none"
    /\ status' = [status EXCEPT ![r] = "QUEUED"]
    /\ UNCHANGED <<result, answer>>

Begin(r) ==
    /\ status[r] = "QUEUED"
    /\ status' = [status EXCEPT ![r] = "RUNNING"]
    /\ UNCHANGED <<result, answer>>

Complete(r) ==
    /\ status[r] = "RUNNING"
    /\ status' = [status EXCEPT ![r] = "COMPLETED"]
    /\ result' = result \cup {r}
    /\ UNCHANGED answer

(* One scan fails by itself; a restart fails all that were in progress.    *)
Fail(S) ==
    /\ S # {} /\ S \subseteq Unsettled
    /\ status' = [r \in Requests |-> IF r \in S THEN "FAILED" ELSE status[r]]
    /\ UNCHANGED <<result, answer>>

(* Submissions are answered one by one, or cut off together.               *)
Accept(r) ==
    /\ answer[r] = "none" /\ status[r] \in {"COMPLETED", "FAILED"}
    /\ answer' = [answer EXCEPT ![r] = "accepted"]
    /\ UNCHANGED <<status, result>>

Busy(r) ==
    /\ answer[r] = "none" /\ status[r] = "NONE"
    /\ answer' = [answer EXCEPT ![r] = "busy"]
    /\ UNCHANGED <<status, result>>

AnswerOtherwise(S) ==
    /\ S # {} /\ \A r \in S : answer[r] = "none"
    /\ answer' = [r \in Requests |-> IF r \in S THEN "other" ELSE answer[r]]
    /\ UNCHANGED <<status, result>>

Next ==
    \/ \E r \in Requests : Create(r) \/ Begin(r) \/ Complete(r) \/ Accept(r) \/ Busy(r)
    \/ \E S \in SUBSET Requests : Fail(S) \/ AnswerOtherwise(S)

(* Every scan that was created is over some day. *)
Settles == \A r \in Requests : (r \in Unsettled) ~> (r \notin Unsettled)

Spec == Init /\ [][Next]_vars /\ Settles
============================================================================
