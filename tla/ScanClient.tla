----------------------------- MODULE ScanClient -----------------------------
(***************************************************************************)
(* The analyst's browser on a scan: App.tsx (current screen and selected   *)
(* scan), NewScanScreen.tsx (createScan and what its promise does after    *)
(* it), ScanDetailsScreen.tsx (fetch, poll, refresh, clean-up) and         *)
(* services/api.ts.  The other screens show what they fetched once.        *)
(*                                                                         *)
(* Requests are answered in any order and may fail; the server's status of *)
(* a scan moves meanwhile.  The wire carries the status in lower case      *)
(* (api/v1/scans.py); the screens compare with the upper case form.        *)
(***************************************************************************)
EXTENDS Naturals, Sequences, FiniteSets, Functions

CONSTANTS
    Scans,          \* scans this analyst may submit
    MaxRequests     \* bound: requests on the way at one time

NoScan == "no scan"
Requests == 1 .. MaxRequests
Terminal == {"completed", "failed"}
Upper == [queued |-> "QUEUED", running |-> "RUNNING", completed |-> "COMPLETED", failed |-> "FAILED"]

VARIABLES
    server,     \* status of each scan on the server, "none" before it is created
    screen,     \* currentScreen: new-scan, scan-details, or elsewhere (the others)
    selected,   \* selectedScanId
    creating,   \* scans whose createScan is not answered yet
    shown,      \* the details screen's scan: <<>> or <<[id, status]>>
    results,    \* its results: <<>> or <<id>>
    requests    \* slots: <<>>, or <<[id, kind, answer]>>, answer <<>> until sent

clientVars == <<server, screen, selected, creating, shown, results, requests>>

None == [i \in Requests |-> <<>>]

ClientInit ==
    /\ server = [s \in Scans |-> "none"]
    /\ screen = "elsewhere" /\ selected = NoScan
    /\ creating = {} /\ shown = <<>> /\ results = <<>>
    /\ requests = None

Request(s, kind) == <<[id |-> s, kind |-> kind, answer |-> <<>>]>>

Free == {i \in Requests : requests[i] = <<>>}
FirstOf(slots) == CHOOSE i \in slots : \A j \in slots : i <= j

(* The server's own progress (external).                                   *)
ServerStep(s) ==
    /\ \/ server[s] = "queued" /\ server' = [server EXCEPT ![s] = "running"]
       \/ server[s] = "queued" /\ server' = [server EXCEPT ![s] = "failed"]
       \/ server[s] = "running" /\ \E end \in Terminal : server' = [server EXCEPT ![s] = end]
    /\ UNCHANGED <<screen, selected, creating, shown, results, requests>>

-----------------------------------------------------------------------------
(* handleNavigate and the screen it mounts.  A screen that is left forgets  *)
(* its state and ignores what it asked for; the details screen stays        *)
(* mounted from one scan to another, with what it shows and has asked for,  *)
(* and its effect runs again.                                               *)

Fresh(to, s) == IF to = "scan-details" /\ s # NoScan
                THEN [None EXCEPT ![1] = Request(s, "scan")]
                ELSE None

Navigate(to, s) ==
    /\ screen' = to /\ selected' = s
    /\ IF to = "scan-details" /\ screen = to /\ selected # NoScan
       THEN /\ requests' = IF s # selected /\ Free # {}
                           THEN [requests EXCEPT ![FirstOf(Free)] = Request(s, "scan")]
                           ELSE requests
            /\ UNCHANGED <<shown, results>>
       ELSE /\ shown' = <<>> /\ results' = <<>>
            /\ requests' = Fresh(to, s)

(* The sidebar: dashboard, new assessment and the screens of the selected   *)
(* scan; a scan of the dashboard's list; the header's "clear selected".     *)
GoTo(to) ==
    /\ to \in {"elsewhere", "new-scan"} \/ selected # NoScan
    /\ to # screen
    /\ Navigate(to, selected)
    /\ UNCHANGED <<server, creating>>

Open(s) ==
    /\ screen = "elsewhere" /\ server[s] # "none"
    /\ Navigate("scan-details", s)
    /\ UNCHANGED <<server, creating>>

Clear ==
    /\ screen # "new-scan" /\ selected # NoScan
    /\ selected' = NoScan
    /\ shown' = <<>> /\ results' = <<>> /\ requests' = None
    /\ UNCHANGED <<server, screen, creating>>

(* handleSubmit, past its validations; its promise outlives the screen.     *)
Submit(s) ==
    /\ screen = "new-scan" /\ server[s] = "none" /\ s \notin creating
    /\ creating' = creating \cup {s}
    /\ UNCHANGED <<server, screen, selected, shown, results, requests>>

(* The scan is created; onSelectScan and onNavigate, wherever the user is.  *)
Submitted(s) ==
    /\ s \in creating /\ server[s] = "none"
    /\ creating' = creating \ {s}
    /\ server' = [server EXCEPT ![s] = "queued"]
    /\ screen # "scan-details" \/ selected = NoScan \/ Free # {}
    /\ Navigate("scan-details", s)

(* An error; the scan exists if only the answer was lost.                   *)
SubmitFails(s) ==
    /\ s \in creating
    /\ creating' = creating \ {s}
    /\ \E made \in {"none", "queued"} : server' = [server EXCEPT ![s] = made]
    /\ UNCHANGED <<screen, selected, shown, results, requests>>

-----------------------------------------------------------------------------
(* The details screen.                                                      *)

OnDetails == screen = "scan-details" /\ selected # NoScan

Ask(slots) == requests' = [requests EXCEPT ![FirstOf(slots)] = Request(selected, "scan")]

(* Mutant of Polling: the comparison without toUpperCase().                 *)
PollingAsWritten == shown # <<>> /\ shown[1].status \in {"QUEUED", "RUNNING"}

(* What the interval's callback tests: the status of the scan shown.        *)
Polling == shown # <<>> /\ Upper[shown[1].status] \in {"QUEUED", "RUNNING"}

Poll ==
    /\ OnDetails /\ Polling /\ Free # {}
    /\ Ask(Free)
    /\ UNCHANGED <<server, screen, selected, creating, shown, results>>

(* The buttons Refresh and Retry.                                           *)
Refresh ==
    /\ OnDetails /\ Free # {}
    /\ Ask(Free)
    /\ UNCHANGED <<server, screen, selected, creating, shown, results>>

(* get_scan_status or get_scan_results answers with the row of this moment, *)
(* or the request fails: network, 401, 429, 500.                            *)
Answer(i, a) ==
    /\ requests[i] # <<>> /\ requests[i][1].answer = <<>>
    /\ requests' = [requests EXCEPT ![i] = <<[requests[i][1] EXCEPT !.answer = <<a>>]>>]
    /\ UNCHANGED <<server, screen, selected, creating, shown, results>>

Answered(i) == \E f \in Range(requests[i]) : Answer(i, server[f.id])
Failed(i) == Answer(i, "error")

(* fetchScanData after its await: show the scan, and its results when the   *)
(* status is 'COMPLETED'; a status other than the one shown runs the effect *)
(* again, which fetches the selected scan.                                  *)
Deliver(i) ==
    /\ \E f \in Range(requests[i]) :
          /\ f.answer # <<>>
          /\ LET ok == f.answer # <<"error">>
                 before == IF shown = <<>> THEN "undefined" ELSE shown[1].status
                 wanted == IF f.kind = "scan" /\ ok
                           THEN (IF f.answer[1] = "COMPLETED" THEN {Request(f.id, "results")} ELSE {})
                                \cup (IF f.answer[1] # before THEN {Request(selected, "scan")} ELSE {})
                           ELSE {}
             IN  /\ shown' = IF f.kind = "scan" /\ ok THEN <<[id |-> f.id, status |-> f.answer[1]]>> ELSE shown
                 /\ results' = IF f.kind = "results" /\ ok THEN <<f.id>> ELSE results
                 /\ \E placed \in [wanted -> Free \cup {i}] :
                       /\ IsInjective(placed)
                       /\ requests' = [j \in Requests |->
                              IF \E r \in wanted : placed[r] = j
                              THEN CHOOSE r \in wanted : placed[r] = j
                              ELSE IF j = i THEN <<>> ELSE requests[j]]
    /\ UNCHANGED <<server, screen, selected, creating>>

ClientNext ==
    \/ \E s \in Scans : ServerStep(s) \/ Open(s) \/ Submit(s) \/ Submitted(s) \/ SubmitFails(s)
    \/ \E to \in {"elsewhere", "new-scan", "scan-details"} : GoTo(to)
    \/ Clear \/ Poll \/ Refresh
    \/ \E i \in Requests : Answered(i) \/ Failed(i) \/ Deliver(i)

ClientSpec == ClientInit /\ [][ClientNext]_clientVars

(* Scans end, the interval fires, a request is answered, not always with an *)
(* error, and its continuation runs.                                        *)
ClientFairness ==
    /\ \A s \in Scans : WF_clientVars(ServerStep(s))
    /\ WF_clientVars(Poll)
    /\ \A i \in Requests : /\ SF_clientVars(Answered(i))
                           /\ WF_clientVars(Deliver(i))

ClientFairSpec == ClientSpec /\ ClientFairness

-----------------------------------------------------------------------------
(* A details screen left open on a scan, once it shows anything, comes to   *)
(* show an end: the polling does not stop while the status shown is of a    *)
(* scan in progress, whatever the order of the answers, the errors between  *)
(* them, and a late answer about another scan (ScanDetailsScreen.tsx:70).   *)
PollingReachesEnd ==
    \A s \in Scans :
        (<>[](OnDetails /\ selected = s /\ shown # <<>>))
            => <>[](shown # <<>> /\ shown[1].status \in Terminal)

(* README.md:133: the details screen shows execution metrics; so a          *)
(* completed scan shown, with every answer in, comes with its results.      *)
MetricsShown ==
    (OnDetails /\ requests = None /\ shown # <<>> /\ shown[1].status = "completed") => results # <<>>
=============================================================================
