--------------------------- MODULE MCScanService ---------------------------
(* ScanService for TLC, with one client for every submission; and claims   *)
(* that the documents and the tests make and the code does not keep.       *)
EXTENDS ScanService, TLC
CONSTANTS r1, r2, r3, c1, c2

MCOneClient == [r \in Requests |-> c1]
MCSymmetry == Permutations(Requests)

----------------------------------------------------------------------------
(* test_persistence_failure_handling asserts that a scan whose result      *)
(* cannot be saved ends FAILED (test_phase5_worker_recovery.py:314): once  *)
(* the submission of an analysed scan is over, its row is terminal.        *)
PersistenceFailureIsRecorded ==
    \A r \in Requests :
        (server = "up" /\ pc[r] = "over" /\ outcome[r] = "output") => status[r] \in Terminal

(* "/health/ready reports ready only after startup recovery marks          *)
(* interrupted scans failed, removes their per-scan workspaces"            *)
(* (THREAT_MODEL.md:175-176).                                              *)
ReadyMeansReconciled ==
    ready => \A r \in Requests : reply[r] = "lost" /\ error[r] = "SYSTEM_INTERRUPTED"
                                    => r \notin workspaces
============================================================================
