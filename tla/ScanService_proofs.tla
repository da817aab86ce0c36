------------------------ MODULE ScanService_proofs ------------------------
(***************************************************************************)
(* Proofs about ScanService for any submissions, clients, limits and       *)
(* bounds on faults and restarts.  The strengthening ServiceInv says, for  *)
(* each place a submission can be in, what is true of its row, its         *)
(* directory and its job; the counts of active rows are handled apart,     *)
(* with what is known of the slots from UploadAdmission_proofs.            *)
(***************************************************************************)
EXTENDS ScanService, FiniteSetTheorems, TLAPS

Slots == INSTANCE UploadAdmission_proofs

(* The types of all variables but the counters of the admission. *)
PcTyped == pc \in [Requests -> InFlightStates \cup {"idle", "over"}]

ThreadTyped ==
    /\ session \in [Requests -> {"ok", "broken"}]
    /\ raised \in [Requests -> {"no", "busy", "invalid", "error"}]
    /\ cancelled \in [Requests -> BOOLEAN]
    /\ reply \in [Requests -> {"none", "accepted", "busy", "invalid", "error",
                               "cancelled", "lost"}]
    /\ reservation \in [Requests -> {"none", "refused", "held", "released"}]

StoreTyped ==
    /\ status \in [Requests -> ActiveStatus \cup Terminal \cup {"NONE"}]
    /\ error \in [Requests -> Errors]
    /\ stored \subseteq Requests /\ workspaces \subseteq Requests

ProcessTyped ==
    /\ server \in {"down", "cleaning", "up"} /\ ready \in BOOLEAN
    /\ interrupted \subseteq Requests
    /\ dbFaults \in 0..MaxDbFaults /\ fsFaults \in 0..MaxFsFaults
    /\ restarts \in 0..MaxRestarts

Typed == PcTyped /\ ThreadTyped /\ StoreTyped /\ ProcessTyped /\ Runner!RunnerTypeOK

(* Before a row exists; after it and before the job; after the directory.  *)
NoRowYet == {"idle", "reading", "count_total", "count_client", "create"}
NoJobYet == {"prepare", "reject_clean", "reject_status", "start", "submit"}
HasDirectory ==
    {"start", "submit", "wait", "save", "save_failed", "fail", "handler", "cleanup",
     "cleanup_raise"}

(* The runner's queue holds each waiting job once and nothing else.        *)
QueueInv ==
    /\ \A i \in 1..Len(queue) : job[queue[i]] = "queued"
    /\ \A i, k \in 1..Len(queue) : queue[i] = queue[k] => i = k

(* Requests are served by a server that is up, and recovery has dealt with *)
(* the table when it turns to the directories.                             *)
ServerInv(r) ==
    /\ server # "up" => pc[r] \in {"idle", "over"}
    /\ server = "cleaning" => status[r] \notin ActiveStatus

(* A job is in progress only while its thread waits for it. *)
JobInv(r) ==
    /\ pc[r] \in NoRowYet \cup NoJobYet => job[r] = "idle" /\ child[r] = "none"
    /\ job[r] \in {"queued", "running"} => pc[r] = "wait"
    /\ child[r] = "alive" => job[r] = "running"

(* The row of a submission, by the place of its thread. *)
RowInv(r) ==
    /\ pc[r] \in NoRowYet => status[r] = "NONE"
    /\ pc[r] \in {"prepare", "reject_clean", "reject_status", "start"} => status[r] = "QUEUED"
    /\ pc[r] \in {"submit", "wait", "save", "fail"} => status[r] = "RUNNING"
    /\ pc[r] = "save" => outcome[r] = "output"
    /\ status[r] = "COMPLETED" => r \in stored /\ outcome[r] = "output"

(* How a thread ends: with an exception, which is "busy" only before there *)
(* is a row, or with a row that is over.                                   *)
EndInv(r) ==
    /\ raised[r] = "busy" => pc[r] = "respond" /\ status[r] = "NONE"
    /\ pc[r] \in {"reject_clean", "reject_status"} => raised[r] # "no"
    /\ pc[r] = "cleanup" => status[r] \in Terminal
    /\ pc[r] = "respond" /\ raised[r] = "no" => status[r] \in Terminal
    /\ reply[r] # "none" => pc[r] = "over"
    /\ reply[r] = "accepted" => status[r] \in Terminal

(* A thread that may read its directory has it; without a failed removal,  *)
(* nothing is left behind but by a crash.                                  *)
DiskInv(r) ==
    /\ pc[r] \in HasDirectory => r \in workspaces
    /\ fsFaults = 0 /\ r \in workspaces =>
          pc[r] \in HasDirectory \cup {"reject_clean"} \/ reply[r] = "lost"

(* Without a failed database call, no handler of one is entered, and a row *)
(* that is active under a running server belongs to a thread that has yet  *)
(* to settle it.                                                           *)
SettledInv(r) ==
    dbFaults = 0 =>
        /\ session[r] = "ok" /\ pc[r] \notin {"save_failed", "handler", "cleanup_raise"}
        /\ server = "up" /\ status[r] \in ActiveStatus =>
              pc[r] \in ThreadStates \ {"cleanup", "cleanup_raise", "respond"}

PlaceInv(r) ==
    /\ reservation[r] = "held" <=> pc[r] \in InFlightStates
    /\ ServerInv(r) /\ JobInv(r) /\ RowInv(r) /\ EndInv(r) /\ DiskInv(r) /\ SettledInv(r)

ServiceInv ==
    /\ Typed
    /\ Slots!AdmissionInv
    /\ QueueInv
    /\ \A r \in Requests : PlaceInv(r)

(* The submissions that count as active or have passed a count and may     *)
(* still insert a row: all, and those of one client.                       *)
Counted == Active \cup {r \in Requests : pc[r] \in {"count_client", "create"}}
CountedOf(c) ==
    ActiveOf(c) \cup {r \in Requests : pc[r] = "create" /\ ClientOf[r] = c}

BacklogInv ==
    /\ IsFiniteSet(Counted)
    /\ Cardinality(Counted) < MaxActive + MaxGlobal
    /\ \A c \in Clients : /\ IsFiniteSet(CountedOf(c))
                          /\ Cardinality(CountedOf(c)) < MaxClientActive + MaxPerClient

----------------------------------------------------------------------------
(* A step of submission r: the server stays, nothing of another submission *)
(* changes, and faults only accumulate.                                    *)
StepOf(r) ==
    /\ server' = server
    /\ dbFaults' = 0 => dbFaults = 0
    /\ fsFaults' = 0 => fsFaults = 0
    /\ \A q \in Requests \ {r} :
          /\ pc'[q] = pc[q] /\ reservation'[q] = reservation[q]
          /\ session'[q] = session[q] /\ raised'[q] = raised[q] /\ reply'[q] = reply[q]
          /\ job'[q] = job[q] /\ child'[q] = child[q] /\ outcome'[q] = outcome[q]
          /\ status'[q] = status[q]
          /\ q \in stored <=> q \in stored'
          /\ q \in workspaces <=> q \in workspaces'

LEMMA OthersKept ==
    ASSUME NEW r \in Requests, StepOf(r), NEW q \in Requests \ {r}, PlaceInv(q)
    PROVE  PlaceInv(q)'
  BY DEF StepOf, PlaceInv, ServerInv, JobInv, RowInv, EndInv, DiskInv, SettledInv

(* A write of the row keeps the types and touches no other submission.     *)
LEMMA UpdateTyped ==
    ASSUME ServiceAssumption, Typed, NEW r \in Requests,
           NEW s \in ActiveStatus \cup Terminal, NEW e \in Errors,
           NEW done \in ThreadStates, NEW failed \in ThreadStates,
           UpdateStatus(r, s, e, done, failed)
    PROVE  StepOf(r) /\ Typed'
  <1> USE DEF UpdateStatus, SetStatus, DbFault, Goto, serverVars, admissionVars,
              runnerVars, diskVars
  <1>1. StepOf(r)
    BY DEF StepOf, Typed, PcTyped, ThreadTyped, StoreTyped, ProcessTyped,
           Runner!RunnerTypeOK
  <1>2. PcTyped' /\ ThreadTyped'
    BY DEF Typed, PcTyped, ThreadTyped, InFlightStates
  <1>3. StoreTyped'
    BY DEF Typed, StoreTyped
  <1>4. ProcessTyped' /\ Runner!RunnerTypeOK'
    BY ServiceAssumption DEF ServiceAssumption, Typed, ProcessTyped, Runner!RunnerTypeOK
  <1>5. QED
    BY <1>1, <1>2, <1>3, <1>4 DEF Typed

(* The steps of a submission and its thread keep what is known of it.      *)
LEMMA SubmissionKept ==
    ASSUME ServiceAssumption, Typed, NEW r \in Requests, PlaceInv(r),
           Reserve(r) \/ UploadEnds(r) \/ Cancel(r) \/ ThreadStep(r)
    PROVE  StepOf(r) /\ Typed' /\ PlaceInv(r)'
  <1> USE DEF ServerInv, JobInv, RowInv, EndInv, DiskInv, SettledInv, NoRowYet, NoJobYet,
              HasDirectory, InFlightStates, ThreadStates, ActiveStatus, Terminal,
              serverVars, threadVars, admissionVars, runnerVars, tableVars, diskVars,
              faultVars, Goto
  <1>1. CASE Reserve(r)
    <2> USE <1>1 DEF Reserve, Admission!TryReserve
    <2>1. StepOf(r)
      BY DEF StepOf, Typed, PcTyped, ThreadTyped, StoreTyped, ProcessTyped,
             Runner!RunnerTypeOK
    <2>2. PcTyped' /\ ThreadTyped'
      BY DEF PcTyped, ThreadTyped, Typed
    <2>3. StoreTyped' /\ ProcessTyped' /\ Runner!RunnerTypeOK'
      BY ServiceAssumption
         DEF ServiceAssumption, StoreTyped, Errors, ProcessTyped, Typed, Runner!RunnerTypeOK
    <2>4. PlaceInv(r)'
      BY DEF PlaceInv, Typed, PcTyped, ThreadTyped, StoreTyped, ProcessTyped,
             Runner!RunnerTypeOK
    <2>5. QED
      BY <2>1, <2>2, <2>3, <2>4 DEF Typed
  <1>2. CASE UploadRead(r)
    <2> USE <1>2 DEF UploadRead
    <2>1. StepOf(r)
      BY DEF StepOf, Typed, PcTyped, ThreadTyped, StoreTyped, ProcessTyped,
             Runner!RunnerTypeOK
    <2>2. PcTyped' /\ ThreadTyped'
      BY DEF PcTyped, ThreadTyped, Typed
    <2>3. StoreTyped' /\ ProcessTyped' /\ Runner!RunnerTypeOK'
      BY ServiceAssumption
         DEF ServiceAssumption, StoreTyped, Errors, ProcessTyped, Typed, Runner!RunnerTypeOK
    <2>4. PlaceInv(r)'
      BY DEF PlaceInv, Typed, PcTyped, ThreadTyped, StoreTyped, ProcessTyped,
             Runner!RunnerTypeOK
    <2>5. QED
      BY <2>1, <2>2, <2>3, <2>4 DEF Typed
  <1>3. CASE UploadRefused(r)
    <2> USE <1>3 DEF UploadRefused, EndRequest, DropThread, Admission!Release,
                     Admission!admissionVars
    <2>1. StepOf(r)
      BY DEF StepOf, Typed, PcTyped, ThreadTyped, StoreTyped, ProcessTyped,
             Runner!RunnerTypeOK
    <2>2. PcTyped' /\ ThreadTyped'
      BY DEF PcTyped, ThreadTyped, Typed
    <2>3. StoreTyped' /\ ProcessTyped' /\ Runner!RunnerTypeOK'
      BY ServiceAssumption
         DEF ServiceAssumption, StoreTyped, Errors, ProcessTyped, Typed, Runner!RunnerTypeOK
    <2>4. PlaceInv(r)'
      BY DEF PlaceInv, Typed, PcTyped, ThreadTyped, StoreTyped, ProcessTyped,
             Runner!RunnerTypeOK
    <2>5. QED
      BY <2>1, <2>2, <2>3, <2>4 DEF Typed
  <1>4. CASE Cancel(r)
    <2> USE <1>4 DEF Cancel, EndRequest, DropThread, Admission!Release, Admission!admissionVars
    <2>1. StepOf(r)
      BY DEF StepOf, Typed, PcTyped, ThreadTyped, StoreTyped, ProcessTyped,
             Runner!RunnerTypeOK
    <2>2. PcTyped' /\ ThreadTyped'
      <3>1. PcTyped' /\ reservation' \in [Requests -> {"none", "refused", "held", "released"}]
        BY DEF PcTyped, ThreadTyped, Typed
      <3>2. /\ session' \in [Requests -> {"ok", "broken"}]
            /\ raised' \in [Requests -> {"no", "busy", "invalid", "error"}]
        BY DEF ThreadTyped, Typed
      <3>3. cancelled' \in [Requests -> BOOLEAN]
        BY DEF ThreadTyped, Typed
      <3>4. reply' \in [Requests -> {"none", "accepted", "busy", "invalid", "error",
                                     "cancelled", "lost"}]
        BY DEF ThreadTyped, Typed
      <3> QED BY <3>1, <3>2, <3>3, <3>4 DEF ThreadTyped
    <2>3. StoreTyped' /\ ProcessTyped' /\ Runner!RunnerTypeOK'
      BY ServiceAssumption
         DEF ServiceAssumption, StoreTyped, Errors, ProcessTyped, Typed, Runner!RunnerTypeOK
    <2>4. PlaceInv(r)'
      BY DEF PlaceInv, Typed, PcTyped, ThreadTyped, StoreTyped, ProcessTyped,
             Runner!RunnerTypeOK
    <2>5. QED
      BY <2>1, <2>2, <2>3, <2>4 DEF Typed
  <1>5. CASE CountFails(r)
    <2> USE <1>5 DEF CountFails, DbFault, Raise
    <2>1. StepOf(r)
      BY DEF StepOf, Typed, PcTyped, ThreadTyped, StoreTyped, ProcessTyped,
             Runner!RunnerTypeOK
    <2>2. PcTyped' /\ ThreadTyped'
      BY DEF PcTyped, ThreadTyped, Typed
    <2>3. StoreTyped' /\ ProcessTyped' /\ Runner!RunnerTypeOK'
      BY ServiceAssumption
         DEF ServiceAssumption, StoreTyped, Errors, ProcessTyped, Typed, Runner!RunnerTypeOK
    <2>4. PlaceInv(r)'
      BY DEF PlaceInv, Typed, PcTyped, ThreadTyped, StoreTyped, ProcessTyped,
             Runner!RunnerTypeOK
    <2>5. QED
      BY <2>1, <2>2, <2>3, <2>4 DEF Typed
  <1>6. CASE CountTotal(r)
    <2> USE <1>6 DEF CountTotal, Raise
    <2>1. StepOf(r)
      BY DEF StepOf, Typed, PcTyped, ThreadTyped, StoreTyped, ProcessTyped,
             Runner!RunnerTypeOK
    <2>2. PcTyped' /\ ThreadTyped'
      BY DEF PcTyped, ThreadTyped, Typed
    <2>3. StoreTyped' /\ ProcessTyped' /\ Runner!RunnerTypeOK'
      BY ServiceAssumption
         DEF ServiceAssumption, StoreTyped, Errors, ProcessTyped, Typed, Runner!RunnerTypeOK
    <2>4. PlaceInv(r)'
      BY DEF PlaceInv, Typed, PcTyped, ThreadTyped, StoreTyped, ProcessTyped,
             Runner!RunnerTypeOK
    <2>5. QED
      BY <2>1, <2>2, <2>3, <2>4 DEF Typed
  <1>7. CASE CountClient(r)
    <2> USE <1>7 DEF CountClient, Raise
    <2>1. StepOf(r)
      BY DEF StepOf, Typed, PcTyped, ThreadTyped, StoreTyped, ProcessTyped,
             Runner!RunnerTypeOK
    <2>2. PcTyped' /\ ThreadTyped'
      BY DEF PcTyped, ThreadTyped, Typed
    <2>3. StoreTyped' /\ ProcessTyped' /\ Runner!RunnerTypeOK'
      BY ServiceAssumption
         DEF ServiceAssumption, StoreTyped, Errors, ProcessTyped, Typed, Runner!RunnerTypeOK
    <2>4. PlaceInv(r)'
      BY DEF PlaceInv, Typed, PcTyped, ThreadTyped, StoreTyped, ProcessTyped,
             Runner!RunnerTypeOK
    <2>5. QED
      BY <2>1, <2>2, <2>3, <2>4 DEF Typed
  <1>8. CASE InputInvalid(r)
    <2> USE <1>8 DEF InputInvalid, Raise
    <2>1. StepOf(r)
      BY DEF StepOf, Typed, PcTyped, ThreadTyped, StoreTyped, ProcessTyped,
             Runner!RunnerTypeOK
    <2>2. PcTyped' /\ ThreadTyped'
      BY DEF PcTyped, ThreadTyped, Typed
    <2>3. StoreTyped' /\ ProcessTyped' /\ Runner!RunnerTypeOK'
      BY ServiceAssumption
         DEF ServiceAssumption, StoreTyped, Errors, ProcessTyped, Typed, Runner!RunnerTypeOK
    <2>4. PlaceInv(r)'
      BY DEF PlaceInv, Typed, PcTyped, ThreadTyped, StoreTyped, ProcessTyped,
             Runner!RunnerTypeOK
    <2>5. QED
      BY <2>1, <2>2, <2>3, <2>4 DEF Typed
  <1>9. CASE CreateRow(r)
    <2> USE <1>9 DEF CreateRow, SetStatus, DbFault, Raise
    <2>1. StepOf(r)
      BY DEF StepOf, Typed, PcTyped, ThreadTyped, StoreTyped, ProcessTyped,
             Runner!RunnerTypeOK
    <2>2. PcTyped' /\ ThreadTyped'
      BY DEF PcTyped, ThreadTyped, Typed
    <2>3. StoreTyped'
      BY DEF StoreTyped, Errors, Typed
    <2>4. ProcessTyped' /\ Runner!RunnerTypeOK'
      BY ServiceAssumption
         DEF ServiceAssumption, ProcessTyped, Typed, Runner!RunnerTypeOK
    <2>5. PlaceInv(r)'
      BY DEF PlaceInv, Typed, PcTyped, ThreadTyped, StoreTyped, ProcessTyped,
             Runner!RunnerTypeOK
    <2>6. QED
      BY <2>1, <2>2, <2>3, <2>4, <2>5 DEF Typed
  <1>10. CASE Prepare(r)
    <2> USE <1>10 DEF Prepare
    <2>1. StepOf(r)
      BY DEF StepOf, Typed, PcTyped, ThreadTyped, StoreTyped, ProcessTyped,
             Runner!RunnerTypeOK
    <2>2. PcTyped' /\ ThreadTyped'
      BY DEF PcTyped, ThreadTyped, Typed
    <2>3. StoreTyped' /\ ProcessTyped' /\ Runner!RunnerTypeOK'
      BY ServiceAssumption
         DEF ServiceAssumption, StoreTyped, Errors, ProcessTyped, Typed, Runner!RunnerTypeOK
    <2>4. PlaceInv(r)'
      BY DEF PlaceInv, Typed, PcTyped, ThreadTyped, StoreTyped, ProcessTyped,
             Runner!RunnerTypeOK
    <2>5. QED
      BY <2>1, <2>2, <2>3, <2>4 DEF Typed
  <1>11. CASE PrepareFails(r)
    <2> USE <1>11 DEF PrepareFails
    <2>1. StepOf(r)
      BY DEF StepOf, Typed, PcTyped, ThreadTyped, StoreTyped, ProcessTyped,
             Runner!RunnerTypeOK
    <2>2. PcTyped' /\ ThreadTyped'
      BY DEF PcTyped, ThreadTyped, Typed
    <2>3. StoreTyped' /\ ProcessTyped' /\ Runner!RunnerTypeOK'
      BY ServiceAssumption
         DEF ServiceAssumption, StoreTyped, Errors, ProcessTyped, Typed, Runner!RunnerTypeOK
    <2>4. PlaceInv(r)'
      BY DEF PlaceInv, Typed, PcTyped, ThreadTyped, StoreTyped, ProcessTyped,
             Runner!RunnerTypeOK
    <2>5. QED
      BY <2>1, <2>2, <2>3, <2>4 DEF Typed
  <1>12. CASE RejectClean(r)
    <2> USE <1>12 DEF RejectClean, CleanWorkspace, CleanWorkspaceFails
    <2>1. StepOf(r)
      BY DEF StepOf, Typed, PcTyped, ThreadTyped, StoreTyped, ProcessTyped,
             Runner!RunnerTypeOK
    <2>2. PcTyped' /\ ThreadTyped'
      BY DEF PcTyped, ThreadTyped, Typed
    <2>3. StoreTyped' /\ ProcessTyped' /\ Runner!RunnerTypeOK'
      BY ServiceAssumption
         DEF ServiceAssumption, StoreTyped, Errors, ProcessTyped, Typed, Runner!RunnerTypeOK
    <2>4. PlaceInv(r)'
      BY DEF PlaceInv, Typed, PcTyped, ThreadTyped, StoreTyped, ProcessTyped,
             Runner!RunnerTypeOK
    <2>5. QED
      BY <2>1, <2>2, <2>3, <2>4 DEF Typed
  <1>13. CASE RejectStatus(r)
    <2>1. StepOf(r) /\ Typed'
      BY <1>13, UpdateTyped, ServiceAssumption DEF RejectStatus, Errors
    <2>2. PlaceInv(r)'
      BY <1>13
         DEF RejectStatus, UpdateStatus, SetStatus, DbFault, PlaceInv, Typed, PcTyped,
             ThreadTyped, StoreTyped, ProcessTyped, Runner!RunnerTypeOK
    <2>3. QED
      BY <2>1, <2>2
  <1>14. CASE MarkRunning(r)
    <2>1. StepOf(r) /\ Typed'
      BY <1>14, UpdateTyped, ServiceAssumption DEF MarkRunning, Errors
    <2>2. PlaceInv(r)'
      BY <1>14
         DEF MarkRunning, UpdateStatus, SetStatus, DbFault, PlaceInv, Typed, PcTyped,
             ThreadTyped, StoreTyped, ProcessTyped, Runner!RunnerTypeOK
    <2>3. QED
      BY <2>1, <2>2
  <1>15. CASE SubmitJob(r)
    <2> USE <1>15 DEF SubmitJob, Runner!Submit
    <2>1. StepOf(r)
      BY DEF StepOf, Typed, PcTyped, ThreadTyped, StoreTyped, ProcessTyped,
             Runner!RunnerTypeOK
    <2>2. PcTyped' /\ ThreadTyped'
      BY DEF PcTyped, ThreadTyped, Typed
    <2>3. StoreTyped' /\ ProcessTyped' /\ Runner!RunnerTypeOK'
      BY ServiceAssumption
         DEF ServiceAssumption, StoreTyped, Errors, ProcessTyped, Typed, Runner!RunnerTypeOK
    <2>4. PlaceInv(r)'
      BY DEF PlaceInv, Typed, PcTyped, ThreadTyped, StoreTyped, ProcessTyped,
             Runner!RunnerTypeOK
    <2>5. QED
      BY <2>1, <2>2, <2>3, <2>4 DEF Typed
  <1>16. CASE TakeResult(r)
    <2> USE <1>16 DEF TakeResult
    <2>1. StepOf(r)
      BY DEF StepOf, Typed, PcTyped, ThreadTyped, StoreTyped, ProcessTyped,
             Runner!RunnerTypeOK
    <2>2. PcTyped' /\ ThreadTyped'
      BY DEF PcTyped, ThreadTyped, Typed
    <2>3. StoreTyped' /\ ProcessTyped' /\ Runner!RunnerTypeOK'
      BY ServiceAssumption
         DEF ServiceAssumption, StoreTyped, Errors, ProcessTyped, Typed, Runner!RunnerTypeOK
    <2>4. PlaceInv(r)'
      BY DEF PlaceInv, Typed, PcTyped, ThreadTyped, StoreTyped, ProcessTyped,
             Runner!RunnerTypeOK
    <2>5. QED
      BY <2>1, <2>2, <2>3, <2>4 DEF Typed
  <1>17. CASE FailScan(r)
    <2>1. StepOf(r) /\ Typed'
      BY <1>17, UpdateTyped, ServiceAssumption DEF FailScan, CauseOf, Errors
    <2>2. PlaceInv(r)'
      BY <1>17
         DEF FailScan, UpdateStatus, SetStatus, DbFault, PlaceInv, Typed, PcTyped,
             ThreadTyped, StoreTyped, ProcessTyped, Runner!RunnerTypeOK
    <2>3. QED
      BY <2>1, <2>2
  <1>18. CASE SaveOutput(r)
    <2> USE <1>18 DEF SaveOutput, DbFault
    <2>1. StepOf(r)
      BY DEF StepOf, Typed, PcTyped, ThreadTyped, StoreTyped, ProcessTyped,
             Runner!RunnerTypeOK
    <2>2. PcTyped' /\ ThreadTyped'
      BY DEF PcTyped, ThreadTyped, Typed
    <2>3. StoreTyped'
      BY DEF StoreTyped, Errors, Typed
    <2>4. ProcessTyped' /\ Runner!RunnerTypeOK'
      BY ServiceAssumption
         DEF ServiceAssumption, ProcessTyped, Typed, Runner!RunnerTypeOK
    <2>5. PlaceInv(r)'
      BY DEF PlaceInv, Typed, PcTyped, ThreadTyped, StoreTyped, ProcessTyped,
             Runner!RunnerTypeOK
    <2>6. QED
      BY <2>1, <2>2, <2>3, <2>4, <2>5 DEF Typed
  <1>19. CASE SaveFailed(r)
    <2>1. StepOf(r) /\ Typed'
      BY <1>19, UpdateTyped, ServiceAssumption DEF SaveFailed, Errors
    <2>2. PlaceInv(r)'
      BY <1>19
         DEF SaveFailed, UpdateStatus, SetStatus, DbFault, PlaceInv, Typed, PcTyped,
             ThreadTyped, StoreTyped, ProcessTyped, Runner!RunnerTypeOK
    <2>3. QED
      BY <2>1, <2>2
  <1>20. CASE Handler(r)
    <2>1. StepOf(r) /\ Typed'
      BY <1>20, UpdateTyped, ServiceAssumption DEF Handler, Errors
    <2>2. PlaceInv(r)'
      BY <1>20
         DEF Handler, UpdateStatus, SetStatus, DbFault, PlaceInv, Typed, PcTyped,
             ThreadTyped, StoreTyped, ProcessTyped, Runner!RunnerTypeOK
    <2>3. QED
      BY <2>1, <2>2
  <1>21. CASE Cleanup(r)
    <2> USE <1>21 DEF Cleanup, CleanWorkspace, CleanWorkspaceFails
    <2>1. StepOf(r)
      BY DEF StepOf, Typed, PcTyped, ThreadTyped, StoreTyped, ProcessTyped,
             Runner!RunnerTypeOK
    <2>2. PcTyped' /\ ThreadTyped'
      BY DEF PcTyped, ThreadTyped, Typed
    <2>3. StoreTyped' /\ ProcessTyped' /\ Runner!RunnerTypeOK'
      BY ServiceAssumption
         DEF ServiceAssumption, StoreTyped, Errors, ProcessTyped, Typed, Runner!RunnerTypeOK
    <2>4. PlaceInv(r)'
      BY DEF PlaceInv, Typed, PcTyped, ThreadTyped, StoreTyped, ProcessTyped,
             Runner!RunnerTypeOK
    <2>5. QED
      BY <2>1, <2>2, <2>3, <2>4 DEF Typed
  <1>22. CASE Respond(r)
    <2> USE <1>22 DEF Respond, EndRequest, DropThread, DbFault, Admission!Release,
                      Admission!admissionVars
    <2>1. StepOf(r)
      BY DEF StepOf, Typed, PcTyped, ThreadTyped, StoreTyped, ProcessTyped,
             Runner!RunnerTypeOK
    <2>2. PcTyped' /\ ThreadTyped'
      <3>1. PcTyped' /\ reservation' \in [Requests -> {"none", "refused", "held", "released"}]
        BY DEF PcTyped, ThreadTyped, Typed
      <3>2. /\ session' \in [Requests -> {"ok", "broken"}]
            /\ raised' \in [Requests -> {"no", "busy", "invalid", "error"}]
        BY DEF ThreadTyped, Typed
      <3>3. cancelled' \in [Requests -> BOOLEAN]
        BY DEF ThreadTyped, Typed
      <3>4. reply' \in [Requests -> {"none", "accepted", "busy", "invalid", "error",
                                     "cancelled", "lost"}]
        BY DEF ThreadTyped, Typed
      <3> QED BY <3>1, <3>2, <3>3, <3>4 DEF ThreadTyped
    <2>3. StoreTyped' /\ ProcessTyped' /\ Runner!RunnerTypeOK'
      BY ServiceAssumption
         DEF ServiceAssumption, StoreTyped, Errors, ProcessTyped, Typed, Runner!RunnerTypeOK
    <2>4. PlaceInv(r)'
      BY DEF PlaceInv, Typed, PcTyped, ThreadTyped, StoreTyped, ProcessTyped,
             Runner!RunnerTypeOK
    <2>5. QED
      BY <2>1, <2>2, <2>3, <2>4 DEF Typed
  <1>23. QED
    BY <1>1, <1>2, <1>3, <1>4, <1>5, <1>6, <1>7, <1>8, <1>9, <1>10, <1>11, <1>12,
       <1>13, <1>14, <1>15, <1>16, <1>17, <1>18, <1>19, <1>20, <1>21, <1>22
       DEF UploadEnds, ThreadStep

(* A thread submits its job once; no other step of it touches the queue.   *)
LEMMA QueueKept ==
    ASSUME Typed, QueueInv, NEW r \in Requests, PlaceInv(r),
           Reserve(r) \/ UploadEnds(r) \/ Cancel(r) \/ ThreadStep(r)
    PROVE  QueueInv'
  <1>1. CASE SubmitJob(r)
    <2>1. /\ job[r] = "idle"
          /\ job' = [job EXCEPT ![r] = "queued"]
          /\ queue' = Append(queue, r)
      BY <1>1 DEF SubmitJob, Runner!Submit
    <2>2. /\ Len(queue') = Len(queue) + 1
          /\ queue'[Len(queue) + 1] = r
          /\ \A i \in 1..Len(queue) : queue'[i] = queue[i]
          /\ Len(queue) \in Nat
      BY <2>1 DEF Typed, Runner!RunnerTypeOK
    <2>3. \A i \in 1..Len(queue) : queue[i] # r /\ queue[i] \in Requests
      BY <2>1 DEF Typed, Runner!RunnerTypeOK, QueueInv
    <2>4. \A i \in 1..Len(queue') : job'[queue'[i]] = "queued"
      BY <2>1, <2>2, <2>3 DEF Typed, Runner!RunnerTypeOK, QueueInv
    <2>5. \A i, k \in 1..Len(queue') : queue'[i] = queue'[k] => i = k
      BY <2>2, <2>3 DEF QueueInv
    <2>6. QED
      BY <2>4, <2>5 DEF QueueInv
  <1>2. CASE ~SubmitJob(r)
    <2>1. UNCHANGED <<queue, job>>
      BY <1>2
         DEF Reserve, UploadEnds, UploadRead, UploadRefused, Cancel, ThreadStep, CountFails,
             CountTotal, CountClient, InputInvalid, CreateRow, Prepare, PrepareFails,
             RejectClean, RejectStatus, MarkRunning, TakeResult, FailScan, SaveOutput,
             SaveFailed, Handler, UpdateStatus, Cleanup, Respond, runnerVars
    <2>2. QED
      BY <2>1 DEF QueueInv
  <1>3. QED
    BY <1>1, <1>2

(* The runner's steps. *)
LEMMA RunnerKept ==
    ASSUME Typed, QueueInv, NEW r \in Requests, PlaceInv(r), RunnerStep(r)
    PROVE  StepOf(r) /\ Typed' /\ QueueInv' /\ PlaceInv(r)'
  <1> DEFINE Rest ==
        UNCHANGED <<server, ready, interrupted, pc, session, raised, cancelled, reply,
                    reservation, status, error, stored, workspaces, fsFaults, dbFaults,
                    restarts>>
  <1>1. Rest
    BY DEF RunnerStep, serverVars, threadVars, admissionVars, tableVars, diskVars, faultVars
  <1>2. PcTyped' /\ ThreadTyped' /\ StoreTyped' /\ ProcessTyped'
    BY <1>1 DEF Typed, PcTyped, ThreadTyped, StoreTyped, ProcessTyped
  <1>3. CASE Runner!Start(r)
    <2>1. /\ queue # <<>> /\ r = Head(queue) /\ queue' = Tail(queue)
          /\ job' = [job EXCEPT ![r] = "running"]
          /\ UNCHANGED <<child, sent, outcome>>
      BY <1>3 DEF Runner!Start
    <2>2. queue \in Seq(Requests) /\ Len(queue) \in Nat \ {0} /\ r = queue[1]
      BY <2>1 DEF Typed, Runner!RunnerTypeOK
    <2>3. job[r] = "queued"
      BY <2>2 DEF QueueInv
    <2>4. /\ Len(queue') = Len(queue) - 1
          /\ \A i \in 1..Len(queue') : queue'[i] = queue[i + 1] /\ i + 1 \in 1..Len(queue)
      BY <2>1, <2>2
    <2>5. \A i \in 1..Len(queue') : queue'[i] # r /\ queue'[i] \in Requests
      BY <2>2, <2>4 DEF QueueInv
    <2>6. \A i \in 1..Len(queue') : job'[queue'[i]] = "queued"
      BY <2>1, <2>4, <2>5 DEF Typed, Runner!RunnerTypeOK, QueueInv
    <2>7. \A i, k \in 1..Len(queue') : queue'[i] = queue'[k] => i = k
      BY <2>2, <2>4 DEF QueueInv
    <2>8. Runner!RunnerTypeOK'
      BY <2>1, <2>2 DEF Typed, Runner!RunnerTypeOK
    <2>9. StepOf(r)
      BY <1>1, <2>1 DEF StepOf, Typed, Runner!RunnerTypeOK
    <2>10. PlaceInv(r)'
      BY <1>1, <2>1, <2>3
         DEF PlaceInv, ServerInv, JobInv, RowInv, EndInv, DiskInv, SettledInv, Typed,
             Runner!RunnerTypeOK
    <2>11. QED
      BY <1>2, <2>6, <2>7, <2>8, <2>9, <2>10 DEF Typed, QueueInv
  <1>4. CASE Runner!ChildStarts(r) \/ Runner!Ends(r)
    <2>1. UNCHANGED <<queue, job, outcome>>
      BY <1>4 DEF Runner!ChildStarts, Runner!Ends, Runner!ChildEnds
    <2>2. /\ job[r] = "running" /\ child' = [child EXCEPT ![r] = child'[r]]
          /\ child'[r] \in {"alive", "dead"}
      BY <1>4
         DEF Runner!ChildStarts, Runner!Ends, Runner!ChildEnds, Typed, Runner!RunnerTypeOK,
             PlaceInv, JobInv
    <2>3. Runner!RunnerTypeOK'
      BY <1>4
         DEF Runner!ChildStarts, Runner!Ends, Runner!ChildEnds, Typed, Runner!RunnerTypeOK
    <2>4. StepOf(r)
      BY <1>1, <2>1, <2>2 DEF StepOf, Typed, Runner!RunnerTypeOK
    <2>5. PlaceInv(r)'
      BY <1>1, <2>1, <2>2
         DEF PlaceInv, ServerInv, JobInv, RowInv, EndInv, DiskInv, SettledInv, Typed,
             Runner!RunnerTypeOK, NoRowYet, NoJobYet
    <2>6. QED
      BY <1>2, <2>1, <2>3, <2>4, <2>5 DEF Typed, QueueInv
  <1>5. CASE Runner!Returns(r)
    <2>1. PICK m \in Messages \cup Runner!Failures : Runner!Return(r, m)
      BY <1>5 DEF Runner!Returns
    <2>2. /\ job[r] = "running" /\ child[r] # "alive"
          /\ job' = [job EXCEPT ![r] = "returned"]
          /\ outcome' = [outcome EXCEPT ![r] = m]
          /\ UNCHANGED <<queue, child, sent>>
      BY <2>1 DEF Runner!Return
    <2>3. Runner!RunnerTypeOK'
      BY <2>2 DEF Typed, Runner!RunnerTypeOK
    <2>4. QueueInv'
      BY <2>2 DEF QueueInv, Typed, Runner!RunnerTypeOK
    <2>5. StepOf(r)
      BY <1>1, <2>2 DEF StepOf, Typed, Runner!RunnerTypeOK
    <2>6. PlaceInv(r)'
      BY <1>1, <2>2
         DEF PlaceInv, ServerInv, JobInv, RowInv, EndInv, DiskInv, SettledInv, Typed,
             Runner!RunnerTypeOK, NoRowYet, NoJobYet
    <2>7. QED
      BY <1>2, <2>3, <2>4, <2>5, <2>6 DEF Typed
  <1>6. QED
    BY <1>3, <1>4, <1>5 DEF RunnerStep

(* The process stops and starts while no submission is in flight, or cuts  *)
(* them all off.                                                           *)
LEMMA ProcessKept ==
    ASSUME ServiceAssumption, Typed, QueueInv, \A q \in Requests : PlaceInv(q),
           Crash \/ Shutdown \/ StartUpStep
    PROVE  Typed' /\ QueueInv' /\ \A q \in Requests : PlaceInv(q)'
  <1> DEFINE Place == \A q \in Requests : PlaceInv(q)'
  <1> DEFINE Process ==
        /\ server \in {"down", "cleaning", "up"} /\ ready \in BOOLEAN
        /\ interrupted \subseteq Requests
        /\ MaxDbFaults \in Nat /\ MaxFsFaults \in Nat /\ MaxRestarts \in Nat
        /\ dbFaults \in Nat /\ dbFaults <= MaxDbFaults
        /\ fsFaults \in Nat /\ fsFaults <= MaxFsFaults
        /\ restarts \in Nat /\ restarts <= MaxRestarts
  <1>0. Process
    BY ServiceAssumption DEF ServiceAssumption, Typed, ProcessTyped
  <1>1. CASE Crash
    <2> USE <1>1 DEF Crash, threadVars, tableVars, diskVars, InFlightStates, ThreadStates
    <2>1. PcTyped' /\ ThreadTyped'
      BY DEF Typed, PcTyped, ThreadTyped, StoreTyped, Runner!RunnerTypeOK
    <2>2. StoreTyped' /\ Runner!RunnerTypeOK'
      BY DEF Typed, PcTyped, ThreadTyped, StoreTyped, Runner!RunnerTypeOK
    <2>3. ProcessTyped'
      <3>1. ready' \in BOOLEAN
        BY <1>0, Zenon
      <3>2. QED
        BY <1>0, <3>1 DEF ProcessTyped
    <2>4. QueueInv'
      BY DEF QueueInv
    <2>5. Place
      BY <1>0
         DEF Typed, PcTyped, ThreadTyped, StoreTyped, Runner!RunnerTypeOK,
             PlaceInv, ServerInv, JobInv, RowInv, EndInv, DiskInv, SettledInv, NoRowYet,
             NoJobYet, HasDirectory, ActiveStatus
    <2>6. QED
      BY <2>1, <2>2, <2>3, <2>4, <2>5 DEF Typed
  <1>2. CASE Shutdown
    <2> USE <1>2 DEF Shutdown, threadVars, tableVars, diskVars, admissionVars, runnerVars
    <2>1. PcTyped' /\ ThreadTyped' /\ StoreTyped' /\ Runner!RunnerTypeOK'
      BY DEF Typed, PcTyped, ThreadTyped, StoreTyped, Runner!RunnerTypeOK
    <2>2. ProcessTyped'
      <3>1. ready' \in BOOLEAN
        BY <1>0, Zenon
      <3>2. QED
        BY <1>0, <3>1 DEF ProcessTyped
    <2>3. QueueInv'
      BY DEF QueueInv
    <2>4. Place
      BY <1>0
         DEF Typed, PcTyped, ThreadTyped, StoreTyped, Runner!RunnerTypeOK,
             PlaceInv, ServerInv, JobInv, RowInv, EndInv, DiskInv, SettledInv
    <2>5. QED
      BY <2>1, <2>2, <2>3, <2>4 DEF Typed
  <1>3. CASE StartUp
    <2> USE <1>3
        DEF StartUp, RecoverTable, DbFault, Active, threadVars, diskVars, admissionVars,
            runnerVars
    <2>1. PcTyped' /\ ThreadTyped' /\ Runner!RunnerTypeOK'
      BY DEF Typed, PcTyped, ThreadTyped, StoreTyped, Runner!RunnerTypeOK
    <2>2. StoreTyped'
      BY DEF Typed, StoreTyped, Terminal, Errors
    <2>3. ProcessTyped'
      <3>1. ready' \in BOOLEAN
        BY <1>0, Zenon
      <3>2. QED
        BY <1>0, <3>1 DEF ProcessTyped
    <2>4. QueueInv'
      BY DEF QueueInv
    <2>5. Place
      BY <1>0
         DEF Typed, PcTyped, ThreadTyped, StoreTyped, Runner!RunnerTypeOK,
             PlaceInv, ServerInv, JobInv, RowInv, EndInv, DiskInv, SettledInv, NoRowYet,
             HasDirectory, ActiveStatus, Terminal
    <2>6. QED
      BY <2>1, <2>2, <2>3, <2>4, <2>5 DEF Typed
  <1>4. CASE RecoveryComplete \/ \E r \in Requests : CleanInterrupted(r)
    <2> USE <1>4
        DEF RecoveryComplete, CleanInterrupted, CleanWorkspace, CleanWorkspaceFails,
            threadVars, diskVars, admissionVars, runnerVars, tableVars, faultVars
    <2>1. PcTyped' /\ ThreadTyped' /\ Runner!RunnerTypeOK'
      BY DEF Typed, PcTyped, ThreadTyped, StoreTyped, Runner!RunnerTypeOK
    <2>2. StoreTyped'
      BY DEF Typed, PcTyped, ThreadTyped, StoreTyped, Runner!RunnerTypeOK
    <2>3. ProcessTyped'
      <3>1. ready' \in BOOLEAN
        BY <1>0, Zenon
      <3>2. QED
        BY <1>0, <3>1 DEF ProcessTyped
    <2>4. QueueInv'
      BY DEF QueueInv
    <2>5. Place
      BY <1>0
         DEF Typed, PcTyped, ThreadTyped, StoreTyped, Runner!RunnerTypeOK,
             PlaceInv, ServerInv, JobInv, RowInv, EndInv, DiskInv, SettledInv, HasDirectory
    <2>6. QED
      BY <2>1, <2>2, <2>3, <2>4, <2>5 DEF Typed
  <1>5. QED
    BY <1>1, <1>2, <1>3, <1>4 DEF StartUpStep

----------------------------------------------------------------------------
(* The slots: the endpoint takes and returns them as UploadAdmission does, *)
(* and a crash forgets them all.                                           *)
LEMMA SlotAssumption == ServiceAssumption => Slots!AdmissionAssumption
  BY DEF ServiceAssumption, Slots!AdmissionAssumption

LEMMA SlotsKept ==
    ASSUME ServiceAssumption, Slots!AdmissionInv, [Next]_vars
    PROVE  Slots!AdmissionInv'
  <1>1. ASSUME NEW r \in Requests, Admission!TryReserve(r) PROVE Slots!AdmissionInv'
    <2>1. Slots!TryReserve(r)
      BY <1>1
         DEF Admission!TryReserve, Admission!HasSlot, Admission!CountOf,
             Admission!CountsPlus, Slots!TryReserve, Slots!HasSlot, Slots!CountOf,
             Slots!CountsPlus
    <2>2. QED
      BY <2>1, ServiceAssumption, SlotAssumption, Slots!ReserveKeepsInv
  <1>2. ASSUME NEW r \in Requests, Admission!Release(r) PROVE Slots!AdmissionInv'
    <2>1. Slots!Release(r)
      BY <1>2
         DEF Admission!Release, Admission!CountsMinus, Admission!admissionVars,
             Slots!Release, Slots!CountsMinus, Slots!admissionVars
    <2>2. QED
      BY <2>1, ServiceAssumption, SlotAssumption, Slots!ReleaseKeepsInv
  <1>3. ASSUME UNCHANGED admissionVars PROVE Slots!AdmissionInv'
    BY <1>3
       DEF admissionVars, Slots!AdmissionInv, Slots!AdmissionTypeOK, Slots!CountersExact,
           Slots!Held, Slots!HeldBy
  <1>4. ASSUME Crash PROVE Slots!AdmissionInv'
    <2>1. /\ globalCount' = 0 /\ clientCounts' = [c \in {} |-> 0]
          /\ reservation' = [r \in Requests |->
                IF reservation[r] = "held" THEN "released" ELSE reservation[r]]
      BY <1>4 DEF Crash
    <2>2. Slots!Held' = {}
      BY <2>1 DEF Slots!Held
    <2>3. reservation' \in [Requests -> Slots!ReservationStates]
      BY <2>1 DEF Slots!AdmissionInv, Slots!AdmissionTypeOK, Slots!ReservationStates
    <2>4. QED
      BY <2>1, <2>2, <2>3, Slots!EmptyIsExact, ServiceAssumption, SlotAssumption
  <1>5. ASSUME NEW r \in Requests,
               Reserve(r) \/ UploadEnds(r) \/ Cancel(r) \/ ThreadStep(r) \/ RunnerStep(r)
        PROVE  Admission!TryReserve(r) \/ Admission!Release(r) \/ UNCHANGED admissionVars
    BY <1>5
       DEF Reserve, UploadEnds, UploadRead, UploadRefused, Cancel, EndRequest, DropThread,
           ThreadStep,
           CountFails, CountTotal, CountClient, InputInvalid, CreateRow, Prepare,
           PrepareFails, RejectClean, RejectStatus, MarkRunning, SubmitJob, TakeResult,
           FailScan, SaveOutput, SaveFailed, Handler, UpdateStatus, Cleanup, Respond,
           RunnerStep, admissionVars
  <1>6. ASSUME Shutdown \/ StartUpStep \/ UNCHANGED vars PROVE UNCHANGED admissionVars
    BY <1>6 DEF Shutdown, StartUpStep, StartUp, RecoveryComplete, CleanInterrupted, vars
  <1>7. QED
    BY <1>1, <1>2, <1>3, <1>4, <1>5, <1>6 DEF Next

(* ServiceInv holds for any submissions, clients, limits and faults.       *)
THEOREM ServiceInvariant == Spec => []ServiceInv
  <1> USE ServiceAssumption
  <1>1. Init => ServiceInv
    <2> SUFFICES ASSUME Init PROVE ServiceInv
      OBVIOUS
    <2>1. Typed
      <3>1. PcTyped /\ ThreadTyped /\ StoreTyped
        BY DEF Init, Admission!AdmissionInit, PcTyped, ThreadTyped, StoreTyped, Errors
      <3>2. ProcessTyped
        <4>1. ready \in BOOLEAN
          BY Zenon DEF Init
        <4>2. QED
          BY <4>1 DEF ServiceAssumption, Init, ProcessTyped
      <3>3. Runner!RunnerTypeOK
        BY DEF Init, Runner!RunnerInit, Runner!RunnerTypeOK
      <3>4. QED
        BY <3>1, <3>2, <3>3 DEF Typed
    <2>2. Slots!AdmissionInv
      <3>1. Slots!AdmissionInit
        BY DEF Init, Admission!AdmissionInit, Slots!AdmissionInit
      <3>2. QED
        BY <3>1, SlotAssumption, Slots!InitIsExact
    <2>3. QueueInv
      BY DEF Init, Runner!RunnerInit, QueueInv
    <2>4. ASSUME NEW r \in Requests PROVE PlaceInv(r)
      BY DEF Init, Runner!RunnerInit, Admission!AdmissionInit, PlaceInv, ServerInv, JobInv,
             RowInv, EndInv, DiskInv, SettledInv, InFlightStates, ThreadStates,
             ActiveStatus, HasDirectory
    <2>5. QED
      BY <2>1, <2>2, <2>3, <2>4 DEF ServiceInv
  <1>2. ServiceInv /\ [Next]_vars => ServiceInv'
    <2> SUFFICES ASSUME ServiceInv, [Next]_vars PROVE ServiceInv'
      OBVIOUS
    <2> USE DEF ServiceInv
    <2>1. Slots!AdmissionInv'
      BY SlotsKept
    <2>2. ASSUME NEW r \in Requests,
                 Reserve(r) \/ UploadEnds(r) \/ Cancel(r) \/ ThreadStep(r)
          PROVE  ServiceInv'
      <3>1. StepOf(r) /\ Typed' /\ PlaceInv(r)'
        BY <2>2, SubmissionKept
      <3>2. QueueInv'
        BY <2>2, QueueKept
      <3>3. \A q \in Requests \ {r} : PlaceInv(q)'
        BY <3>1, OthersKept
      <3>4. QED
        BY <2>1, <3>1, <3>2, <3>3
    <2>3. ASSUME NEW r \in Requests, RunnerStep(r) PROVE ServiceInv'
      <3>1. StepOf(r) /\ Typed' /\ QueueInv' /\ PlaceInv(r)'
        BY <2>3, RunnerKept
      <3>2. \A q \in Requests \ {r} : PlaceInv(q)'
        BY <3>1, OthersKept
      <3>3. QED
        BY <2>1, <3>1, <3>2
    <2>4. CASE Crash \/ Shutdown \/ StartUpStep
      BY <2>1, <2>4, ProcessKept
    <2>5. CASE UNCHANGED vars
      <3>1. Typed' /\ QueueInv'
        BY <2>5
           DEF vars, serverVars, threadVars, admissionVars, runnerVars, tableVars, diskVars,
               faultVars, Typed, PcTyped, ThreadTyped, StoreTyped, ProcessTyped,
               Runner!RunnerTypeOK, QueueInv
      <3>2. \A q \in Requests : PlaceInv(q)'
        BY <2>5
           DEF vars, serverVars, threadVars, admissionVars, runnerVars, tableVars, diskVars,
               faultVars, PlaceInv, ServerInv, JobInv, RowInv, EndInv, DiskInv, SettledInv
      <3>3. QED
        BY <2>1, <3>1, <3>2
    <2>6. QED
      BY <2>2, <2>3, <2>4, <2>5 DEF Next
  <1>3. QED
    BY <1>1, <1>2, PTL DEF Spec

----------------------------------------------------------------------------
(* What follows from the invariant. *)

(* Every variable keeps its type. *)
THEOREM ServiceTypeCorrect == Spec => []TypeOK
  <1>1. Slots!AdmissionInv => Admission!AdmissionTypeOK
    BY DEF Slots!AdmissionInv, Slots!AdmissionTypeOK, Slots!ReservationStates,
           Admission!AdmissionTypeOK, Admission!ReservationStates
  <1>2. ServiceInv => TypeOK
    BY <1>1
       DEF ServiceInv, Typed, PcTyped, ThreadTyped, StoreTyped, ProcessTyped, TypeOK
  <1>3. QED
    BY <1>2, ServiceInvariant, PTL

(* A submission holds its upload slot exactly while its coroutine or its   *)
(* thread is under way (scans.py:209-210).                                 *)
THEOREM SlotCoversSubmission == Spec => []SlotHeldInFlight
  <1>1. ServiceInv => SlotHeldInFlight
    BY DEF ServiceInv, PlaceInv, SlotHeldInFlight
  <1>2. QED
    BY <1>1, ServiceInvariant, PTL

(* A live analysis process has its directory (jobs/runner.py:130-132).     *)
THEOREM ChildKeepsWorkspace == Spec => []ChildHasWorkspace
  <1>1. ServiceInv => ChildHasWorkspace
    BY DEF ServiceInv, PlaceInv, JobInv, DiskInv, HasDirectory, ChildHasWorkspace
  <1>2. QED
    BY <1>1, ServiceInvariant, PTL

(* A 202 is never given for a scan that may still hang, whatever database  *)
(* calls failed (scans.py:232-245).                                        *)
THEOREM AcceptedScansAreOver == Spec => []AcceptedIsSettled
  <1>1. ServiceInv => AcceptedIsSettled
    BY DEF ServiceInv, PlaceInv, EndInv, AcceptedIsSettled
  <1>2. QED
    BY <1>1, ServiceInvariant, PTL

(* A COMPLETED row has its result (repositories/scan.py:199-235).          *)
THEOREM CompletedScansHaveResults == Spec => []CompletedHasResult
  <1>1. ServiceInv => CompletedHasResult
    BY DEF ServiceInv, PlaceInv, RowInv, CompletedHasResult
  <1>2. QED
    BY <1>1, ServiceInvariant, PTL

(* If removals succeed, only a crash leaves a directory behind             *)
(* (scan_service.py:136, 146, 235).                                        *)
THEOREM NothingLeftBehind ==
    ASSUME MaxFsFaults = 0 PROVE Spec => []WorkspaceReclaimed
  <1>1. ServiceInv => WorkspaceReclaimed
    <2> SUFFICES ASSUME ServiceInv, NEW r \in workspaces
                 PROVE  pc[r] \in HasDirectory \cup {"reject_clean"} \/ reply[r] = "lost"
      BY DEF WorkspaceReclaimed, HasDirectory
    <2>1. fsFaults = 0
      BY DEF ServiceInv, Typed, ProcessTyped
    <2>2. r \in Requests
      BY DEF ServiceInv, Typed, StoreTyped
    <2>3. QED
      BY <2>1, <2>2 DEF ServiceInv, PlaceInv, DiskInv
  <1>2. QED
    BY <1>1, ServiceInvariant, PTL

(* Readiness is announced over a table without active rows                 *)
(* (main.py:29-33).                                                        *)
THEOREM ReadyOnlyAfterRecovery == Spec => ReadyAfterRecovery
  <1>1. ServiceInv /\ [Next]_vars => [~ready /\ ready' => Active = {}]_vars
    <2> SUFFICES ASSUME ServiceInv, Next, ~ready, ready' PROVE Active = {}
      OBVIOUS
    <2>1. ready' # ready
      BY Zenon
    <2>2. RecoveryComplete \/ Crash \/ Shutdown
      BY <2>1
         DEF Next, Reserve, UploadEnds, UploadRead, UploadRefused, Cancel, ThreadStep,
             CountFails, CountTotal, CountClient, InputInvalid, CreateRow, Prepare,
             PrepareFails, RejectClean, RejectStatus, MarkRunning, SubmitJob, TakeResult,
             FailScan, SaveOutput, SaveFailed, Handler, UpdateStatus, Cleanup, Respond,
             RunnerStep, StartUpStep, StartUp, CleanInterrupted, serverVars
    <2>3. ~(Crash \/ Shutdown)
      BY Zenon DEF Crash, Shutdown
    <2>4. server = "cleaning"
      BY <2>2, <2>3 DEF RecoveryComplete
    <2>5. QED
      BY <2>4 DEF ServiceInv, PlaceInv, ServerInv, Active
  <1>2. QED
    BY <1>1, ServiceInvariant, PTL DEF Spec, ReadyAfterRecovery

(* As long as the database works, a row that is active under a running     *)
(* server has a thread (scan_service.py:108-157, 178-231).                 *)
THEOREM ActiveRowsHaveThreads ==
    ASSUME MaxDbFaults = 0 PROVE Spec => []ActiveRowHasThread
  <1>1. ServiceInv => ActiveRowHasThread
    <2> SUFFICES ASSUME ServiceInv, server = "up", NEW r \in Active
                 PROVE  pc[r] \in ThreadStates
      BY DEF ActiveRowHasThread
    <2>1. dbFaults = 0
      BY DEF ServiceInv, Typed, ProcessTyped
    <2>2. QED
      BY <2>1 DEF ServiceInv, PlaceInv, SettledInv, Active
  <1>2. QED
    BY <1>1, ServiceInvariant, PTL

----------------------------------------------------------------------------
(* Counting.  The slots bound the submissions in flight; the names of      *)
(* FiniteSets are the same operators in both modules.                      *)
LEMMA SameCardinality ==
    /\ \A S : Slots!Cardinality(S) = Cardinality(S)
    /\ \A S : Slots!IsFiniteSet(S) = IsFiniteSet(S)
  BY DEF Slots!Cardinality, Cardinality, Slots!IsFiniteSet, IsFiniteSet

InFlight == {r \in Requests : pc[r] \in InFlightStates}
InFlightOf(c) == {r \in InFlight : ClientOf[r] = c}

LEMMA SlotsBoundInFlight ==
    ASSUME ServiceAssumption, ServiceInv
    PROVE  /\ IsFiniteSet(InFlight) /\ Cardinality(InFlight) <= MaxGlobal
           /\ \A c \in Clients : /\ IsFiniteSet(InFlightOf(c))
                                 /\ Cardinality(InFlightOf(c)) <= MaxPerClient
  <1>1. Slots!Held = InFlight /\ \A c \in Clients : Slots!HeldBy(c) = InFlightOf(c)
    BY DEF ServiceInv, PlaceInv, Slots!Held, Slots!HeldBy, InFlight, InFlightOf
  <1>2. /\ Slots!LimitsHold
        /\ Slots!IsFiniteSet(Slots!Held)
        /\ \A c \in Clients : Slots!IsFiniteSet(Slots!HeldBy(c))
    BY SlotAssumption, Slots!InvBoundsHolders DEF ServiceInv
  <1>3. QED
    BY <1>1, <1>2, SameCardinality DEF Slots!LimitsHold

(* As long as no database call has failed, the upload slots bound the      *)
(* concurrent scans (scan_service.py:84-119, scans.py:172-247).            *)
THEOREM SlotsBoundActive == Spec => []ActiveWithinSlots
  <1>1. ServiceInv => ActiveWithinSlots
    <2> SUFFICES ASSUME ServiceInv, server = "up", dbFaults = 0
                 PROVE  /\ Cardinality(Active) <= MaxGlobal
                        /\ \A c \in Clients : Cardinality(ActiveOf(c)) <= MaxPerClient
      BY DEF ActiveWithinSlots
    <2>1. Active \subseteq InFlight
      BY DEF ServiceInv, PlaceInv, SettledInv, Active, InFlight, InFlightStates
    <2>2. Cardinality(Active) <= MaxGlobal
      <3>1. IsFiniteSet(InFlight) /\ Cardinality(InFlight) <= MaxGlobal
        BY SlotsBoundInFlight, ServiceAssumption
      <3>2. IsFiniteSet(Active) /\ Cardinality(Active) <= Cardinality(InFlight)
        BY <2>1, <3>1, FS_Subset
      <3>3. QED
        BY <3>1, <3>2, FS_CardinalityType, ServiceAssumption DEF ServiceAssumption
    <2>3. ASSUME NEW c \in Clients PROVE Cardinality(ActiveOf(c)) <= MaxPerClient
      <3>1. IsFiniteSet(InFlightOf(c)) /\ Cardinality(InFlightOf(c)) <= MaxPerClient
        BY SlotsBoundInFlight, ServiceAssumption
      <3>2. ActiveOf(c) \subseteq InFlightOf(c)
        BY <2>1 DEF ActiveOf, InFlightOf
      <3>3. IsFiniteSet(ActiveOf(c)) /\ Cardinality(ActiveOf(c)) <= Cardinality(InFlightOf(c))
        BY <3>1, <3>2, FS_Subset
      <3>4. QED
        BY <3>1, <3>3, FS_CardinalityType, ServiceAssumption DEF ServiceAssumption
    <2>4. QED
      BY <2>2, <2>3
  <1>2. QED
    BY <1>1, ServiceInvariant, PTL

(* A row becomes active only by the insert, and a submission may insert    *)
(* only when it has passed both counts.                                    *)
PassesOnly(r) ==
    /\ status'[r] \in ActiveStatus => status[r] \in ActiveStatus \/ pc[r] = "create"
    /\ pc'[r] = "create" => pc[r] = "create" \/ CountClient(r)
    /\ pc'[r] = "count_client" => pc[r] = "count_client" \/ CountTotal(r)

LEMMA SubmissionPasses ==
    ASSUME Typed, NEW r \in Requests, PlaceInv(r),
           Reserve(r) \/ UploadEnds(r) \/ Cancel(r) \/ ThreadStep(r) \/ RunnerStep(r)
    PROVE  PassesOnly(r)
  <1> USE DEF PassesOnly, Typed, PcTyped, StoreTyped, Goto
  <1>1. CASE CountTotal(r) \/ CountClient(r) \/ CountFails(r) \/ InputInvalid(r)
    BY <1>1
       DEF CountTotal, CountClient, CountFails, InputInvalid, Raise, tableVars
  <1>2. CASE CreateRow(r)
    BY <1>2 DEF CreateRow, SetStatus, Raise
  <1>3. CASE MarkRunning(r)
    BY <1>3 DEF MarkRunning, UpdateStatus, SetStatus, PlaceInv, RowInv, ActiveStatus
  <1>4. CASE RejectStatus(r) \/ FailScan(r) \/ SaveFailed(r) \/ Handler(r)
    BY <1>4
       DEF RejectStatus, FailScan, SaveFailed, Handler, UpdateStatus, SetStatus, ActiveStatus
  <1>5. CASE SaveOutput(r)
    BY <1>5 DEF SaveOutput, ActiveStatus
  <1>6. CASE Prepare(r) \/ PrepareFails(r) \/ RejectClean(r) \/ SubmitJob(r) \/ TakeResult(r)
             \/ Cleanup(r)
    BY <1>6
       DEF Prepare, PrepareFails, RejectClean, SubmitJob, TakeResult, Cleanup, tableVars
  <1>7. CASE Reserve(r) \/ UploadEnds(r) \/ Cancel(r) \/ Respond(r) \/ RunnerStep(r)
    BY <1>7
       DEF Reserve, UploadEnds, UploadRead, UploadRefused, Cancel, Respond, EndRequest,
           DropThread,
           RunnerStep, tableVars
  <1>8. QED
    BY <1>1, <1>2, <1>3, <1>4, <1>5, <1>6, <1>7 DEF ThreadStep

(* So what is counted grows only by a submission that passes a count.      *)
LEMMA CountedGrows ==
    ASSUME ServiceAssumption, ServiceInv, [Next]_vars
    PROVE  \/ /\ Counted' \subseteq Counted
              /\ \A c : CountedOf(c)' \subseteq CountedOf(c)
           \/ \E r \in Requests :
                /\ CountTotal(r) /\ pc'[r] = "count_client"
                /\ Counted' \subseteq Counted \cup {r}
                /\ \A c : CountedOf(c)' \subseteq CountedOf(c)
           \/ \E r \in Requests :
                /\ CountClient(r) /\ pc'[r] = "create"
                /\ Counted' \subseteq Counted
                /\ \A c : CountedOf(c)' \subseteq CountedOf(c)
                                \cup (IF ClientOf[r] = c THEN {r} ELSE {})
  <1> USE DEF Counted, CountedOf, Active, ActiveOf
  <1>1. ASSUME NEW r \in Requests,
               Reserve(r) \/ UploadEnds(r) \/ Cancel(r) \/ ThreadStep(r) \/ RunnerStep(r)
        PROVE  /\ PassesOnly(r)
               /\ \A q \in Requests \ {r} : pc'[q] = pc[q] /\ status'[q] = status[q]
    <2>1. StepOf(r)
      BY <1>1, ServiceAssumption, SubmissionKept, RunnerKept DEF ServiceInv
    <2>2. PassesOnly(r)
      BY <1>1, SubmissionPasses DEF ServiceInv
    <2>3. QED
      BY <2>1, <2>2 DEF StepOf
  <1>2. ASSUME NEW r \in Requests,
               Reserve(r) \/ UploadEnds(r) \/ Cancel(r) \/ ThreadStep(r) \/ RunnerStep(r),
               ~CountTotal(r), ~CountClient(r)
        PROVE  Counted' \subseteq Counted /\ \A c : CountedOf(c)' \subseteq CountedOf(c)
    BY <1>1, <1>2 DEF PassesOnly
  <1>3. ASSUME NEW r \in Requests, CountTotal(r)
        PROVE  /\ \A c : CountedOf(c)' \subseteq CountedOf(c)
               /\ Counted' \subseteq Counted \/
                    (pc'[r] = "count_client" /\ Counted' \subseteq Counted \cup {r})
    <2>1. pc[r] = "count_total" /\ ~CountClient(r) /\ ThreadStep(r)
      BY <1>3 DEF CountTotal, CountClient, ThreadStep
    <2>2. pc'[r] # "create"
      BY <1>1, <2>1 DEF PassesOnly
    <2>3. QED
      BY <1>1, <2>1, <2>2 DEF PassesOnly
  <1>4. ASSUME NEW r \in Requests, CountClient(r)
        PROVE  /\ Counted' \subseteq Counted
               /\ \/ \A c : CountedOf(c)' \subseteq CountedOf(c)
                  \/ /\ pc'[r] = "create"
                     /\ \A c : CountedOf(c)' \subseteq CountedOf(c)
                                   \cup (IF ClientOf[r] = c THEN {r} ELSE {})
    <2>1. pc[r] = "count_client" /\ ThreadStep(r)
      BY <1>4 DEF CountClient, ThreadStep
    <2>2. QED
      BY <1>1, <2>1 DEF PassesOnly
  <1>5. ASSUME Crash \/ Shutdown \/ StartUpStep \/ UNCHANGED vars
        PROVE  Counted' \subseteq Counted /\ \A c : CountedOf(c)' \subseteq CountedOf(c)
    <2>1. \A q \in Requests :
             /\ status'[q] \in ActiveStatus => status[q] \in ActiveStatus
             /\ pc'[q] \in {"count_client", "create"} => pc'[q] = pc[q]
      BY <1>5
         DEF Crash, Shutdown, StartUpStep, StartUp, RecoverTable, RecoveryComplete,
             CleanInterrupted, tableVars, vars, ActiveStatus
    <2>2. QED
      BY <2>1
  <1>6. QED
    BY <1>2, <1>3, <1>4, <1>5 DEF Next

(* What is counted stays below the limits taken together: who passes a     *)
(* count finds fewer than the limit active, and everybody else who may     *)
(* insert holds a slot.                                                    *)
LEMMA BacklogKept ==
    ASSUME ServiceAssumption, ServiceInv, BacklogInv, [Next]_vars
    PROVE  BacklogInv'
  <1>1. ASSUME NEW S, NEW B, IsFiniteSet(B), S \subseteq B, NEW n \in Nat, Cardinality(B) < n
        PROVE  IsFiniteSet(S) /\ Cardinality(S) < n
    <2>1. IsFiniteSet(S) /\ Cardinality(S) <= Cardinality(B)
      BY <1>1, FS_Subset
    <2>2. QED
      BY <1>1, <2>1, FS_CardinalityType
  <1>2. ASSUME NEW A, NEW B, NEW S, IsFiniteSet(A), IsFiniteSet(B), S \subseteq A \cup B,
               NEW m \in Nat \ {0}, NEW n \in Nat \ {0}, Cardinality(A) < m, Cardinality(B) <= n
        PROVE  IsFiniteSet(S) /\ Cardinality(S) < m + n
    <2>1. /\ IsFiniteSet(A \cup B) /\ IsFiniteSet(A \cap B)
          /\ Cardinality(A \cup B) = Cardinality(A) + Cardinality(B) - Cardinality(A \cap B)
      BY <1>2, FS_Union, FS_Intersection
    <2>2. /\ Cardinality(A) \in Nat /\ Cardinality(B) \in Nat /\ Cardinality(A \cap B) \in Nat
      BY <1>2, <2>1, FS_CardinalityType
    <2>3. Cardinality(A \cup B) < m + n
      BY <1>2, <2>1, <2>2
    <2>4. m + n \in Nat
      OBVIOUS
    <2>5. QED
      BY <1>1, <1>2, <2>1, <2>3, <2>4
  <1>3. /\ MaxActive \in Nat \ {0} /\ MaxGlobal \in Nat \ {0}
        /\ MaxClientActive \in Nat \ {0} /\ MaxPerClient \in Nat \ {0}
    BY ServiceAssumption DEF ServiceAssumption
  <1>4. /\ IsFiniteSet(InFlight) /\ Cardinality(InFlight) <= MaxGlobal
        /\ \A c \in Clients : /\ IsFiniteSet(InFlightOf(c))
                              /\ Cardinality(InFlightOf(c)) <= MaxPerClient
    BY SlotsBoundInFlight, ServiceAssumption
  <1>5. /\ Active \subseteq Counted /\ IsFiniteSet(Active)
        /\ \A c \in Clients : ActiveOf(c) \subseteq CountedOf(c) /\ IsFiniteSet(ActiveOf(c))
    <2>1. Active \subseteq Counted /\ \A c \in Clients : ActiveOf(c) \subseteq CountedOf(c)
      BY DEF Counted, CountedOf
    <2>2. IsFiniteSet(Counted) /\ \A c \in Clients : IsFiniteSet(CountedOf(c))
      BY DEF BacklogInv
    <2>3. QED
      BY <2>1, <2>2, FS_Subset
  <1>6. /\ Counted \subseteq Active \cup InFlight
        /\ \A c : CountedOf(c) \subseteq ActiveOf(c) \cup InFlightOf(c)
    BY DEF Counted, CountedOf, InFlight, InFlightOf, InFlightStates, ThreadStates
  <1>7. ASSUME Counted' \subseteq Counted
        PROVE  IsFiniteSet(Counted') /\ Cardinality(Counted') < MaxActive + MaxGlobal
    BY <1>1, <1>3, <1>7 DEF BacklogInv
  <1>8. ASSUME NEW c \in Clients, CountedOf(c)' \subseteq CountedOf(c)
        PROVE  /\ IsFiniteSet(CountedOf(c)')
               /\ Cardinality(CountedOf(c)') < MaxClientActive + MaxPerClient
    <2>1. /\ IsFiniteSet(CountedOf(c))
          /\ Cardinality(CountedOf(c)) < MaxClientActive + MaxPerClient
      BY DEF BacklogInv
    <2>2. MaxClientActive + MaxPerClient \in Nat
      BY <1>3
    <2>3. QED
      BY <1>1, <1>8, <2>1, <2>2
  <1>9. ASSUME NEW r \in Requests, CountTotal(r), pc'[r] = "count_client",
               Counted' \subseteq Counted \cup {r}
        PROVE  IsFiniteSet(Counted') /\ Cardinality(Counted') < MaxActive + MaxGlobal
    <2>1. ~(Cardinality(Active) >= MaxActive)
      BY <1>9 DEF CountTotal, Raise, Goto, ServiceInv, Typed, PcTyped
    <2>2. Cardinality(Active) < MaxActive
      BY <1>3, <1>5, <2>1, FS_CardinalityType
    <2>3. r \in InFlight
      BY <1>9 DEF CountTotal, InFlight, InFlightStates, ThreadStates
    <2>4. Counted' \subseteq Active \cup InFlight
      BY <1>6, <1>9, <2>3
    <2>5. QED
      BY <1>2, <1>3, <1>4, <1>5, <2>2, <2>4
  <1>10. ASSUME NEW r \in Requests, CountClient(r), pc'[r] = "create", NEW c \in Clients,
                ClientOf[r] = c, CountedOf(c)' \subseteq CountedOf(c) \cup {r}
         PROVE  /\ IsFiniteSet(CountedOf(c)')
                /\ Cardinality(CountedOf(c)') < MaxClientActive + MaxPerClient
    <2>1. ~(Cardinality(ActiveOf(c)) >= MaxClientActive)
      BY <1>10 DEF CountClient, Raise, Goto, ServiceInv, Typed, PcTyped
    <2>2. Cardinality(ActiveOf(c)) < MaxClientActive
      BY <1>3, <1>5, <2>1, FS_CardinalityType
    <2>3. r \in InFlightOf(c)
      BY <1>10 DEF CountClient, InFlightOf, InFlight, InFlightStates, ThreadStates
    <2>4. CountedOf(c)' \subseteq ActiveOf(c) \cup InFlightOf(c)
      BY <1>6, <1>10, <2>3
    <2>5. QED
      BY <1>2, <1>3, <1>4, <1>5, <2>2, <2>4
  <1>11. IsFiniteSet(Counted') /\ Cardinality(Counted') < MaxActive + MaxGlobal
    BY <1>7, <1>9, CountedGrows, ServiceAssumption
  <1>12. ASSUME NEW c \in Clients
         PROVE  /\ IsFiniteSet(CountedOf(c)')
                /\ Cardinality(CountedOf(c)') < MaxClientActive + MaxPerClient
    <2>1. \/ CountedOf(c)' \subseteq CountedOf(c)
          \/ \E r \in Requests : /\ CountClient(r) /\ pc'[r] = "create" /\ ClientOf[r] = c
                                 /\ CountedOf(c)' \subseteq CountedOf(c) \cup {r}
      BY CountedGrows, ServiceAssumption
    <2>2. QED
      BY <1>8, <1>10, <2>1
  <1>13. QED
    BY <1>11, <1>12 DEF BacklogInv

(* The scan limits are exceeded by less than the upload limits, whatever   *)
(* fails, is cancelled or crashes (scan_service.py:84-97,                  *)
(* upload_admission.py:36-44).                                             *)
THEOREM BacklogStaysBounded == Spec => []BacklogBounded
  <1>1. Init => BacklogInv
    <2> SUFFICES ASSUME Init PROVE BacklogInv
      OBVIOUS
    <2>1. Counted = {} /\ \A c : CountedOf(c) = {}
      BY DEF Init, Counted, CountedOf, Active, ActiveOf, ActiveStatus
    <2>2. IsFiniteSet({}) /\ Cardinality({}) = 0
      BY FS_EmptySet
    <2>3. 0 < MaxActive + MaxGlobal /\ 0 < MaxClientActive + MaxPerClient
      BY ServiceAssumption DEF ServiceAssumption
    <2>4. QED
      BY <2>1, <2>2, <2>3 DEF BacklogInv
  <1>2. ServiceInv /\ BacklogInv /\ [Next]_vars => BacklogInv'
    BY BacklogKept, ServiceAssumption
  <1>3. BacklogInv => BacklogBounded
    <2> SUFFICES ASSUME BacklogInv PROVE BacklogBounded
      OBVIOUS
    <2>1. /\ IsFiniteSet(Active) /\ Cardinality(Active) <= Cardinality(Counted)
          /\ \A c \in Clients :
                /\ IsFiniteSet(ActiveOf(c))
                /\ Cardinality(ActiveOf(c)) <= Cardinality(CountedOf(c))
      BY FS_Subset DEF BacklogInv, Counted, CountedOf
    <2>2. /\ Cardinality(Active) \in Nat /\ Cardinality(Counted) \in Nat
          /\ \A c \in Clients : /\ Cardinality(ActiveOf(c)) \in Nat
                                /\ Cardinality(CountedOf(c)) \in Nat
      BY <2>1, FS_CardinalityType DEF BacklogInv
    <2>3. QED
      BY <2>1, <2>2, ServiceAssumption DEF BacklogInv, BacklogBounded, ServiceAssumption
  <1>4. QED
    BY <1>1, <1>2, <1>3, ServiceInvariant, PTL DEF Spec
----------------------------------------------------------------------------
(* The refinement.                                                         *)
(* A step that answers nobody and writes no row is not seen.               *)
LEMMA QuietStep ==
    ASSUME UNCHANGED <<status, stored, reply>>
    PROVE  UNCHANGED Lifecycle!vars
  BY DEF Lifecycle!vars, AnswerView

(* One submission is answered with a.                                      *)
Answers(r, a) ==
    /\ reply[r] = "none" /\ reply' = [reply EXCEPT ![r] = a]
    /\ UNCHANGED <<status, stored>>

LEMMA AnswerSeen ==
    ASSUME Typed, NEW r \in Requests, NEW a, Answers(r, a),
           \/ a = "accepted" /\ status[r] \in Terminal
           \/ a = "busy" /\ status[r] = "NONE"
           \/ a \in {"invalid", "error", "cancelled"}
    PROVE  Lifecycle!Next
<1>1. /\ reply \in [Requests -> {"none", "accepted", "busy", "invalid", "error", "cancelled", "lost"}]
      /\ reply[r] = "none" /\ reply' = [reply EXCEPT ![r] = a]
  BY DEF Answers, Typed, ThreadTyped
<1>2. AnswerView[r] = "none"
  BY <1>1 DEF AnswerView, Shown
<1>3. AnswerView' = [AnswerView EXCEPT ![r] = IF a \in Shown THEN a ELSE "other"]
  BY <1>1 DEF AnswerView
<1>4. UNCHANGED <<status, stored>>
  BY DEF Answers
<1>5. CASE a = "accepted"
  <2>1. Lifecycle!Accept(r)
    BY <1>2, <1>3, <1>4, <1>5 DEF Shown, Terminal, Lifecycle!Accept
  <2> QED  BY <2>1 DEF Lifecycle!Next
<1>6. CASE a = "busy"
  <2>1. Lifecycle!Busy(r)
    BY <1>2, <1>3, <1>4, <1>6 DEF Shown, Lifecycle!Busy
  <2> QED  BY <2>1 DEF Lifecycle!Next
<1>7. CASE a \in {"invalid", "error", "cancelled"}
  <2>1. AnswerView' = [q \in Requests |-> IF q \in {r} THEN "other" ELSE AnswerView[q]]
    BY <1>3, <1>7 DEF AnswerView, Shown
  <2>2. Lifecycle!AnswerOtherwise({r})
    BY <1>2, <1>4, <2>1 DEF Lifecycle!AnswerOtherwise
  <2> QED  BY <2>2 DEF Lifecycle!Next
<1> QED  BY <1>5, <1>6, <1>7

(* The row of one submission changes.                                      *)
Writes(r, s) == status' = [status EXCEPT ![r] = s] /\ reply' = reply

LEMMA WriteSeen ==
    ASSUME Typed, NEW r \in Requests, NEW s, Writes(r, s),
           \/ s = "QUEUED" /\ status[r] = "NONE" /\ reply[r] = "none" /\ UNCHANGED stored
           \/ s = "RUNNING" /\ status[r] = "QUEUED" /\ UNCHANGED stored
           \/ s = "COMPLETED" /\ status[r] = "RUNNING" /\ stored' = stored \cup {r}
           \/ s = "FAILED" /\ status[r] \in ActiveStatus /\ UNCHANGED stored
    PROVE  Lifecycle!Next
<1>1. /\ status' = [status EXCEPT ![r] = s] /\ AnswerView' = AnswerView
      /\ status \in [Requests -> ActiveStatus \cup Terminal \cup {"NONE"}]
  BY DEF Writes, AnswerView, Typed, StoreTyped
<1>2. CASE s = "QUEUED"
  <2>1. AnswerView[r] = "none"
    BY <1>2 DEF AnswerView, Shown
  <2>2. Lifecycle!Create(r)
    BY <1>1, <1>2, <2>1 DEF Lifecycle!Create
  <2> QED  BY <2>2 DEF Lifecycle!Next
<1>3. CASE s = "RUNNING"
  <2>1. Lifecycle!Begin(r)
    BY <1>1, <1>3 DEF Lifecycle!Begin
  <2> QED  BY <2>1 DEF Lifecycle!Next
<1>4. CASE s = "COMPLETED"
  <2>1. Lifecycle!Complete(r)
    BY <1>1, <1>4 DEF Lifecycle!Complete
  <2> QED  BY <2>1 DEF Lifecycle!Next
<1>5. CASE s = "FAILED"
  <2>1. {r} \subseteq Lifecycle!Unsettled
    BY <1>5 DEF ActiveStatus, Lifecycle!Unsettled
  <2>2. status' = [q \in Requests |-> IF q \in {r} THEN "FAILED" ELSE status[q]]
    BY <1>1, <1>5
  <2>3. Lifecycle!Fail({r})
    BY <1>1, <1>5, <2>1, <2>2 DEF Lifecycle!Fail
  <2> QED  BY <2>3 DEF Lifecycle!Next
<1> QED  BY <1>2, <1>3, <1>4, <1>5

(* With no fault to come, an update of the row is done.                    *)
LEMMA UpdateSucceeds ==
    ASSUME Typed, ~DbFault, NEW r \in Requests, session[r] = "ok", NEW s, NEW e, NEW done, NEW failed,
           UpdateStatus(r, s, e, done, failed)
    PROVE  Writes(r, s) /\ UNCHANGED stored
  BY DEF UpdateStatus, SetStatus, Writes

LEMMA SubmissionSeen ==
    ASSUME ServiceInv, dbFaults = 0, ~DbFault, NEW r \in Requests,
           Reserve(r) \/ UploadEnds(r) \/ Cancel(r) \/ ThreadStep(r) \/ RunnerStep(r)
    PROVE  Lifecycle!Next \/ UNCHANGED <<status, stored, reply>>
<1> USE DEF tableVars
<1>1. Typed /\ PlaceInv(r)
  BY DEF ServiceInv
<1>2. /\ pc[r] \in NoRowYet => status[r] = "NONE"
      /\ pc[r] # "over" => reply[r] = "none"
      /\ session[r] = "ok"
      /\ pc[r] \notin {"save_failed", "handler", "cleanup_raise"}
  BY <1>1 DEF PlaceInv, RowInv, EndInv, SettledInv
<1>3. CASE Reserve(r)
  <2>1. pc[r] = "idle" /\ UNCHANGED <<status, stored>>
        /\ (reply' = reply \/ reply' = [reply EXCEPT ![r] = "busy"])
    BY <1>3 DEF Reserve
  <2>2. ASSUME reply' = [reply EXCEPT ![r] = "busy"] PROVE Lifecycle!Next
    <3>1. Answers(r, "busy") /\ status[r] = "NONE"
      BY <1>2, <2>1, <2>2 DEF Answers, NoRowYet
    <3> QED  BY <1>1, <3>1, AnswerSeen
  <2> QED  BY <2>1, <2>2
<1>4. CASE UploadEnds(r) \/ Cancel(r)
  <2>1. UNCHANGED <<status, stored>> /\ pc[r] # "over"
        /\ (reply' = reply \/ \E a \in {"invalid", "cancelled"} : reply' = [reply EXCEPT ![r] = a])
    BY <1>4 DEF UploadEnds, UploadRead, UploadRefused, Cancel, EndRequest, ThreadStates
  <2>2. ASSUME NEW a \in {"invalid", "cancelled"}, reply' = [reply EXCEPT ![r] = a] PROVE Lifecycle!Next
    <3>1. Answers(r, a)
      BY <1>2, <2>1, <2>2 DEF Answers
    <3> QED  BY <1>1, <3>1, AnswerSeen
  <2> QED  BY <2>1, <2>2
<1>5. CASE CreateRow(r)
  <2>1. pc[r] = "create" /\ Writes(r, "QUEUED") /\ UNCHANGED stored
    BY <1>5 DEF CreateRow, SetStatus, Writes
  <2>2. status[r] = "NONE" /\ reply[r] = "none"
    BY <1>2, <2>1 DEF NoRowYet
  <2> QED  BY <1>1, <2>1, <2>2, WriteSeen
<1>6. CASE RejectStatus(r) \/ FailScan(r)
  <2>1. pc[r] \in {"reject_status", "fail"} /\ Writes(r, "FAILED") /\ UNCHANGED stored
    BY <1>1, <1>2, <1>6, UpdateSucceeds DEF RejectStatus, FailScan
  <2>2. status[r] \in ActiveStatus
    BY <1>1, <2>1 DEF PlaceInv, RowInv, ActiveStatus
  <2> QED  BY <1>1, <2>1, <2>2, WriteSeen
<1>7. CASE MarkRunning(r)
  <2>1. pc[r] = "start" /\ Writes(r, "RUNNING") /\ UNCHANGED stored
    BY <1>1, <1>2, <1>7, UpdateSucceeds DEF MarkRunning
  <2>2. status[r] = "QUEUED"
    BY <1>1, <2>1 DEF PlaceInv, RowInv
  <2> QED  BY <1>1, <2>1, <2>2, WriteSeen
<1>8. CASE SaveOutput(r)
  <2>1. pc[r] = "save" /\ Writes(r, "COMPLETED") /\ stored' = stored \cup {r}
    BY <1>8 DEF SaveOutput, Writes
  <2>2. status[r] = "RUNNING"
    BY <1>1, <2>1 DEF PlaceInv, RowInv
  <2> QED  BY <1>1, <2>1, <2>2, WriteSeen
<1>9. CASE Respond(r)
  <2>1. /\ pc[r] = "respond" /\ UNCHANGED <<status, stored>>
        /\ \/ raised[r] # "no" /\ reply' = [reply EXCEPT ![r] = raised[r]]
           \/ reply' = [reply EXCEPT ![r] = "cancelled"]
           \/ raised[r] = "no" /\ reply' = [reply EXCEPT ![r] = "accepted"]
           \/ reply' = [reply EXCEPT ![r] = "error"]
    BY <1>9 DEF Respond, EndRequest
  <2>2. PICK a : /\ Answers(r, a)
                 /\ \/ a = raised[r] /\ raised[r] # "no"
                    \/ a \in {"cancelled", "error"}
                    \/ a = "accepted" /\ raised[r] = "no"
    BY <1>2, <2>1 DEF Answers
  <2>3. raised[r] \in {"no", "busy", "invalid", "error"}
    BY <1>1 DEF Typed, ThreadTyped
  <2>4. \/ a = "accepted" /\ status[r] \in Terminal
        \/ a = "busy" /\ status[r] = "NONE"
        \/ a \in {"invalid", "error", "cancelled"}
    BY <1>1, <2>1, <2>2, <2>3 DEF PlaceInv, EndInv
  <2> QED  BY <1>1, <2>2, <2>4, AnswerSeen
<1>10. CASE SaveFailed(r) \/ Handler(r)
  BY <1>2, <1>10 DEF SaveFailed, Handler
<1>11. CASE \/ CountFails(r) \/ CountTotal(r) \/ CountClient(r) \/ InputInvalid(r) \/ Prepare(r)
            \/ PrepareFails(r) \/ RejectClean(r) \/ SubmitJob(r) \/ TakeResult(r) \/ Cleanup(r)
            \/ RunnerStep(r)
  BY <1>11 DEF CountFails, CountTotal, CountClient, InputInvalid, Prepare, PrepareFails,
               RejectClean, SubmitJob, TakeResult, Cleanup, RunnerStep
<1> QED  BY <1>3, <1>4, <1>5, <1>6, <1>7, <1>8, <1>9, <1>10, <1>11 DEF ThreadStep

LEMMA ProcessSeen ==
    ASSUME ServiceInv, ~DbFault, Crash \/ Shutdown \/ StartUpStep
    PROVE  Lifecycle!Next \/ UNCHANGED <<status, stored, reply>>
<1> USE DEF tableVars
<1>1. Typed /\ \A q \in Requests : PlaceInv(q)
  BY DEF ServiceInv
<1>2. CASE Crash
  <2> DEFINE S == {q \in Requests : pc[q] \in InFlightStates}
  <2>1. /\ UNCHANGED <<status, stored>>
        /\ reply' = [q \in Requests |-> IF q \in S THEN "lost" ELSE reply[q]]
    BY <1>2 DEF Crash
  <2>2. \A q \in S : reply[q] = "none"
    BY <1>1 DEF PlaceInv, EndInv, InFlightStates, ThreadStates
  <2>3. reply \in [Requests -> {"none", "accepted", "busy", "invalid", "error", "cancelled", "lost"}]
    BY <1>1 DEF Typed, ThreadTyped
  <2>4. S \subseteq Requests
    OBVIOUS
  <2> HIDE DEF S
  <2>5. CASE S = {}
    <3>1. reply' = reply  BY <2>1, <2>3, <2>5
    <3> QED  BY <2>1, <3>1
  <2>6. CASE S # {}
    <3>1. AnswerView' = [q \in Requests |-> IF q \in S THEN "other" ELSE AnswerView[q]]
      BY <2>1 DEF AnswerView, Shown
    <3>2. \A q \in S : AnswerView[q] = "none"
      BY <2>2, <2>4 DEF AnswerView, Shown
    <3>3. Lifecycle!AnswerOtherwise(S)
      BY <2>1, <2>6, <3>1, <3>2 DEF Lifecycle!AnswerOtherwise
    <3>4. \E T \in SUBSET Requests : Lifecycle!AnswerOtherwise(T)
      BY ONLY <2>4, <3>3
    <3> QED  BY <3>4 DEF Lifecycle!Next
  <2> QED  BY <2>5, <2>6
<1>3. CASE StartUp
  <2>1. /\ status' = [q \in Requests |-> IF q \in Active THEN "FAILED" ELSE status[q]]
        /\ UNCHANGED <<stored, reply>>
    BY <1>3 DEF StartUp, RecoverTable
  <2>2. Active \subseteq Requests /\ Active \subseteq Lifecycle!Unsettled
    BY DEF Active, ActiveStatus, Lifecycle!Unsettled
  <2>3. CASE Active = {}
    <3>1. status' = status  BY <1>1, <2>1, <2>3 DEF Typed, StoreTyped
    <3> QED  BY <2>1, <3>1
  <2>4. CASE Active # {}
    <3>1. AnswerView' = AnswerView  BY <2>1 DEF AnswerView
    <3>2. Lifecycle!Fail(Active)
      BY <2>1, <2>2, <2>4, <3>1 DEF Lifecycle!Fail
    <3> QED  BY <2>2, <3>2 DEF Lifecycle!Next
  <2> QED  BY <2>3, <2>4
<1>4. CASE Shutdown \/ RecoveryComplete \/ \E r \in Requests : CleanInterrupted(r)
  BY <1>4 DEF Shutdown, RecoveryComplete, CleanInterrupted
<1> QED  BY <1>2, <1>3, <1>4 DEF StartUpStep

(* As long as the database works, the service does with a scan what        *)
(* ScanLifecycle promises, across interleavings, cancellations, crashes and*)
(* restarts: the safety part of ImplementsLifecycle.                       *)
THEOREM ServiceImplementsLifecycle ==
    ASSUME MaxDbFaults = 0
    PROVE  Spec => Lifecycle!Init /\ [][Lifecycle!Next]_(Lifecycle!vars)
<1>1. Init => Lifecycle!Init
  <2> SUFFICES ASSUME Init PROVE Lifecycle!Init
    OBVIOUS
  <2>1. AnswerView = [r \in Requests |-> "none"]
    BY DEF Init, AnswerView, Shown
  <2> QED  BY <2>1 DEF Init, Lifecycle!Init
<1>2. ServiceInv /\ [Next]_vars => [Lifecycle!Next]_(Lifecycle!vars)
  <2> SUFFICES ASSUME ServiceInv, [Next]_vars PROVE [Lifecycle!Next]_(Lifecycle!vars)
    OBVIOUS
  <2>1. dbFaults = 0 /\ ~DbFault
    BY DEF ServiceInv, Typed, ProcessTyped, DbFault
  <2>2. Lifecycle!Next \/ UNCHANGED <<status, stored, reply>>
    <3>1. CASE UNCHANGED vars
      BY <3>1 DEF vars, tableVars
    <3> QED  BY <2>1, <3>1, SubmissionSeen, ProcessSeen DEF Next
  <2> QED  BY <2>2, QuietStep
<1> QED  BY <1>1, <1>2, ServiceInvariant, PTL DEF Spec
=============================================================================
