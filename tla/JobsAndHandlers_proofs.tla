----------------------- MODULE JobsAndHandlers_proofs -----------------------
(***************************************************************************)
(* Proofs about the runner of the analysis processes and about the two     *)
(* handlers of app/api/v1/scans.py that wait for something slow.           *)
(*                                                                         *)
(* ProcessJobRunner, for any number of jobs, worker threads and messages:  *)
(* what run() returns is genuine, its process is gone, the processes are   *)
(* bounded, and every step of the pipe protocol is a step of JobRunnerSpec *)
(* or changes nothing there.                                               *)
(*                                                                         *)
(* RequestOrchestration, for any requests, clients, limits and number of   *)
(* cancellations: the slot of a request covers its thread, what the        *)
(* request reports is what happened, and the counters of the admission     *)
(* never drift.                                                            *)
(*                                                                         *)
(* ScanAssistant, for any number of questions, any scan, any rankings and  *)
(* limits, and whatever the model answers: the one permit is never lost,   *)
(* and an answer cites only what it was shown.                             *)
(***************************************************************************)
EXTENDS ProcessJobRunner, RequestOrchestration, UploadAdmission_proofs, ScanAssistant,
        FiniteSetTheorems, TLAPS

-----------------------------------------------------------------------------
(* The runner.                                                             *)

(* The watcher has begun with the job's child and holds no verdict.        *)
Watching == {"poll", "recheck", "late_recv", "is_alive", "recv"}

(* The executor's queue holds each waiting job once and nothing else.      *)
QueueInv ==
    /\ \A i \in 1..Len(queue) : watcher[queue[i]] = "queued"
    /\ \A i, k \in 1..Len(queue) : queue[i] = queue[k] => i = k

(* The pipe holds what the child has written, and nothing is written       *)
(* behind an answer.                                                       *)
PipeInv ==
    \A j \in Jobs :
        /\ child[j] \in {"none", "running"} => pipe[j] = "empty"
        /\ child[j] = "writing" => pipe[j] = "partial"
        /\ answer[j] \in Messages <=> pipe[j] \in {"full", "drained"}

(* Where the watcher is tells whether there is a child and which verdict   *)
(* it can hold.  "lost" is decided only at the end of file, after which    *)
(* nothing can be written any more.                                        *)
WatcherInv ==
    \A j \in Jobs :
        /\ watcher[j] \in {"idle", "queued", "spawn"} => child[j] = "none"
        /\ child[j] = "none" => watcher[j] \in {"idle", "queued", "spawn", "returned"}
        /\ watcher[j] = "returned" => child[j] \in {"none", "dead"}
        /\ watcher[j] \in Watching => verdict[j] = "none" /\ pipe[j] # "drained"
        /\ watcher[j] \in {"recv", "late_recv"} => Readable(j)
        /\ watcher[j] \in {"term_join", "kill_join"} => verdict[j] = "timeout"
        /\ watcher[j] \in {"finally", "finally_term", "finally_kill"} => verdict[j] = "lost"
        /\ watcher[j] = "join" => verdict[j] # "none"
        /\ verdict[j] = "timeout" => child[j] # "none"
        /\ verdict[j] \in Messages => verdict[j] = answer[j]
        /\ verdict[j] = "lost" => answer[j] = "none" /\ EndOfFile(j)

OutcomeInv ==
    \A j \in Jobs :
        /\ outcome[j] # "none" => watcher[j] = "returned"
        /\ outcome[j] \in Messages => outcome[j] = answer[j]
        /\ outcome[j] = "lost" => answer[j] = "none" /\ child[j] \in {"none", "dead"}

WorkersInv == IsFiniteSet(Busy) /\ Cardinality(Busy) <= MaxWorkers

JobInv == TypeOK /\ QueueInv /\ PipeInv /\ WatcherInv /\ OutcomeInv

(* The child's own steps keep the invariant. *)
LEMMA ChildKeepsInv ==
    ASSUME RunnerAssumption, JobInv, NEW j \in Jobs, ChildStep(j)
    PROVE  JobInv'
  <1>1. CASE ChildWrites(j)
    <2>1. TypeOK'
      BY <1>1 DEF JobInv, TypeOK, WatcherStates, ChildStates, ChildWrites, watcherVars
    <2>2. QueueInv'
      BY <1>1 DEF JobInv, TypeOK, QueueInv, ChildWrites, watcherVars
    <2>3. PipeInv'
      BY <1>1, RunnerAssumption
         DEF RunnerAssumption, JobInv, TypeOK, PipeInv, WatcherInv, ChildWrites,
             EndOfFile, Readable, Watching, watcherVars
    <2>4. WatcherInv'
      BY <1>1, RunnerAssumption
         DEF RunnerAssumption, JobInv, TypeOK, WatcherInv, PipeInv, ChildWrites,
             EndOfFile, Readable, Watching, watcherVars
    <2>5. OutcomeInv'
      BY <1>1, RunnerAssumption
         DEF RunnerAssumption, JobInv, TypeOK, OutcomeInv, WatcherInv, PipeInv, ChildWrites,
             EndOfFile, Readable, Watching, watcherVars
    <2>6. QED
      BY <2>1, <2>2, <2>3, <2>4, <2>5 DEF JobInv
  <1>2. CASE ChildSent(j)
    <2>1. TypeOK'
      BY <1>2 DEF JobInv, TypeOK, WatcherStates, ChildStates, ChildSent, watcherVars
    <2>2. QueueInv'
      BY <1>2 DEF JobInv, TypeOK, QueueInv, ChildSent, watcherVars
    <2>3. PipeInv'
      BY <1>2, RunnerAssumption
         DEF RunnerAssumption, JobInv, TypeOK, PipeInv, WatcherInv, ChildSent,
             EndOfFile, Readable, Watching, watcherVars
    <2>4. WatcherInv'
      BY <1>2, RunnerAssumption
         DEF RunnerAssumption, JobInv, TypeOK, WatcherInv, PipeInv, ChildSent,
             EndOfFile, Readable, Watching, watcherVars
    <2>5. OutcomeInv'
      BY <1>2, RunnerAssumption
         DEF RunnerAssumption, JobInv, TypeOK, OutcomeInv, WatcherInv, PipeInv, ChildSent,
             EndOfFile, Readable, Watching, watcherVars
    <2>6. QED
      BY <2>1, <2>2, <2>3, <2>4, <2>5 DEF JobInv
  <1>3. CASE ChildCloses(j)
    <2>1. TypeOK'
      BY <1>3 DEF JobInv, TypeOK, WatcherStates, ChildStates, ChildCloses, watcherVars
    <2>2. QueueInv'
      BY <1>3 DEF JobInv, TypeOK, QueueInv, ChildCloses, watcherVars
    <2>3. PipeInv'
      BY <1>3, RunnerAssumption
         DEF RunnerAssumption, JobInv, TypeOK, PipeInv, WatcherInv, ChildCloses,
             EndOfFile, Readable, Watching, watcherVars
    <2>4. WatcherInv'
      BY <1>3, RunnerAssumption
         DEF RunnerAssumption, JobInv, TypeOK, WatcherInv, PipeInv, ChildCloses,
             EndOfFile, Readable, Watching, watcherVars
    <2>5. OutcomeInv'
      BY <1>3, RunnerAssumption
         DEF RunnerAssumption, JobInv, TypeOK, OutcomeInv, WatcherInv, PipeInv, ChildCloses,
             EndOfFile, Readable, Watching, watcherVars
    <2>6. QED
      BY <2>1, <2>2, <2>3, <2>4, <2>5 DEF JobInv
  <1>4. CASE ChildDies(j)
    <2>1. TypeOK'
      BY <1>4
         DEF JobInv, TypeOK, WatcherStates, ChildStates, ChildDies, Alive, watcherVars
    <2>2. QueueInv'
      BY <1>4 DEF JobInv, TypeOK, QueueInv, ChildDies, Alive, watcherVars
    <2>3. PipeInv'
      BY <1>4, RunnerAssumption
         DEF RunnerAssumption, JobInv, TypeOK, PipeInv, WatcherInv, ChildDies, Alive,
             EndOfFile, Readable, Watching, watcherVars
    <2>4. WatcherInv'
      BY <1>4, RunnerAssumption
         DEF RunnerAssumption, JobInv, TypeOK, WatcherInv, PipeInv, ChildDies, Alive,
             EndOfFile, Readable, Watching, watcherVars
    <2>5. OutcomeInv'
      BY <1>4, RunnerAssumption
         DEF RunnerAssumption, JobInv, TypeOK, OutcomeInv, WatcherInv, PipeInv, ChildDies,
             Alive, EndOfFile, Readable, Watching, watcherVars
    <2>6. QED
      BY <2>1, <2>2, <2>3, <2>4, <2>5 DEF JobInv
  <1>5. QED
    BY <1>1, <1>2, <1>3, <1>4 DEF ChildStep

(* So do the watcher's. *)
LEMMA WatcherKeepsInv ==
    ASSUME RunnerAssumption, JobInv, NEW j \in Jobs, WatcherStep(j)
    PROVE  JobInv'
  <1>1. CASE Spawn(j)
    <2>1. TypeOK'
      BY <1>1 DEF JobInv, TypeOK, WatcherStates, ChildStates, Spawn, Goto
    <2>2. QueueInv'
      BY <1>1 DEF JobInv, TypeOK, QueueInv, Spawn, Goto
    <2>3. PipeInv'
      BY <1>1, RunnerAssumption
         DEF RunnerAssumption, JobInv, TypeOK, PipeInv, WatcherInv, Spawn, Goto, EndOfFile, Readable, Watching
    <2>4. WatcherInv'
      BY <1>1, RunnerAssumption
         DEF RunnerAssumption, JobInv, TypeOK, WatcherInv, PipeInv, Spawn, Goto, EndOfFile, Readable, Watching
    <2>5. OutcomeInv'
      BY <1>1, RunnerAssumption
         DEF RunnerAssumption, JobInv, TypeOK, OutcomeInv, WatcherInv, PipeInv, Spawn,
             Goto, EndOfFile, Readable, Watching
    <2>6. QED
      BY <2>1, <2>2, <2>3, <2>4, <2>5 DEF JobInv
  <1>2. CASE SpawnFails(j)
    <2>1. TypeOK'
      BY <1>2 DEF JobInv, TypeOK, WatcherStates, ChildStates, SpawnFails, Goto, childVars
    <2>2. QueueInv'
      BY <1>2 DEF JobInv, TypeOK, QueueInv, SpawnFails, Goto, childVars
    <2>3. PipeInv'
      BY <1>2, RunnerAssumption
         DEF RunnerAssumption, JobInv, TypeOK, PipeInv, WatcherInv, SpawnFails, Goto,
             EndOfFile, Readable, Watching, childVars
    <2>4. WatcherInv'
      BY <1>2, RunnerAssumption
         DEF RunnerAssumption, JobInv, TypeOK, WatcherInv, PipeInv, SpawnFails, Goto,
             EndOfFile, Readable, Watching, childVars
    <2>5. OutcomeInv'
      BY <1>2, RunnerAssumption
         DEF RunnerAssumption, JobInv, TypeOK, OutcomeInv, WatcherInv, PipeInv, SpawnFails,
             Goto, EndOfFile, Readable, Watching, childVars
    <2>6. QED
      BY <2>1, <2>2, <2>3, <2>4, <2>5 DEF JobInv
  <1>3. CASE PollReady(j)
    <2>1. TypeOK'
      BY <1>3
         DEF JobInv, TypeOK, WatcherStates, ChildStates, PollReady,
             Goto, EndOfFile, Readable, childVars
    <2>2. QueueInv'
      BY <1>3
         DEF JobInv, TypeOK, QueueInv, PollReady, Goto, EndOfFile, Readable, childVars
    <2>3. PipeInv'
      BY <1>3, RunnerAssumption
         DEF RunnerAssumption, JobInv, TypeOK, PipeInv, WatcherInv, PollReady, Goto,
             EndOfFile, Readable, Watching, childVars
    <2>4. WatcherInv'
      BY <1>3, RunnerAssumption
         DEF RunnerAssumption, JobInv, TypeOK, WatcherInv, PipeInv, PollReady, Goto,
             EndOfFile, Readable, Watching, childVars
    <2>5. OutcomeInv'
      BY <1>3, RunnerAssumption
         DEF RunnerAssumption, JobInv, TypeOK, OutcomeInv, WatcherInv, PipeInv, PollReady,
             Goto, EndOfFile, Readable, Watching, childVars
    <2>6. QED
      BY <2>1, <2>2, <2>3, <2>4, <2>5 DEF JobInv
  <1>4. CASE PollTimesOut(j)
    <2>1. TypeOK'
      BY <1>4
         DEF JobInv, TypeOK, WatcherStates, ChildStates, PollTimesOut,
             Goto, EndOfFile, Readable, childVars
    <2>2. QueueInv'
      BY <1>4
         DEF JobInv, TypeOK, QueueInv, PollTimesOut, Goto, EndOfFile, Readable, childVars
    <2>3. PipeInv'
      BY <1>4, RunnerAssumption
         DEF RunnerAssumption, JobInv, TypeOK, PipeInv, WatcherInv, PollTimesOut, Goto,
             EndOfFile, Readable, Watching, childVars
    <2>4. WatcherInv'
      BY <1>4, RunnerAssumption
         DEF RunnerAssumption, JobInv, TypeOK, WatcherInv, PipeInv, PollTimesOut, Goto,
             EndOfFile, Readable, Watching, childVars
    <2>5. OutcomeInv'
      BY <1>4, RunnerAssumption
         DEF RunnerAssumption, JobInv, TypeOK, OutcomeInv, WatcherInv, PipeInv, PollTimesOut,
             Goto, EndOfFile, Readable, Watching, childVars
    <2>6. QED
      BY <2>1, <2>2, <2>3, <2>4, <2>5 DEF JobInv
  <1>5. CASE Recheck(j)
    <2>1. TypeOK'
      BY <1>5
         DEF JobInv, TypeOK, WatcherStates, ChildStates, Recheck,
             Goto, EndOfFile, Readable, childVars
    <2>2. QueueInv'
      BY <1>5 DEF JobInv, TypeOK, QueueInv, Recheck, Goto, EndOfFile, Readable, childVars
    <2>3. PipeInv'
      BY <1>5, RunnerAssumption
         DEF RunnerAssumption, JobInv, TypeOK, PipeInv, WatcherInv, Recheck, Goto,
             EndOfFile, Readable, Watching, childVars
    <2>4. WatcherInv'
      BY <1>5, RunnerAssumption
         DEF RunnerAssumption, JobInv, TypeOK, WatcherInv, PipeInv, Recheck, Goto,
             EndOfFile, Readable, Watching, childVars
    <2>5. OutcomeInv'
      BY <1>5, RunnerAssumption
         DEF RunnerAssumption, JobInv, TypeOK, OutcomeInv, WatcherInv, PipeInv, Recheck,
             Goto, EndOfFile, Readable, Watching, childVars
    <2>6. QED
      BY <2>1, <2>2, <2>3, <2>4, <2>5 DEF JobInv
  <1>6. CASE Receive(j)
    <2>1. TypeOK'
      BY <1>6 DEF JobInv, TypeOK, WatcherStates, ChildStates, Receive, Goto, Decide
    <2>2. QueueInv'
      BY <1>6 DEF JobInv, TypeOK, QueueInv, Receive, Goto, Decide
    <2>3. PipeInv'
      BY <1>6, RunnerAssumption
         DEF RunnerAssumption, JobInv, TypeOK, PipeInv, WatcherInv, Receive, Goto,
             Decide, EndOfFile, Readable, Watching
    <2>4. WatcherInv'
      BY <1>6, RunnerAssumption
         DEF RunnerAssumption, JobInv, TypeOK, WatcherInv, PipeInv, Receive, Goto,
             Decide, EndOfFile, Readable, Watching
    <2>5. OutcomeInv'
      BY <1>6, RunnerAssumption
         DEF RunnerAssumption, JobInv, TypeOK, OutcomeInv, WatcherInv, PipeInv, Receive,
             Goto, Decide, EndOfFile, Readable, Watching
    <2>6. QED
      BY <2>1, <2>2, <2>3, <2>4, <2>5 DEF JobInv
  <1>7. CASE ReceiveFails(j)
    <2>1. TypeOK'
      BY <1>7
         DEF JobInv, TypeOK, WatcherStates, ChildStates, ReceiveFails,
             Goto, Decide, EndOfFile, childVars
    <2>2. QueueInv'
      BY <1>7
         DEF JobInv, TypeOK, QueueInv, ReceiveFails, Goto, Decide, EndOfFile, childVars
    <2>3. PipeInv'
      BY <1>7, RunnerAssumption
         DEF RunnerAssumption, JobInv, TypeOK, PipeInv, WatcherInv, ReceiveFails, Goto,
             Decide, EndOfFile, Readable, Watching, childVars
    <2>4. WatcherInv'
      BY <1>7, RunnerAssumption
         DEF RunnerAssumption, JobInv, TypeOK, WatcherInv, PipeInv, ReceiveFails, Goto,
             Decide, EndOfFile, Readable, Watching, childVars
    <2>5. OutcomeInv'
      BY <1>7, RunnerAssumption
         DEF RunnerAssumption, JobInv, TypeOK, OutcomeInv, WatcherInv, PipeInv, ReceiveFails, Goto,
             Decide, EndOfFile, Readable, Watching, childVars
    <2>6. QED
      BY <2>1, <2>2, <2>3, <2>4, <2>5 DEF JobInv
  <1>8. CASE IsAlive(j)
    <2>1. TypeOK'
      BY <1>8
         DEF JobInv, TypeOK, WatcherStates, ChildStates, IsAlive,
             Goto, Decide, Alive, childVars
    <2>2. QueueInv'
      BY <1>8 DEF JobInv, TypeOK, QueueInv, IsAlive, Goto, Decide, Alive, childVars
    <2>3. PipeInv'
      BY <1>8, RunnerAssumption
         DEF RunnerAssumption, JobInv, TypeOK, PipeInv, WatcherInv, IsAlive, Goto, Decide,
             Alive, EndOfFile, Readable, Watching, childVars
    <2>4. WatcherInv'
      BY <1>8, RunnerAssumption
         DEF RunnerAssumption, JobInv, TypeOK, WatcherInv, PipeInv, IsAlive, Goto, Decide,
             Alive, EndOfFile, Readable, Watching, childVars
    <2>5. OutcomeInv'
      BY <1>8, RunnerAssumption
         DEF RunnerAssumption, JobInv, TypeOK, OutcomeInv, WatcherInv, PipeInv, IsAlive, Goto,
             Decide, Alive, EndOfFile, Readable, Watching, childVars
    <2>6. QED
      BY <2>1, <2>2, <2>3, <2>4, <2>5 DEF JobInv
  <1>9. CASE Kill(j)
    <2>1. TypeOK'
      BY <1>9 DEF JobInv, TypeOK, WatcherStates, ChildStates, Kill, Goto, Alive, childVars
    <2>2. QueueInv'
      BY <1>9 DEF JobInv, TypeOK, QueueInv, Kill, Goto, Alive, childVars
    <2>3. PipeInv'
      BY <1>9, RunnerAssumption
         DEF RunnerAssumption, JobInv, TypeOK, PipeInv, WatcherInv, Kill, Goto,
             Alive, EndOfFile, Readable, Watching, childVars
    <2>4. WatcherInv'
      BY <1>9, RunnerAssumption
         DEF RunnerAssumption, JobInv, TypeOK, WatcherInv, PipeInv, Kill, Goto,
             Alive, EndOfFile, Readable, Watching, childVars
    <2>5. OutcomeInv'
      BY <1>9, RunnerAssumption
         DEF RunnerAssumption, JobInv, TypeOK, OutcomeInv, WatcherInv, PipeInv, Kill, Goto,
             Alive, EndOfFile, Readable, Watching, childVars
    <2>6. QED
      BY <2>1, <2>2, <2>3, <2>4, <2>5 DEF JobInv
  <1>10. CASE Finally(j)
    <2>1. TypeOK'
      BY <1>10
         DEF JobInv, TypeOK, WatcherStates, ChildStates, Finally, Goto, Alive, childVars
    <2>2. QueueInv'
      BY <1>10 DEF JobInv, TypeOK, QueueInv, Finally, Goto, Alive, childVars
    <2>3. PipeInv'
      BY <1>10, RunnerAssumption
         DEF RunnerAssumption, JobInv, TypeOK, PipeInv, WatcherInv, Finally, Goto,
             Alive, EndOfFile, Readable, Watching, childVars
    <2>4. WatcherInv'
      BY <1>10, RunnerAssumption
         DEF RunnerAssumption, JobInv, TypeOK, WatcherInv, PipeInv, Finally, Goto,
             Alive, EndOfFile, Readable, Watching, childVars
    <2>5. OutcomeInv'
      BY <1>10, RunnerAssumption
         DEF RunnerAssumption, JobInv, TypeOK, OutcomeInv, WatcherInv, PipeInv, Finally, Goto,
             Alive, EndOfFile, Readable, Watching, childVars
    <2>6. QED
      BY <2>1, <2>2, <2>3, <2>4, <2>5 DEF JobInv
  <1>11. CASE JoinReturns(j)
    <2>1. TypeOK'
      BY <1>11
         DEF JobInv, TypeOK, WatcherStates, ChildStates, JoinReturns, Goto, Dead, childVars
    <2>2. QueueInv'
      BY <1>11 DEF JobInv, TypeOK, QueueInv, JoinReturns, Goto, Dead, childVars
    <2>3. PipeInv'
      BY <1>11, RunnerAssumption
         DEF RunnerAssumption, JobInv, TypeOK, PipeInv, WatcherInv, JoinReturns, Goto,
             Dead, EndOfFile, Readable, Watching, childVars
    <2>4. WatcherInv'
      BY <1>11, RunnerAssumption
         DEF RunnerAssumption, JobInv, TypeOK, WatcherInv, PipeInv, JoinReturns, Goto,
             Dead, EndOfFile, Readable, Watching, childVars
    <2>5. OutcomeInv'
      BY <1>11, RunnerAssumption
         DEF RunnerAssumption, JobInv, TypeOK, OutcomeInv, WatcherInv, PipeInv, JoinReturns, Goto,
             Dead, EndOfFile, Readable, Watching, childVars
    <2>6. QED
      BY <2>1, <2>2, <2>3, <2>4, <2>5 DEF JobInv
  <1>12. QED
    BY <1>1, <1>2, <1>3, <1>4, <1>5, <1>6, <1>7, <1>8, <1>9, <1>10, <1>11 DEF WatcherStep

(* A job enters the queue once, and is taken from its head. *)
LEMMA QueueKeepsInv ==
    ASSUME RunnerAssumption, JobInv, NEW j \in Jobs, RunCalled(j) \/ WorkerTakes(j)
    PROVE  JobInv'
  <1>1. CASE RunCalled(j)
    <2>1. /\ watcher[j] = "idle"
          /\ queue' = Append(queue, j)
          /\ watcher' = [watcher EXCEPT ![j] = "queued"]
          /\ UNCHANGED <<child, pipe, answer, signal, verdict, outcome>>
      BY <1>1 DEF RunCalled, Goto, childVars
    <2>2. TypeOK'
      BY <2>1 DEF JobInv, TypeOK, WatcherStates
    <2>3. QueueInv'
      <3>1. /\ Len(queue') = Len(queue) + 1
            /\ queue'[Len(queue) + 1] = j
            /\ \A i \in 1..Len(queue) : queue'[i] = queue[i]
            /\ Len(queue) \in Nat
        BY <2>1 DEF JobInv, TypeOK
      <3>2. \A i \in 1..Len(queue) : queue[i] # j /\ queue[i] \in Jobs
        BY <2>1 DEF JobInv, TypeOK, QueueInv
      <3>3. \A i \in 1..Len(queue') : watcher'[queue'[i]] = "queued"
        BY <2>1, <3>1, <3>2 DEF JobInv, TypeOK, QueueInv
      <3>4. \A i, k \in 1..Len(queue') : queue'[i] = queue'[k] => i = k
        BY <3>1, <3>2 DEF JobInv, QueueInv
      <3>5. QED
        BY <3>3, <3>4 DEF QueueInv
    <2>4. PipeInv'
      BY <2>1 DEF JobInv, TypeOK, PipeInv
    <2>5. WatcherInv' /\ OutcomeInv'
      BY <2>1 DEF JobInv, TypeOK, WatcherInv, OutcomeInv, Watching, Readable, EndOfFile
    <2>6. QED
      BY <2>2, <2>3, <2>4, <2>5 DEF JobInv
  <1>2. CASE WorkerTakes(j)
    <2>1. /\ queue # <<>> /\ j = Head(queue)
          /\ queue' = Tail(queue)
          /\ watcher' = [watcher EXCEPT ![j] = "spawn"]
          /\ UNCHANGED <<child, pipe, answer, signal, verdict, outcome>>
      BY <1>2 DEF WorkerTakes, Goto, childVars
    <2>2. queue \in Seq(Jobs) /\ Len(queue) \in Nat \ {0} /\ j = queue[1]
      BY <2>1 DEF JobInv, TypeOK
    <2>3. watcher[j] = "queued"
      BY <2>2 DEF JobInv, QueueInv
    <2>4. TypeOK'
      BY <2>1, <2>2 DEF JobInv, TypeOK, WatcherStates
    <2>5. QueueInv'
      <3>1. /\ Len(queue') = Len(queue) - 1
            /\ \A i \in 1..Len(queue') : queue'[i] = queue[i + 1] /\ i + 1 \in 1..Len(queue)
        BY <2>1, <2>2
      <3>2. \A i \in 1..Len(queue') : queue'[i] # j /\ queue'[i] \in Jobs
        BY <2>2, <3>1 DEF JobInv, QueueInv
      <3>3. \A i \in 1..Len(queue') : watcher'[queue'[i]] = "queued"
        BY <2>1, <3>1, <3>2 DEF JobInv, TypeOK, QueueInv
      <3>4. \A i, k \in 1..Len(queue') : queue'[i] = queue'[k] => i = k
        BY <2>2, <3>1 DEF JobInv, QueueInv
      <3>5. QED
        BY <3>3, <3>4 DEF QueueInv
    <2>6. PipeInv'
      BY <2>1 DEF JobInv, TypeOK, PipeInv
    <2>7. WatcherInv' /\ OutcomeInv'
      BY <2>1, <2>3
         DEF JobInv, TypeOK, WatcherInv, OutcomeInv, Watching, Readable, EndOfFile
    <2>8. QED
      BY <2>4, <2>5, <2>6, <2>7 DEF JobInv
  <1>3. QED
    BY <1>1, <1>2

(* JobInv holds for any jobs, any number of worker threads, any messages.  *)
THEOREM JobInvariant == Spec => []JobInv
  <1>1. Init => JobInv
    BY RunnerAssumption
       DEF RunnerAssumption, Init, JobInv, TypeOK, QueueInv, PipeInv, WatcherInv, OutcomeInv,
           WatcherStates, ChildStates, Watching
  <1>2. JobInv /\ [Next]_vars => JobInv'
    <2> SUFFICES ASSUME JobInv, [Next]_vars PROVE JobInv'
      OBVIOUS
    <2>1. ASSUME NEW j \in Jobs, RunCalled(j) \/ WorkerTakes(j) PROVE JobInv'
      BY <2>1, QueueKeepsInv, RunnerAssumption
    <2>2. ASSUME NEW j \in Jobs, WatcherStep(j) PROVE JobInv'
      BY <2>2, WatcherKeepsInv, RunnerAssumption
    <2>3. ASSUME NEW j \in Jobs, ChildStep(j) PROVE JobInv'
      BY <2>3, ChildKeepsInv, RunnerAssumption
    <2>4. CASE UNCHANGED vars
      BY <2>4
         DEF vars, JobInv, TypeOK, QueueInv, PipeInv, WatcherInv, OutcomeInv, Readable,
             EndOfFile
    <2>5. QED
      BY <2>1, <2>2, <2>3, <2>4 DEF Next
  <1>3. QED
    BY <1>1, <1>2, PTL DEF Spec

(* When run() returns, the child is gone: its workspace may be removed     *)
(* (jobs/runner.py:130-132).                                               *)
THEOREM NoChildOutlives == Spec => []NoChildOutlivesItsJob
  <1>1. JobInv => NoChildOutlivesItsJob
    BY DEF JobInv, WatcherInv, NoChildOutlivesItsJob, Alive
  <1>2. QED
    BY <1>1, JobInvariant, PTL

(* run() returns a message only if the child wrote it whole, and reports   *)
(* a lost worker only if it wrote none (jobs/runner.py:128-157).           *)
THEOREM OutcomesAreGenuine == Spec => []OutcomeGenuine
  <1>1. JobInv => OutcomeGenuine
    BY DEF JobInv, OutcomeInv, OutcomeGenuine
  <1>2. QED
    BY <1>1, JobInvariant, PTL

(* A child is never signalled after its message has been received          *)
(* (jobs/runner.py:128-139, 162-163).                                      *)
THEOREM AnsweredIsLeftAlone == Spec => AnsweredChildNotSignalled
  <1> DEFINE LeftAlone == \A j \in Jobs : signal'[j] # signal[j] => verdict[j] \notin Messages
  <1>1. JobInv /\ [Next]_vars => [LeftAlone]_vars
    <2> SUFFICES ASSUME JobInv, Next, NEW j \in Jobs, signal'[j] # signal[j]
                 PROVE  verdict[j] \notin Messages
      OBVIOUS
    <2>1. PICK i \in Jobs : RunCalled(i) \/ WorkerTakes(i) \/ WatcherStep(i) \/ ChildStep(i)
      BY DEF Next
    <2>2. IsAlive(i) \/ Kill(i) \/ Finally(i)
      BY <2>1
         DEF RunCalled, WorkerTakes, WatcherStep, ChildStep, ChildWrites, ChildSent,
             ChildCloses, ChildDies, Spawn, SpawnFails, PollReady, PollTimesOut, Recheck,
             Receive, ReceiveFails, JoinReturns, childVars, watcherVars
    <2>3. i = j
      BY <2>2 DEF IsAlive, Kill, Finally, JobInv, TypeOK
    <2>4. verdict[j] \in {"none", "timeout", "lost"}
      BY <2>2, <2>3 DEF IsAlive, Kill, Finally, JobInv, WatcherInv, Watching
    <2>5. QED
      BY <2>4, RunnerAssumption DEF RunnerAssumption
  <1>2. QED
    BY <1>1, JobInvariant, PTL DEF Spec, AnsweredChildNotSignalled

----------------------------------------------------------------------------
(* Only a job that a worker thread holds has a process. *)
LEMMA AliveIsBusy ==
    ASSUME JobInv
    PROVE  {j \in Jobs : Alive(j)} \subseteq Busy
  BY DEF JobInv, TypeOK, WatcherInv, ChildStates, Alive, Busy

(* Only WorkerTakes adds a busy job, and it finds a free thread first.     *)
LEMMA WorkersKept ==
    ASSUME RunnerAssumption, JobInv, WorkersInv, [Next]_vars
    PROVE  WorkersInv'
  <1>1. ASSUME NEW j \in Jobs, WorkerTakes(j) PROVE WorkersInv'
    <2>1. /\ Cardinality(Busy) < MaxWorkers
          /\ watcher' = [watcher EXCEPT ![j] = "spawn"]
      BY <1>1 DEF WorkerTakes, Goto
    <2>2. watcher[j] = "queued"
      BY <1>1 DEF WorkerTakes, JobInv, TypeOK, QueueInv
    <2>3. Busy' = Busy \cup {j} /\ j \notin Busy
      BY <2>1, <2>2 DEF Busy, JobInv, TypeOK
    <2>4. IsFiniteSet(Busy') /\ Cardinality(Busy') = Cardinality(Busy) + 1
      BY <2>3, FS_AddElement DEF WorkersInv
    <2>5. Cardinality(Busy) \in Nat
      BY FS_CardinalityType DEF WorkersInv
    <2>6. QED
      BY <2>1, <2>4, <2>5, RunnerAssumption DEF WorkersInv, RunnerAssumption
  <1>2. ASSUME NEW j \in Jobs, RunCalled(j) \/ WatcherStep(j) \/ ChildStep(j)
        PROVE  Busy' \subseteq Busy
    BY <1>2
       DEF JobInv, TypeOK, Busy, Goto, RunCalled, WatcherStep, ChildStep, ChildWrites,
           ChildSent, ChildCloses, ChildDies, Spawn, SpawnFails, PollReady, PollTimesOut,
           Recheck, Receive, ReceiveFails, IsAlive, Kill, Finally, JoinReturns, childVars,
           watcherVars
  <1>3. ASSUME UNCHANGED vars PROVE Busy' \subseteq Busy
    BY <1>3 DEF vars, Busy
  <1>4. ASSUME Busy' \subseteq Busy PROVE WorkersInv'
    <2>1. IsFiniteSet(Busy') /\ Cardinality(Busy') <= Cardinality(Busy)
      BY <1>4, FS_Subset DEF WorkersInv
    <2>2. Cardinality(Busy) \in Nat /\ Cardinality(Busy') \in Nat
      BY <2>1, FS_CardinalityType DEF WorkersInv
    <2>3. QED
      BY <2>1, <2>2, RunnerAssumption DEF WorkersInv, RunnerAssumption
  <1>5. QED
    BY <1>1, <1>2, <1>3, <1>4 DEF Next

(* There are never more live analysis processes than max_workers.          *)
THEOREM ProcessesBounded == Spec => []LiveChildrenBounded
  <1>1. Init => WorkersInv
    <2> SUFFICES ASSUME Init PROVE WorkersInv
      OBVIOUS
    <2>1. Busy = {}
      BY DEF Init, Busy
    <2>2. QED
      BY <2>1, FS_EmptySet, RunnerAssumption DEF WorkersInv, RunnerAssumption
  <1>2. JobInv /\ WorkersInv /\ [Next]_vars => WorkersInv'
    BY WorkersKept, RunnerAssumption
  <1>3. JobInv /\ WorkersInv => LiveChildrenBounded
    <2> SUFFICES ASSUME JobInv, WorkersInv PROVE LiveChildrenBounded
      OBVIOUS
    <2> DEFINE L == {j \in Jobs : Alive(j)}
    <2>1. IsFiniteSet(L) /\ Cardinality(L) <= Cardinality(Busy)
      BY AliveIsBusy, FS_Subset DEF WorkersInv
    <2>2. Cardinality(L) \in Nat /\ Cardinality(Busy) \in Nat
      BY <2>1, FS_CardinalityType DEF WorkersInv
    <2>3. QED
      BY <2>1, <2>2, RunnerAssumption DEF WorkersInv, RunnerAssumption, LiveChildrenBounded
  <1>4. QED
    BY <1>1, <1>2, <1>3, JobInvariant, PTL DEF Spec

----------------------------------------------------------------------------
(* Every step of the pipe protocol is a step of the abstract runner, or    *)
(* changes nothing there.                                                  *)
LEMMA StepRefines ==
    ASSUME RunnerAssumption, JobInv, [Next]_vars
    PROVE  [Abstract!RunnerNext]_(Abstract!runnerVars)
  <1> DEFINE Stutters == UNCHANGED <<queue, JobView, ChildView, SentView, outcome>>
  <1>1. ASSUME NEW j \in Jobs, RunCalled(j) PROVE Abstract!Submit(j)
    <2>1. UNCHANGED <<ChildView, SentView>>
      BY <1>1 DEF RunCalled, childVars, ChildView, SentView, Alive, Dead
    <2>2. JobView[j] = "idle" /\ JobView' = [JobView EXCEPT ![j] = "queued"]
      BY <1>1 DEF RunCalled, Goto, JobView, JobInv, TypeOK
    <2>3. QED
      BY <1>1, <2>1, <2>2 DEF RunCalled, Abstract!Submit
  <1>2. ASSUME NEW j \in Jobs, WorkerTakes(j) PROVE Abstract!Start(j)
    <2>1. UNCHANGED <<ChildView, SentView>>
      BY <1>2 DEF WorkerTakes, childVars, ChildView, SentView, Alive, Dead
    <2>2. JobView' = [JobView EXCEPT ![j] = "running"]
      BY <1>2 DEF WorkerTakes, Goto, JobView, JobInv, TypeOK
    <2>3. Abstract!Running = Busy
      BY DEF Abstract!Running, Busy, JobView, JobInv, TypeOK
    <2>4. /\ queue # <<>> /\ j = Head(queue) /\ queue' = Tail(queue)
          /\ Cardinality(Busy) < MaxWorkers
          /\ UNCHANGED outcome
      BY <1>2 DEF WorkerTakes
    <2>5. Abstract!Cardinality(Busy) = Cardinality(Busy)
      BY DEF Abstract!Cardinality, Cardinality
    <2>6. QED
      BY <2>1, <2>2, <2>3, <2>4, <2>5 DEF Abstract!Start
  <1>3. ASSUME NEW j \in Jobs, Spawn(j) PROVE Abstract!ChildStarts(j)
    <2>1. watcher[j] = "spawn" /\ child[j] = "none"
      BY <1>3 DEF Spawn, JobInv, WatcherInv
    <2>2. UNCHANGED <<JobView, SentView>>
      BY <1>3, <2>1 DEF Spawn, Goto, JobView, SentView, Dead, JobInv, TypeOK
    <2>3. JobView[j] = "running" /\ ChildView[j] = "none"
      BY <2>1 DEF JobView, ChildView, Alive
    <2>4. ChildView' = [ChildView EXCEPT ![j] = "alive"]
      BY <1>3 DEF Spawn, ChildView, Alive, JobInv, TypeOK
    <2>5. QED
      BY <1>3, <2>2, <2>3, <2>4 DEF Spawn, Abstract!ChildStarts
  <1>4. ASSUME NEW j \in Jobs, SpawnFails(j) PROVE Abstract!Return(j, "lost")
    <2>1. watcher[j] = "spawn" /\ child[j] = "none"
      BY <1>4 DEF SpawnFails, JobInv, WatcherInv
    <2>2. UNCHANGED <<ChildView, SentView>>
      BY <1>4 DEF SpawnFails, childVars, ChildView, SentView, Alive, Dead
    <2>3. JobView' = [JobView EXCEPT ![j] = "returned"]
      BY <1>4 DEF SpawnFails, Goto, JobView, JobInv, TypeOK
    <2>4. JobView[j] = "running" /\ ChildView[j] = "none" /\ SentView[j] = "none"
      BY <2>1 DEF JobView, ChildView, SentView, Alive, Dead
    <2>5. QED
      BY <1>4, <2>2, <2>3, <2>4
         DEF SpawnFails, Abstract!Return, Abstract!Failures
  <1>5. ASSUME NEW j \in Jobs, JoinReturns(j)
        PROVE  verdict[j] # "none" /\ Abstract!Return(j, verdict[j])
    <2>1. /\ watcher[j] \in {"join", "term_join", "kill_join", "finally",
                              "finally_term", "finally_kill"}
          /\ child[j] = "dead"
      BY <1>5 DEF JoinReturns, Dead
    <2>2. UNCHANGED <<ChildView, SentView>>
      BY <1>5 DEF JoinReturns, childVars, ChildView, SentView, Alive, Dead
    <2>3. JobView' = [JobView EXCEPT ![j] = "returned"]
      BY <1>5 DEF JoinReturns, Goto, JobView, JobInv, TypeOK
    <2>4. JobView[j] = "running" /\ ChildView[j] = "dead" /\ SentView[j] = answer[j]
      BY <2>1 DEF JobView, ChildView, SentView, Alive, Dead
    <2>5. /\ verdict[j] \in Messages \cup {"lost", "timeout"}
          /\ verdict[j] \in Messages => verdict[j] = answer[j]
          /\ verdict[j] = "lost" => answer[j] = "none"
          /\ verdict[j] # "none"
      BY <2>1, RunnerAssumption DEF RunnerAssumption, JobInv, TypeOK, WatcherInv
    <2>6. QED
      BY <1>5, <2>2, <2>3, <2>4, <2>5
         DEF JoinReturns, Abstract!Return, Abstract!Failures
  <1>6. ASSUME NEW j \in Jobs,
               \/ PollReady(j) \/ PollTimesOut(j) \/ Recheck(j) \/ Receive(j)
               \/ ReceiveFails(j) \/ IsAlive(j) \/ Kill(j) \/ Finally(j)
        PROVE  Stutters
    <2>1. UNCHANGED <<queue, child, answer, outcome>>
      BY <1>6
         DEF PollReady, PollTimesOut, Recheck, Receive, ReceiveFails, IsAlive, Kill, Finally,
             childVars
    <2>2. UNCHANGED JobView
      BY <1>6
         DEF PollReady, PollTimesOut, Recheck, Receive, ReceiveFails, IsAlive, Kill, Finally,
             Goto, JobView, JobInv, TypeOK
    <2>3. QED
      BY <2>1, <2>2 DEF ChildView, SentView, Alive, Dead
  <1>7. ASSUME NEW j \in Jobs, ChildWrites(j) \/ ChildSent(j) \/ ChildCloses(j) PROVE Stutters
    <2>1. UNCHANGED <<queue, watcher, outcome>>
      BY <1>7 DEF ChildWrites, ChildSent, ChildCloses, watcherVars
    <2>2. UNCHANGED ChildView
      BY <1>7 DEF ChildWrites, ChildSent, ChildCloses, ChildView, Alive, JobInv, TypeOK
    <2>3. UNCHANGED SentView
      BY <1>7 DEF ChildWrites, ChildSent, ChildCloses, SentView, Dead, JobInv, TypeOK
    <2>4. QED
      BY <2>1, <2>2, <2>3 DEF JobView
  <1>8. ASSUME NEW j \in Jobs, ChildDies(j) PROVE Abstract!ChildEnds(j, answer[j])
    <2>1. UNCHANGED JobView
      BY <1>8 DEF ChildDies, watcherVars, JobView
    <2>2. ChildView[j] = "alive" /\ ChildView' = [ChildView EXCEPT ![j] = "dead"]
      BY <1>8 DEF ChildDies, ChildView, Alive, JobInv, TypeOK
    <2>3. SentView' = [SentView EXCEPT ![j] = answer[j]]
      BY <1>8 DEF ChildDies, SentView, Alive, Dead, JobInv, TypeOK
    <2>4. QED
      BY <1>8, <2>1, <2>2, <2>3 DEF ChildDies, Abstract!ChildEnds
  <1>9. ASSUME UNCHANGED vars PROVE Stutters
    BY <1>9 DEF vars, JobView, ChildView, SentView, Alive, Dead
  <1>10. Stutters => UNCHANGED Abstract!runnerVars
    BY DEF Abstract!runnerVars
  <1>11. ASSUME NEW j \in Jobs, RunCalled(j) \/ WorkerTakes(j) \/ Spawn(j) \/ ChildDies(j)
         PROVE  Abstract!RunnerNext
    <2>1. \A k \in Jobs : answer[k] \in Messages \cup {"none"}
      BY DEF JobInv, TypeOK
    <2>2. QED
      BY <1>1, <1>2, <1>3, <1>8, <1>11, <2>1 DEF Abstract!RunnerNext, Abstract!Ends
  <1>12. ASSUME NEW j \in Jobs, SpawnFails(j) \/ JoinReturns(j) PROVE Abstract!RunnerNext
    <2>1. \A k \in Jobs : verdict[k] # "none" => verdict[k] \in Messages \cup Abstract!Failures
      BY DEF JobInv, TypeOK, Abstract!Failures
    <2>2. "lost" \in Abstract!Failures
      BY DEF Abstract!Failures
    <2>3. QED
      BY <1>4, <1>5, <1>12, <2>1, <2>2 DEF Abstract!RunnerNext, Abstract!Returns
  <1>13. QED
    BY <1>6, <1>7, <1>9, <1>10, <1>11, <1>12 DEF Next, WatcherStep, ChildStep

(* LocalProcessJobRunner does what JobRunnerSpec promises: the safety part *)
(* of ImplementsRunner, for any jobs, worker threads and messages.         *)
THEOREM RunnerImplementsSpec ==
    Spec => Abstract!RunnerInit /\ [][Abstract!RunnerNext]_(Abstract!runnerVars)
  <1>1. Init => Abstract!RunnerInit
    BY DEF Init, Abstract!RunnerInit, JobView, ChildView, SentView, Alive, Dead
  <1>2. JobInv /\ [Next]_vars => [Abstract!RunnerNext]_(Abstract!runnerVars)
    BY StepRefines, RunnerAssumption
  <1>3. QED
    BY <1>1, <1>2, JobInvariant, PTL DEF Spec

-----------------------------------------------------------------------------
(* The handlers.                                                           *)

LoopTypeOK ==
    /\ thread \in [Requests -> {"none", "running", "returned", "raised"}]
    /\ operation \in [Requests -> {"none", "pending", "returned", "raised"}]
    /\ coroutine \in [Requests -> {"arrived", "reading", "awaiting", "finished"}]
    /\ shield \in [Requests -> {"none", "pending", "returned", "raised", "cancelled"}]
    /\ mustCancel \in [Requests -> BOOLEAN]
    /\ requested \in [Requests -> BOOLEAN]
    /\ cancels \in [Requests -> 0..MaxCancels]
    /\ end \in [Requests -> Ends]

(* A request whose loop has not begun: no thread, and nobody to cancel.    *)
Quiet(r) ==
    /\ thread[r] = "none" /\ operation[r] = "none" /\ shield[r] = "none"
    /\ end[r] = "none"
    /\ ~mustCancel[r] /\ ~requested[r] /\ cancels[r] = 0

(* In the loop: the Task follows the thread, the shield follows the Task   *)
(* unless it was cancelled, and every cancellation is on its way to the    *)
(* coroutine, waits to be thrown, or has been noted.                       *)
Waiting(r) ==
    /\ reservation[r] = "held" /\ end[r] = "none"
    /\ thread[r] # "none"
    /\ operation[r] = "pending" \/ (operation[r] = thread[r] /\ thread[r] # "running")
    /\ shield[r] \in {"pending", "cancelled"} \/ (shield[r] = operation[r] /\ shield[r] # "none")
    /\ cancels[r] > 0 <=> (shield[r] = "cancelled" \/ mustCancel[r] \/ requested[r])

Over(r) ==
    /\ thread[r] # "running" /\ operation[r] # "pending" /\ shield[r] = "none"
    /\ end[r] = "returned" => thread[r] = "returned" /\ cancels[r] = 0
    /\ end[r] = "raised" => thread[r] = "raised"
    /\ end[r] = "cancelled" => cancels[r] > 0

PlaceOK(r) ==
    /\ coroutine[r] = "arrived" => Quiet(r) /\ reservation[r] = "none"
    /\ coroutine[r] = "reading" => Quiet(r) /\ reservation[r] = "held"
    /\ coroutine[r] = "awaiting" => Waiting(r)
    /\ coroutine[r] = "finished" => Over(r)

OrchestrationInv ==
    /\ AdmissionInv
    /\ LoopTypeOK
    /\ \A r \in Requests : PlaceOK(r)

(* One step of the invariant is one request's; the others keep what they   *)
(* have, since a step writes the entries of its own request only.          *)
KeptFor(q) ==
    /\ thread'[q] = thread[q] /\ operation'[q] = operation[q]
    /\ coroutine'[q] = coroutine[q] /\ shield'[q] = shield[q]
    /\ mustCancel'[q] = mustCancel[q] /\ requested'[q] = requested[q]
    /\ cancels'[q] = cancels[q] /\ end'[q] = end[q]
    /\ reservation'[q] = reservation[q]

LEMMA OthersKeep ==
    ASSUME NEW r \in Requests, \A q \in Requests : PlaceOK(q), PlaceOK(r)',
           \A q \in Requests \ {r} : KeptFor(q)
    PROVE  \A q \in Requests : PlaceOK(q)'
  <1>1. SUFFICES ASSUME NEW q \in Requests \ {r} PROVE PlaceOK(q)'
    OBVIOUS
  <1>2. PlaceOK(q) /\ KeptFor(q)
    OBVIOUS
  <1>3. QED
    BY <1>2 DEF PlaceOK, KeptFor, Quiet, Waiting, Over

(* try_reserve and release touch one reservation.                          *)
LEMMA OneReservation ==
    ASSUME AdmissionInv, NEW r \in Requests, TryReserve(r) \/ Release(r)
    PROVE  \A q \in Requests \ {r} : reservation'[q] = reservation[q]
  BY DEF TryReserve, Release, admissionVars, AdmissionInv, AdmissionTypeOK

LEMMA ReserveStep ==
    ASSUME AdmissionAssumption, OrchestrationAssumption, OrchestrationInv,
           NEW r \in Requests, Reserve(r)
    PROVE  OrchestrationInv'
  <1>1. AdmissionInv'
    BY ReserveKeepsInv DEF OrchestrationInv, Reserve
  <1>2. LoopTypeOK'
    BY DEF OrchestrationInv, Reserve, LoopTypeOK, Ends
  <1>3. reservation'[r] \in {"held", "refused"}
    BY DEF OrchestrationInv, AdmissionInv, AdmissionTypeOK, Reserve, TryReserve
  <1>4. PlaceOK(r)'
    BY <1>3 DEF OrchestrationInv, LoopTypeOK, PlaceOK, Reserve, Quiet, Over
  <1>5. \A q \in Requests \ {r} : KeptFor(q)
    BY OneReservation DEF OrchestrationInv, LoopTypeOK, Reserve, KeptFor
  <1>6. QED
    BY <1>1, <1>2, <1>4, <1>5, OthersKeep DEF OrchestrationInv

(* The steps that neither take nor give a slot.                            *)
LEMMA LoopStep ==
    ASSUME AdmissionAssumption, OrchestrationAssumption, OrchestrationInv,
           NEW r \in Requests,
           Begin(r) \/ ThreadEnds(r) \/ OperationDone(r) \/ ShieldResolves(r) \/ Cancel(r)
    PROVE  OrchestrationInv'
  <1> USE DEF OrchestrationInv
  <1>1. UNCHANGED admissionVars
    BY DEF Begin, ThreadEnds, OperationDone, ShieldResolves, Cancel
  <1>2. AdmissionInv'
    BY <1>1 DEF AdmissionInv, AdmissionTypeOK, Held, HeldBy, CountersExact, admissionVars
  <1>3. CASE Begin(r)
    <2>1. LoopTypeOK' /\ PlaceOK(r)'
      BY <1>3, <1>1 DEF Begin, LoopTypeOK, PlaceOK, Quiet, Waiting, admissionVars
    <2>2. \A q \in Requests \ {r} : KeptFor(q)
      BY <1>3, <1>1 DEF Begin, LoopTypeOK, KeptFor, admissionVars
    <2>3. QED
      BY <1>2, <2>1, <2>2, OthersKeep
  <1>4. CASE ThreadEnds(r)
    <2>1. coroutine[r] = "awaiting"
      BY <1>4 DEF ThreadEnds, PlaceOK, Quiet, Over, LoopTypeOK
    <2>2. LoopTypeOK' /\ PlaceOK(r)'
      BY <1>4, <1>1, <2>1 DEF ThreadEnds, LoopTypeOK, PlaceOK, Waiting, admissionVars
    <2>3. \A q \in Requests \ {r} : KeptFor(q)
      BY <1>4, <1>1 DEF ThreadEnds, LoopTypeOK, KeptFor, admissionVars
    <2>4. QED
      BY <1>2, <2>2, <2>3, OthersKeep
  <1>5. CASE OperationDone(r)
    <2>1. coroutine[r] = "awaiting"
      BY <1>5 DEF OperationDone, PlaceOK, Quiet, Over, LoopTypeOK
    <2>2. LoopTypeOK' /\ PlaceOK(r)'
      BY <1>5, <1>1, <2>1 DEF OperationDone, LoopTypeOK, PlaceOK, Waiting, admissionVars
    <2>3. \A q \in Requests \ {r} : KeptFor(q)
      BY <1>5, <1>1 DEF OperationDone, LoopTypeOK, KeptFor, admissionVars
    <2>4. QED
      BY <1>2, <2>2, <2>3, OthersKeep
  <1>6. CASE ShieldResolves(r)
    <2>1. coroutine[r] = "awaiting"
      BY <1>6 DEF ShieldResolves, PlaceOK, Quiet, Over, LoopTypeOK
    <2>2. LoopTypeOK' /\ PlaceOK(r)'
      BY <1>6, <1>1, <2>1 DEF ShieldResolves, LoopTypeOK, PlaceOK, Waiting, admissionVars
    <2>3. \A q \in Requests \ {r} : KeptFor(q)
      BY <1>6, <1>1 DEF ShieldResolves, LoopTypeOK, KeptFor, admissionVars
    <2>4. QED
      BY <1>2, <2>2, <2>3, OthersKeep
  <1>7. CASE Cancel(r)
    <2>1. cancels'[r] \in 0..MaxCancels /\ cancels'[r] > 0
      BY <1>7, OrchestrationAssumption DEF Cancel, LoopTypeOK
    <2>2. LoopTypeOK'
      BY <1>7, <2>1 DEF Cancel, LoopTypeOK
    <2>3. shield'[r] = "cancelled" \/ mustCancel'[r]
      BY <1>7 DEF Cancel, LoopTypeOK
    <2>4. PlaceOK(r)'
      BY <1>7, <1>1, <2>1, <2>3 DEF Cancel, LoopTypeOK, PlaceOK, Waiting, admissionVars
    <2>5. \A q \in Requests \ {r} : KeptFor(q)
      BY <1>7, <1>1 DEF Cancel, LoopTypeOK, KeptFor, admissionVars
    <2>6. QED
      BY <1>2, <2>2, <2>4, <2>5, OthersKeep
  <1>8. QED
    BY <1>3, <1>4, <1>5, <1>6, <1>7

(* The steps that end the coroutine, with the release of its slot.         *)
LEMMA FinishStep ==
    ASSUME AdmissionAssumption, OrchestrationInv, NEW r \in Requests, NEW how \in Ends,
           Finish(r, how),
           thread' = thread, operation' = operation, cancels' = cancels,
           LoopTypeOK',
           \A q \in Requests \ {r} :
               mustCancel'[q] = mustCancel[q] /\ requested'[q] = requested[q],
           thread[r] # "running", operation[r] # "pending",
           how = "returned" => thread[r] = "returned" /\ cancels[r] = 0,
           how = "raised" => thread[r] = "raised",
           how = "cancelled" => cancels[r] > 0
    PROVE  OrchestrationInv'
  <1> USE DEF OrchestrationInv
  <1>1. AdmissionInv'
    BY ReleaseKeepsInv DEF Finish
  <1>2. PlaceOK(r)'
    BY DEF Finish, LoopTypeOK, PlaceOK, Over
  <1>3. \A q \in Requests \ {r} : KeptFor(q)
    BY OneReservation DEF Finish, LoopTypeOK, KeptFor
  <1>4. QED
    BY <1>1, <1>2, <1>3, OthersKeep

LEMMA BodyFailsStep ==
    ASSUME AdmissionAssumption, OrchestrationInv, NEW r \in Requests, BodyFails(r)
    PROVE  OrchestrationInv'
  <1>1. thread[r] = "none" /\ operation[r] = "none"
    BY DEF OrchestrationInv, BodyFails, PlaceOK, Quiet
  <1>2. LoopTypeOK'
    BY DEF OrchestrationInv, BodyFails, Finish, LoopTypeOK, Ends
  <1>3. Finish(r, "body") /\ UNCHANGED <<thread, operation, mustCancel, requested, cancels>>
    BY DEF BodyFails
  <1>4. QED
    BY <1>1, <1>2, <1>3, FinishStep DEF Ends

(* The wake-up is where the loop decides: another await if the Task is not *)
(* done, else the end, and what the end is depends on what was noted.      *)
LEMMA ResumeStep ==
    ASSUME AdmissionAssumption, OrchestrationInv, NEW r \in Requests, Resume(r)
    PROVE  OrchestrationInv'
  <1> USE DEF OrchestrationInv
  <1>0. /\ Waiting(r) /\ coroutine[r] = "awaiting"
        /\ shield[r] # "pending"
        /\ mustCancel' = [mustCancel EXCEPT ![r] = FALSE]
        /\ UNCHANGED <<thread, operation, cancels>>
    BY DEF Resume, PlaceOK
  <1>1. \A q \in Requests \ {r} :
            mustCancel'[q] = mustCancel[q] /\ requested'[q] = requested[q]
    BY <1>0 DEF Resume, LoopTypeOK
  <1>2. CASE Thrown(r) = "raised"
    <2>1. Finish(r, "raised") /\ UNCHANGED requested
      BY <1>2 DEF Resume
    <2>2. ~mustCancel[r] /\ thread[r] = "raised" /\ operation[r] = "raised"
      BY <1>0, <1>2 DEF Thrown, Waiting
    <2>3. LoopTypeOK'
      BY <1>0, <2>1 DEF Finish, LoopTypeOK, Ends
    <2>4. QED
      BY <1>0, <1>1, <2>1, <2>2, <2>3, FinishStep DEF Ends
  <1>3. CASE Thrown(r) = "cancelled" /\ operation[r] = "pending"
    <2>1. /\ requested' = [requested EXCEPT ![r] = TRUE]
          /\ shield' = [shield EXCEPT ![r] = "pending"]
          /\ UNCHANGED <<coroutine, end, admissionVars>>
      BY <1>3 DEF Resume
    <2>2. cancels[r] > 0
      BY <1>0, <1>3 DEF Thrown, Waiting, LoopTypeOK
    <2>3. LoopTypeOK' /\ PlaceOK(r)'
      BY <1>0, <2>1, <2>2 DEF LoopTypeOK, PlaceOK, Waiting, admissionVars
    <2>4. \A q \in Requests \ {r} : KeptFor(q)
      BY <1>0, <2>1 DEF LoopTypeOK, KeptFor, admissionVars
    <2>5. AdmissionInv'
      BY <2>1 DEF AdmissionInv, AdmissionTypeOK, Held, HeldBy, CountersExact, admissionVars
    <2>6. QED
      BY <2>3, <2>4, <2>5, OthersKeep
  <1>4. CASE Thrown(r) = "cancelled" /\ operation[r] # "pending"
    <2>1. Finish(r, "cancelled") /\ requested' = [requested EXCEPT ![r] = TRUE]
      BY <1>4 DEF Resume
    <2>2. thread[r] # "running" /\ cancels[r] > 0
      BY <1>0, <1>4 DEF Thrown, Waiting, LoopTypeOK
    <2>3. LoopTypeOK'
      BY <1>0, <2>1 DEF Finish, LoopTypeOK, Ends
    <2>4. QED
      BY <1>0, <1>1, <1>4, <2>1, <2>2, <2>3, FinishStep DEF Ends
  <1>5. CASE Thrown(r) = "returned"
    <2> DEFINE how == IF requested[r] THEN "cancelled" ELSE "returned"
    <2>1. Finish(r, how) /\ UNCHANGED requested
      BY <1>5 DEF Resume
    <2>2. ~mustCancel[r] /\ thread[r] = "returned" /\ operation[r] = "returned"
          /\ shield[r] = "returned"
      BY <1>0, <1>5 DEF Thrown, Waiting
    <2>3. (cancels[r] > 0) <=> requested[r]
      BY <1>0, <2>2 DEF Waiting
    <2>4. cancels[r] \in Nat
      BY OrchestrationAssumption DEF LoopTypeOK
    <2>5. LoopTypeOK'
      BY <1>0, <2>1 DEF Finish, LoopTypeOK, Ends
    <2>6. CASE requested[r]
      <3>1. Finish(r, "cancelled") /\ cancels[r] > 0
        BY <2>1, <2>3, <2>6
      <3>2. QED
        BY <1>0, <1>1, <2>2, <2>5, <3>1, FinishStep DEF Ends
    <2>7. CASE ~requested[r]
      <3>1. Finish(r, "returned") /\ cancels[r] = 0
        BY <2>1, <2>3, <2>4, <2>7
      <3>2. QED
        BY <1>0, <1>1, <2>2, <2>5, <3>1, FinishStep DEF Ends
    <2>8. QED
      BY <2>6, <2>7
  <1>6. QED
    BY <1>2, <1>3, <1>4, <1>5 DEF Resume

(* The invariant of every request, at every moment of the event loop.      *)
THEOREM OrchestrationInvariant == OrchestrationSpec => []OrchestrationInv
  <1> USE AdmissionAssumption, OrchestrationAssumption
  <1>1. OrchestrationInit => OrchestrationInv
    <2> SUFFICES ASSUME OrchestrationInit PROVE OrchestrationInv
      OBVIOUS
    <2>1. AdmissionInv
      BY InitIsExact DEF OrchestrationInit
    <2>2. LoopTypeOK
      BY DEF OrchestrationInit, LoopTypeOK, Ends
    <2>3. \A r \in Requests : PlaceOK(r)
      BY DEF OrchestrationInit, AdmissionInit, PlaceOK, Quiet
    <2>4. QED
      BY <2>1, <2>2, <2>3 DEF OrchestrationInv
  <1>2. OrchestrationInv /\ [OrchestrationNext]_orchestrationVars => OrchestrationInv'
    <2> SUFFICES ASSUME OrchestrationInv, [OrchestrationNext]_orchestrationVars PROVE OrchestrationInv'
      OBVIOUS
    <2>1. CASE UNCHANGED orchestrationVars
      BY <2>1 DEF orchestrationVars, admissionVars, OrchestrationInv, AdmissionInv, AdmissionTypeOK, Held,
                  HeldBy, CountersExact, LoopTypeOK, PlaceOK, Quiet, Waiting, Over
    <2>2. ASSUME NEW r \in Requests,
                 \/ Reserve(r) \/ BodyFails(r) \/ Begin(r) \/ ThreadEnds(r)
                 \/ OperationDone(r) \/ ShieldResolves(r) \/ Cancel(r) \/ Resume(r)
          PROVE  OrchestrationInv'
      BY <2>2, ReserveStep, BodyFailsStep, LoopStep, ResumeStep
    <2>3. QED
      BY <2>1, <2>2 DEF OrchestrationNext
  <1>3. QED
    BY <1>1, <1>2, PTL DEF OrchestrationSpec

(* However often and whenever a request is cancelled, its slot is held     *)
(* while its thread runs (scans.py:85-103 and 209-247).                    *)
THEOREM SlotOutlivesThread == OrchestrationSpec => []SlotCoversThread
  <1>1. OrchestrationInv => SlotCoversThread
    BY DEF OrchestrationInv, LoopTypeOK, SlotCoversThread, PlaceOK, Quiet, Waiting, Over
  <1>2. QED
    BY <1>1, OrchestrationInvariant, PTL

(* What a request reports is what happened to its thread and to it         *)
(* (scans.py:91-103).                                                      *)
THEOREM ReportsAreTruthful == OrchestrationSpec => []EndIsTruthful
  <1>1. OrchestrationInv => EndIsTruthful
    BY DEF OrchestrationInv, LoopTypeOK, EndIsTruthful, PlaceOK, Quiet, Waiting, Over
  <1>2. QED
    BY <1>1, OrchestrationInvariant, PTL

(* Cancellations do not make the admission's counters drift                *)
(* (upload_admission.py:36-56, scans.py:246-247).                          *)
THEOREM CountersSurviveCancellation == OrchestrationSpec => []CountersExact
  <1>1. OrchestrationInv => CountersExact
    BY DEF OrchestrationInv, AdmissionInv
  <1>2. QED
    BY <1>1, OrchestrationInvariant, PTL

-----------------------------------------------------------------------------
(* Questions about a scan.                                                 *)
Unsent == {"asked", "status", "embed", "embedding", "generate"}
Steps == Unsent \cup {"generating", "done"}
Calls == {"embedding", "generating"}

AssistantTyped ==
    /\ pc \in [Questions -> Steps]
    /\ DOMAIN sources = Questions
    /\ DOMAIN sent = Questions
    /\ DOMAIN response = Questions
    /\ sources = [q \in Questions |-> sources[q]]
    /\ sent = [q \in Questions |-> sent[q]]
    /\ response = [q \in Questions |-> response[q]]

(* What an answer r may say after these sources, of which it was sent some.*)
Grounded(r, shown, given) ==
    /\ r.ai => /\ r.cited # {} /\ r.cited \subseteq given
               /\ (\E id \in ToSet(shown) : IsFinding(id)) => \E id \in r.cited : IsFinding(id)
    /\ ~r.ai => r.cited = {}

(* No answer yet, or one that is grounded.                                 *)
AnswerFits(result, shown, given) ==
    \/ result = <<>>
    \/ result = <<result[1]>> /\ Grounded(result[1], shown, given)

(* Nothing is sent before the sources are retrieved for good, nothing is   *)
(* answered before the end, and the answer fits both.                      *)
AnswerInv(q) ==
    /\ pc[q] \in Unsent => sent[q] = {}
    /\ sent[q] \subseteq ToSet(sources[q])
    /\ pc[q] # "done" => response[q] = <<>>
    /\ AnswerFits(response[q], sources[q], sent[q])

InCall == {q \in Questions : pc[q] \in Calls}

(* Either the permit is there and nobody is in a call, or one thread is.   *)
PermitInv ==
    \/ free = 1 /\ InCall = {}
    \/ free = 0 /\ \E q \in Questions : InCall = {q}

(* The inductive invariant of the threads and their permit.                *)
AssistantInv ==
    /\ AssistantTyped
    /\ PermitInv
    /\ \A q \in Questions : AnswerInv(q)

-----------------------------------------------------------------------------
(* What the threads share: who takes the permit was outside a call and is  *)
(* in one, who gives it back was in a call and is outside.                 *)

PermitTaken(q) == free = 1 /\ free' = 0 /\ pc[q] \notin Calls /\ pc'[q] \in Calls
PermitReturned(q) == free' = free + 1 /\ pc[q] \in Calls /\ pc'[q] \notin Calls
PermitUntouched(q) == free' = free /\ pc[q] \notin Calls /\ pc'[q] \notin Calls

(* A thread changes nothing of another one's.                              *)
OthersKept(q) ==
    \A p \in Questions \ {q} : /\ pc'[p] = pc[p] /\ sources'[p] = sources[p]
                               /\ sent'[p] = sent[p] /\ response'[p] = response[p]

LEMMA PermitStep ==
    ASSUME NEW q \in Questions, PermitInv, OthersKept(q),
           PermitTaken(q) \/ PermitReturned(q) \/ PermitUntouched(q)
    PROVE  PermitInv'
<1>1. \A p \in Questions \ {q} : p \in InCall' <=> p \in InCall
  BY DEF InCall, OthersKept
<1>2. InCall \subseteq Questions /\ InCall' \subseteq Questions
  BY DEF InCall
<1>3. CASE PermitTaken(q)
  <2>1. InCall = {}  BY <1>3 DEF PermitTaken, PermitInv
  <2>2. InCall' = {q}
    <3>1. q \in InCall'  BY <1>3 DEF PermitTaken, InCall
    <3> QED  BY <1>1, <1>2, <2>1, <3>1
  <2> QED  BY <1>3, <2>2 DEF PermitTaken, PermitInv
<1>4. CASE PermitReturned(q)
  <2>1. q \in InCall /\ q \notin InCall'  BY <1>4 DEF PermitReturned, InCall
  <2>2. free = 0 /\ \E p \in Questions : InCall = {p}  BY <2>1 DEF PermitInv
  <2>3. InCall = {q}  BY <2>1, <2>2
  <2>4. InCall' = {}  BY <1>1, <1>2, <2>1, <2>3
  <2>5. free' = 1  BY <1>4, <2>2 DEF PermitReturned
  <2> QED  BY <2>4, <2>5 DEF PermitInv
<1>5. CASE PermitUntouched(q)
  <2>1. q \notin InCall /\ q \notin InCall'  BY <1>5 DEF PermitUntouched, InCall
  <2>2. InCall' = InCall  BY <1>1, <1>2, <2>1
  <2> QED  BY <1>5, <2>2 DEF PermitUntouched, PermitInv
<1> QED  BY <1>3, <1>4, <1>5

LEMMA AnswersStep ==
    ASSUME NEW q \in Questions, OthersKept(q), \A p \in Questions : AnswerInv(p),
           AnswerInv(q)'
    PROVE  (\A p \in Questions : AnswerInv(p))'
<1> SUFFICES ASSUME NEW p \in Questions
             PROVE  AnswerInv(p)'
  OBVIOUS
<1>1. CASE p = q  BY <1>1
<1>2. CASE p # q
  <2>1. pc'[p] = pc[p] /\ sources'[p] = sources[p] /\ sent'[p] = sent[p] /\ response'[p] = response[p]
    BY <1>2 DEF OthersKept
  <2>2. AnswerInv(p)  OBVIOUS
  <2> QED  BY <2>1, <2>2 DEF AnswerInv
<1> QED  BY <1>1, <1>2

-----------------------------------------------------------------------------
(* The answers of a thread that stays without the model.                   *)

PlainAnswer(result) == result = <<Deterministic>> \/ \E code \in {403, 404, 409, 500} : result = <<Refused(code)>>

LEMMA SilenceFits ==
    ASSUME NEW result, NEW shown, NEW given, result = <<>>
    PROVE  AnswerFits(result, shown, given)
  BY DEF AnswerFits

LEMMA PlainFits ==
    ASSUME NEW result, NEW shown, NEW given, PlainAnswer(result)
    PROVE  AnswerFits(result, shown, given)
<1>1. Deterministic.ai = FALSE /\ Deterministic.cited = {}
  BY DEF Deterministic
<1>2. ASSUME NEW code PROVE Refused(code).ai = FALSE /\ Refused(code).cited = {}
  BY DEF Refused
<1>3. Grounded(Deterministic, shown, given)
  BY <1>1 DEF Grounded
<1>4. ASSUME NEW code PROVE Grounded(Refused(code), shown, given)
  BY <1>2 DEF Grounded
<1> QED  BY <1>3, <1>4 DEF PlainAnswer, AnswerFits

(* What a thread may do to its own record of the conversation: nothing, to *)
(* retrieve, to send, or to end with an answer.                            *)
Going(q) ==
    /\ pc[q] \in Unsent /\ pc'[q] \in Unsent
    /\ sent'[q] = sent[q] /\ response'[q] = response[q]

Sending(q) ==
    /\ pc[q] \in Unsent /\ pc'[q] = "generating"
    /\ sources'[q] = sources[q] /\ response'[q] = response[q]
    /\ sent'[q] \subseteq ToSet(sources[q])

Ending(q) ==
    /\ pc'[q] = "done" /\ sources'[q] = sources[q] /\ sent'[q] = sent[q]
    /\ AnswerFits(response'[q], sources[q], sent[q])

LEMMA OwnStep ==
    ASSUME NEW q \in Questions, AnswerInv(q), Going(q) \/ Sending(q) \/ Ending(q)
    PROVE  AnswerInv(q)'
<1>0. "generating" \notin Unsent /\ "done" \notin Unsent
  BY DEF Unsent
<1>1. CASE Going(q)
  <2>1. sent'[q] = {} /\ response'[q] = <<>>
    BY <1>0, <1>1 DEF Going, AnswerInv
  <2> QED  BY <1>0, <1>1, <2>1, SilenceFits DEF Going, AnswerInv
<1>2. CASE Sending(q)
  <2>1. response'[q] = <<>>
    BY <1>0, <1>2 DEF Sending, AnswerInv
  <2> QED  BY <1>0, <1>2, <2>1, SilenceFits DEF Sending, AnswerInv
<1>3. CASE Ending(q)
  BY <1>0, <1>3 DEF Ending, AnswerInv
<1> QED  BY <1>1, <1>2, <1>3

LEMMA EndPlainly ==
    ASSUME NEW q \in Questions, AssistantTyped, NEW from, Move(q, from, "done"), NEW r,
           r = Deterministic \/ \E code \in {403, 404, 409, 500} : r = Refused(code),
           Respond(q, r), UNCHANGED <<sources, sent>>
    PROVE  AssistantTyped' /\ OthersKept(q) /\ Ending(q) /\ pc'[q] = "done"
<1>1. pc' = [pc EXCEPT ![q] = "done"] /\ response' = [response EXCEPT ![q] = <<r>>]
  BY DEF Move, Respond
<1>2. pc'[q] = "done" /\ response'[q] = <<r>>
  BY <1>1 DEF AssistantTyped
<1>3. AssistantTyped'
  BY <1>1 DEF AssistantTyped, Steps
<1>4. OthersKept(q)
  BY <1>1 DEF AssistantTyped, OthersKept
<1>5. PlainAnswer(response'[q])
  BY <1>2 DEF PlainAnswer
<1>6. AnswerFits(response'[q], sources[q], sent[q])
  BY <1>5, PlainFits
<1> QED  BY <1>2, <1>3, <1>4, <1>6 DEF Ending

LEMMA GoOn ==
    ASSUME NEW q \in Questions, AssistantTyped, NEW from \in Unsent, NEW to \in Unsent,
           Move(q, from, to), UNCHANGED <<sent, response>>,
           sources' = sources \/ \E order : Retrieve(q, order)
    PROVE  AssistantTyped' /\ OthersKept(q) /\ Going(q) /\ pc[q] = from /\ pc'[q] = to
<1>1. pc[q] = from /\ pc' = [pc EXCEPT ![q] = to]
  BY DEF Move
<1>2. \/ sources' = sources
      \/ \E shown : sources' = [sources EXCEPT ![q] = shown]
  BY DEF Retrieve
<1>3. DOMAIN sources' = Questions /\ sources' = [p \in Questions |-> sources'[p]]
      /\ \A p \in Questions \ {q} : sources'[p] = sources[p]
  BY <1>2 DEF AssistantTyped
<1>4. AssistantTyped'
  BY <1>1, <1>3 DEF AssistantTyped, Steps
<1>5. OthersKept(q)
  BY <1>1, <1>3 DEF AssistantTyped, OthersKept
<1> QED  BY <1>1, <1>4, <1>5 DEF Going, AssistantTyped

-----------------------------------------------------------------------------
(* One step of one thread: what it does to the permit, to the others and   *)
(* to its own record.                                                      *)
LEMMA ThreadShape ==
    ASSUME AssistantInv, NEW q \in Questions, Thread(q)
    PROVE  /\ AssistantTyped' /\ OthersKept(q)
           /\ PermitTaken(q) \/ PermitReturned(q) \/ PermitUntouched(q)
           /\ Going(q) \/ Sending(q) \/ Ending(q)
<1> USE DEF AssistantInv
<1>0. /\ {"asked", "status", "embed", "embedding", "generate"} = Unsent
      /\ Calls = {"embedding", "generating"}
  BY DEF Unsent, Calls
<1>1. CASE Admit(q)
  <2>1. AssistantTyped' /\ OthersKept(q) /\ Going(q) /\ pc[q] = "asked" /\ pc'[q] = "status"
    BY <1>0, <1>1, GoOn DEF Admit
  <2> QED  BY <1>0, <1>1, <2>1 DEF Admit, PermitUntouched
<1>2. CASE Refuse(q)
  <2>1. PICK code \in {403, 404, 409} : Respond(q, Refused(code))
    BY <1>2 DEF Refuse
  <2>2. Move(q, "asked", "done") /\ UNCHANGED <<sources, sent, free>>
    BY <1>2 DEF Refuse
  <2>3. AssistantTyped' /\ OthersKept(q) /\ Ending(q) /\ pc'[q] = "done"
    BY <2>1, <2>2, EndPlainly
  <2> QED  BY <1>0, <2>2, <2>3 DEF Move, PermitUntouched
<1>3. CASE AskStatus(q)
  <2>1. Move(q, "status", "embed") /\ UNCHANGED <<sources, sent, free, response>>
    BY <1>3 DEF AskStatus
  <2>2. AssistantTyped' /\ OthersKept(q) /\ Going(q) /\ pc[q] = "status" /\ pc'[q] = "embed"
    BY <1>0, <2>1, GoOn
  <2> QED  BY <1>0, <2>1, <2>2 DEF PermitUntouched
<1>4. CASE StatusCrashes(q)
  <2>1. Move(q, "status", "done") /\ Respond(q, Refused(500)) /\ UNCHANGED <<sources, sent, free>>
    BY <1>4 DEF StatusCrashes, Crash
  <2>2. AssistantTyped' /\ OthersKept(q) /\ Ending(q) /\ pc'[q] = "done"
    BY <2>1, EndPlainly
  <2> QED  BY <1>0, <2>1, <2>2 DEF Move, PermitUntouched
<1>5. CASE TakeForEmbedding(q)
  <2>1. Move(q, "embed", "embedding") /\ UNCHANGED <<sources, sent, response>> /\ free = 1 /\ free' = 0
    BY <1>5 DEF TakeForEmbedding
  <2>2. AssistantTyped' /\ OthersKept(q) /\ Going(q) /\ pc[q] = "embed" /\ pc'[q] = "embedding"
    BY <1>0, <2>1, GoOn
  <2> QED  BY <1>0, <2>1, <2>2 DEF PermitTaken
<1>6. CASE WithoutEmbedding(q)
  <2>1. Move(q, "embed", "generate") /\ UNCHANGED <<sent, free, response>> /\ Retrieve(q, ranked[q].words)
    BY <1>6 DEF WithoutEmbedding
  <2>2. AssistantTyped' /\ OthersKept(q) /\ Going(q) /\ pc[q] = "embed" /\ pc'[q] = "generate"
    BY <1>0, <2>1, GoOn
  <2> QED  BY <1>0, <2>1, <2>2 DEF PermitUntouched
<1>7. CASE EndEmbedding(q)
  <2>1. Move(q, "embedding", "generate") /\ UNCHANGED <<sent, response>> /\ free' = free + 1
        /\ \E order : Retrieve(q, order)
    BY <1>7 DEF EndEmbedding
  <2>2. AssistantTyped' /\ OthersKept(q) /\ Going(q) /\ pc[q] = "embedding" /\ pc'[q] = "generate"
    BY <1>0, <2>1, GoOn
  <2> QED  BY <1>0, <2>1, <2>2 DEF PermitReturned
<1>8. CASE EmbeddingCrashes(q)
  <2>1. Move(q, "embedding", "done") /\ Respond(q, Refused(500)) /\ UNCHANGED <<sources, sent>> /\ free' = free + 1
    BY <1>8 DEF EmbeddingCrashes, Crash
  <2>2. AssistantTyped' /\ OthersKept(q) /\ Ending(q) /\ pc'[q] = "done"
    BY <2>1, EndPlainly
  <2> QED  BY <1>0, <2>1, <2>2 DEF Move, PermitReturned
<1>9. CASE TakeForGeneration(q)
  <2> DEFINE given == {sources[q][i] : i \in {j \in DOMAIN sources[q] : j <= ModelSources}}
  <2>1. /\ pc[q] = "generate" /\ pc' = [pc EXCEPT ![q] = "generating"]
        /\ sent' = [sent EXCEPT ![q] = given]
        /\ UNCHANGED <<sources, response>> /\ free = 1 /\ free' = 0
    BY <1>9 DEF TakeForGeneration, Move
  <2>2. given \subseteq ToSet(sources[q])
    BY DEF ToSet
  <2> HIDE DEF given
  <2>3. pc'[q] = "generating" /\ sent'[q] = given
    BY <2>1 DEF AssistantTyped
  <2>4. AssistantTyped'
    BY <2>1 DEF AssistantTyped, Steps
  <2>5. OthersKept(q)
    BY <2>1 DEF AssistantTyped, OthersKept
  <2>6. Sending(q)
    BY <1>0, <2>1, <2>2, <2>3 DEF Sending
  <2>7. PermitTaken(q)
    BY <1>0, <2>1, <2>3 DEF PermitTaken
  <2> QED  BY <2>4, <2>5, <2>6, <2>7
<1>10. CASE WithoutModel(q)
  <2>1. Move(q, "generate", "done") /\ Respond(q, Deterministic) /\ UNCHANGED <<sources, sent, free>>
    BY <1>10 DEF WithoutModel
  <2>2. AssistantTyped' /\ OthersKept(q) /\ Ending(q) /\ pc'[q] = "done"
    BY <2>1, EndPlainly
  <2> QED  BY <1>0, <2>1, <2>2 DEF Move, PermitUntouched
<1>11. CASE EndGeneration(q)
  <2>1. PICK cited \in SUBSET (Findings \cup Knowledge) :
          Respond(q, IF sent[q] # {} /\ Accepts(q, cited)
                     THEN [Deterministic EXCEPT !.ai = TRUE, !.cited = cited]
                     ELSE Deterministic)
    BY <1>11 DEF EndGeneration
  <2>2. Move(q, "generating", "done") /\ UNCHANGED <<sources, sent>> /\ free' = free + 1
    BY <1>11 DEF EndGeneration
  <2>3. PermitReturned(q)
    BY <1>0, <2>2 DEF Move, PermitReturned, AssistantTyped
  <2>4. CASE ~(sent[q] # {} /\ Accepts(q, cited))
    <3>1. Respond(q, Deterministic)  BY <2>1, <2>4
    <3>2. AssistantTyped' /\ OthersKept(q) /\ Ending(q) /\ pc'[q] = "done"
      BY <2>2, <3>1, EndPlainly
    <3> QED  BY <2>3, <3>2
  <2>5. CASE sent[q] # {} /\ Accepts(q, cited)
    <3> DEFINE r == [Deterministic EXCEPT !.ai = TRUE, !.cited = cited]
    <3>1. Respond(q, r)  BY <2>1, <2>5
    <3>2. r.ai = TRUE /\ r.cited = cited  BY DEF Deterministic
    <3> HIDE DEF r
    <3>3. Grounded(r, sources[q], sent[q])
      BY <2>5, <3>2 DEF Accepts, Grounded
    <3>4. pc' = [pc EXCEPT ![q] = "done"] /\ response' = [response EXCEPT ![q] = <<r>>]
      BY <2>2, <3>1 DEF Move, Respond
    <3>5. pc'[q] = "done" /\ response'[q] = <<r>>
      BY <3>4 DEF AssistantTyped
    <3>6. AssistantTyped'
      BY <2>2, <3>4 DEF AssistantTyped, Steps
    <3>7. OthersKept(q)
      BY <2>2, <3>4 DEF AssistantTyped, OthersKept
    <3>8. AnswerFits(response'[q], sources[q], sent[q])
      BY <3>3, <3>5 DEF AnswerFits
    <3>9. Ending(q)
      BY <2>2, <3>5, <3>8 DEF Ending
    <3> QED  BY <2>3, <3>6, <3>7, <3>9
  <2> QED  BY <2>4, <2>5
<1>12. CASE GenerationCrashes(q)
  <2>1. Move(q, "generating", "done") /\ Respond(q, Refused(500)) /\ UNCHANGED <<sources, sent>> /\ free' = free + 1
    BY <1>12 DEF GenerationCrashes, Crash
  <2>2. AssistantTyped' /\ OthersKept(q) /\ Ending(q) /\ pc'[q] = "done"
    BY <2>1, EndPlainly
  <2> QED  BY <1>0, <2>1, <2>2 DEF Move, PermitReturned
<1> QED  BY <1>1, <1>2, <1>3, <1>4, <1>5, <1>6, <1>7, <1>8, <1>9, <1>10, <1>11, <1>12 DEF Thread

LEMMA AssistantStarts == AssistantInit => AssistantInv
<1> SUFFICES ASSUME AssistantInit PROVE AssistantInv
  OBVIOUS
<1>1. AssistantTyped
  BY DEF AssistantInit, AssistantTyped, Steps, Unsent
<1>2. PermitInv
  <2>1. InCall = {}
    BY DEF AssistantInit, InCall, Calls
  <2> QED  BY <2>1 DEF AssistantInit, PermitInv
<1>3. ASSUME NEW q \in Questions PROVE AnswerInv(q)
  <2>1. pc[q] = "asked" /\ sent[q] = {} /\ response[q] = <<>>
    BY DEF AssistantInit
  <2> QED  BY <2>1, SilenceFits DEF AnswerInv
<1> QED  BY <1>1, <1>2, <1>3 DEF AssistantInv

LEMMA AssistantSteps == AssistantInv /\ [AssistantNext]_assistantVars => AssistantInv'
<1> SUFFICES ASSUME AssistantInv, [AssistantNext]_assistantVars PROVE AssistantInv'
  OBVIOUS
<1>1. CASE AssistantNext
  <2>1. PICK q \in Questions : Thread(q)
    BY <1>1 DEF AssistantNext
  <2>2. /\ AssistantTyped' /\ OthersKept(q)
        /\ PermitTaken(q) \/ PermitReturned(q) \/ PermitUntouched(q)
        /\ Going(q) \/ Sending(q) \/ Ending(q)
    BY <2>1, ThreadShape
  <2>3. PermitInv'
    BY <2>2, PermitStep DEF AssistantInv
  <2>4. AnswerInv(q)'
    BY <2>2, OwnStep DEF AssistantInv
  <2>5. (\A p \in Questions : AnswerInv(p))'
    BY <2>2, <2>4, AnswersStep DEF AssistantInv
  <2> QED  BY <2>2, <2>3, <2>5 DEF AssistantInv
<1>2. CASE UNCHANGED assistantVars
  BY <1>2 DEF assistantVars, AssistantInv, AssistantTyped, PermitInv, InCall, AnswerInv
<1> QED  BY <1>1, <1>2

(* The threads keep their order: the permit is where the calls say, nothing*)
(* is sent before it is retrieved, and an answer fits what was sent.       *)
THEOREM AssistantInvariant == AssistantSpec => []AssistantInv
  BY AssistantStarts, AssistantSteps, PTL DEF AssistantSpec

(* _MODEL_SEMAPHORE is back after every way a call to the model can end, so*)
(* no question turns the model off for the questions after it.             *)
THEOREM PermitNeverLost == AssistantSpec => []ModelPermitExact
<1>1. AssistantInv => ModelPermitExact
  <2> SUFFICES ASSUME AssistantInv PROVE ModelPermitExact
    OBVIOUS
  <2>1. InCall = {q \in Questions : pc[q] \in {"embedding", "generating"}}
    BY DEF InCall, Calls
  <2>2. CASE free = 1 /\ InCall = {}
    <3>1. Cardinality(InCall) = 0  BY <2>2, FS_EmptySet
    <3> QED  BY <2>1, <2>2, <3>1 DEF ModelPermitExact
  <2>3. CASE free = 0 /\ \E q \in Questions : InCall = {q}
    <3>1. Cardinality(InCall) = 1  BY <2>3, FS_Singleton
    <3> QED  BY <2>1, <2>3, <3>1 DEF ModelPermitExact
  <2> QED  BY <2>2, <2>3 DEF AssistantInv, PermitInv
<1> QED  BY <1>1, AssistantInvariant, PTL

(* An explanation by the model cites something, only what that call was    *)
(* shown, and a finding of the scan whenever one was retrieved; every other*)
(* answer cites nothing.                                                   *)
THEOREM AnswersAreGrounded == AssistantSpec => []GroundedAnswer
<1>1. AssistantInv => GroundedAnswer
  <2> SUFFICES ASSUME AssistantInv, NEW q \in Questions, NEW r \in ToSet(response[q])
               PROVE  /\ r.ai => /\ r.cited # {} /\ r.cited \subseteq sent[q] /\ sent[q] \subseteq ToSet(sources[q])
                                 /\ (\E id \in ToSet(sources[q]) : IsFinding(id)) => \E id \in r.cited : IsFinding(id)
                      /\ ~r.ai => r.cited = {}
    BY DEF GroundedAnswer
  <2>1. AnswerInv(q)
    BY DEF AssistantInv
  <2>2. response[q] # <<>>
    BY DEF ToSet
  <2>3. PICK s : response[q] = <<s>> /\ Grounded(s, sources[q], sent[q])
    BY <2>1, <2>2 DEF AnswerInv, AnswerFits
  <2>4. r = s
    BY <2>3 DEF ToSet
  <2> QED  BY <2>1, <2>3, <2>4 DEF AnswerInv, Grounded
<1> QED  BY <1>1, AssistantInvariant, PTL
=============================================================================
