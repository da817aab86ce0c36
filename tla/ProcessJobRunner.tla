-------------------------- MODULE ProcessJobRunner --------------------------
(***************************************************************************)
(* LocalProcessJobRunner (backend/app/jobs/runner.py): every job is a      *)
(* spawned child process that answers over a private pipe, watched by one  *)
(* thread of a bounded ThreadPoolExecutor.  The interesting part is        *)
(* _run_process_job: the watcher polls the pipe until a deadline, looks    *)
(* once more, signals a child that has not answered, waits for the process *)
(* to be gone and only then returns.  The child runs at its own pace: it   *)
(* may write its answer, or half of it, at any moment, close its end       *)
(* without answering, or die.                                              *)
(***************************************************************************)
EXTENDS Naturals, Sequences, FiniteSets

CONSTANTS
    Jobs,           \* calls of run()
    MaxWorkers,     \* ThreadPoolExecutor(max_workers)
    Messages        \* JobResult values a child can send

ASSUME RunnerAssumption ==
    /\ MaxWorkers \in Nat \ {0}
    /\ {"none", "lost", "timeout"} \cap Messages = {}

VARIABLES
    queue,      \* the executor's queue of accepted jobs
    watcher,    \* where the thread in _run_process_job is, per job
    child,      \* the child process
    pipe,       \* what the receiver would find in the pipe
    answer,     \* the message the child has written completely, or "none"
    signal,     \* the strongest signal the watcher has sent to the child
    verdict,    \* the JobResult the watcher is about to return
    outcome     \* what run() returned to its caller

vars == <<queue, watcher, child, pipe, answer, signal, verdict, outcome>>
childVars == <<child, pipe, answer>>
watcherVars == <<watcher, signal, verdict>>

WatcherStates ==
    {"idle", "queued", "spawn", "poll", "recheck", "late_recv", "is_alive",
     "term_join", "kill_join", "recv", "join", "finally", "finally_term",
     "finally_kill", "returned"}

(* running: in func; writing: in sender.send; sent: the message is in the  *)
(* pipe; closing: sender.close() done, the interpreter is shutting down.   *)
ChildStates == {"none", "running", "writing", "sent", "closing", "dead"}

TypeOK ==
    /\ queue \in Seq(Jobs)
    /\ watcher \in [Jobs -> WatcherStates]
    /\ child \in [Jobs -> ChildStates]
    /\ pipe \in [Jobs -> {"empty", "partial", "full", "drained"}]
    /\ answer \in [Jobs -> Messages \cup {"none"}]
    /\ signal \in [Jobs -> {"none", "term", "kill"}]
    /\ verdict \in [Jobs -> Messages \cup {"none", "lost", "timeout"}]
    /\ outcome \in [Jobs -> Messages \cup {"none", "lost", "timeout"}]

Init ==
    /\ queue = <<>>
    /\ watcher = [j \in Jobs |-> "idle"]
    /\ child = [j \in Jobs |-> "none"]
    /\ pipe = [j \in Jobs |-> "empty"]
    /\ answer = [j \in Jobs |-> "none"]
    /\ signal = [j \in Jobs |-> "none"]
    /\ verdict = [j \in Jobs |-> "none"]
    /\ outcome = [j \in Jobs |-> "none"]

Alive(j) == child[j] \in {"running", "writing", "sent", "closing"}
Dead(j) == child[j] = "dead"

(* Every write end is closed: the parent's copy is closed right after      *)
(* start(), the child's by its finally or by its death.                    *)
EndOfFile(j) == child[j] \in {"closing", "dead"}

(* Connection.poll: there is something to read, be it the end of file.     *)
Readable(j) == pipe[j] \in {"partial", "full"} \/ EndOfFile(j)

Busy == {j \in Jobs : watcher[j] \notin {"idle", "queued", "returned"}}

----------------------------------------------------------------------------
(* The child process.                                                      *)

(* func has returned or raised; send starts writing the JobResult.         *)
ChildWrites(j) ==
    /\ child[j] = "running"
    /\ child' = [child EXCEPT ![j] = "writing"]
    /\ pipe' = [pipe EXCEPT ![j] = "partial"]
    /\ UNCHANGED <<answer, queue, watcherVars, outcome>>

ChildSent(j) ==
    /\ child[j] = "writing"
    /\ child' = [child EXCEPT ![j] = "sent"]
    /\ pipe' = [pipe EXCEPT ![j] = "full"]
    /\ \E m \in Messages : answer' = [answer EXCEPT ![j] = m]
    /\ UNCHANGED <<queue, watcherVars, outcome>>

(* The finally that closes the sender: after send, after a send that       *)
(* failed, or after an exception _process_worker_entrypoint does not catch.*)
ChildCloses(j) ==
    /\ child[j] \in {"running", "writing", "sent"}
    /\ child' = [child EXCEPT ![j] = "closing"]
    /\ UNCHANGED <<pipe, answer, queue, watcherVars, outcome>>

(* The process is gone: its normal exit, a crash, the memory limit or a    *)
(* signal.  What it had written stays in the pipe.                         *)
ChildDies(j) ==
    /\ Alive(j)
    /\ child' = [child EXCEPT ![j] = "dead"]
    /\ UNCHANGED <<pipe, answer, queue, watcherVars, outcome>>

----------------------------------------------------------------------------
(* The caller and the watcher thread.                                      *)

Goto(j, pc) == watcher' = [watcher EXCEPT ![j] = pc]
Decide(j, v) == verdict' = [verdict EXCEPT ![j] = v]

(* run: self._executor.submit(...), then future.result().                  *)
RunCalled(j) ==
    /\ watcher[j] = "idle"
    /\ queue' = Append(queue, j)
    /\ Goto(j, "queued")
    /\ UNCHANGED <<childVars, signal, verdict, outcome>>

(* Mutant of WorkerTakes: the newest job first. *)
WorkerTakesNewest(j) ==
    /\ queue # <<>> /\ j = queue[Len(queue)]
    /\ Cardinality(Busy) < MaxWorkers
    /\ queue' = SubSeq(queue, 1, Len(queue) - 1)
    /\ Goto(j, "spawn")
    /\ UNCHANGED <<childVars, signal, verdict, outcome>>

WorkerTakes(j) ==
    /\ queue # <<>> /\ j = Head(queue)
    /\ Cardinality(Busy) < MaxWorkers
    /\ queue' = Tail(queue)
    /\ Goto(j, "spawn")
    /\ UNCHANGED <<childVars, signal, verdict, outcome>>

(* process.start() succeeds, and sender.close() in the parent.             *)
Spawn(j) ==
    /\ watcher[j] = "spawn"
    /\ child' = [child EXCEPT ![j] = "running"]
    /\ Goto(j, "poll")
    /\ UNCHANGED <<pipe, answer, queue, signal, verdict, outcome>>

(* process.start() raises: ProcessStartError, there is no child to watch.  *)
SpawnFails(j) ==
    /\ watcher[j] = "spawn"
    /\ Goto(j, "returned")
    /\ outcome' = [outcome EXCEPT ![j] = "lost"]
    /\ UNCHANGED <<childVars, queue, signal, verdict>>

(* receiver.poll(timeout) finds something ...                              *)
PollReady(j) ==
    /\ watcher[j] = "poll" /\ Readable(j)
    /\ Goto(j, "recv")
    /\ UNCHANGED <<childVars, queue, signal, verdict, outcome>>

(* ... or the deadline passes first.                                       *)
PollTimesOut(j) ==
    /\ watcher[j] = "poll" /\ ~Readable(j)
    /\ Goto(j, "recheck")
    /\ UNCHANGED <<childVars, queue, signal, verdict, outcome>>

(* Mutant of Recheck: no second look. *)
RecheckSkipped(j) ==
    /\ watcher[j] = "recheck"
    /\ Goto(j, "is_alive")
    /\ UNCHANGED <<childVars, queue, signal, verdict, outcome>>

(* receiver.poll(0): the answer may have arrived with the deadline.        *)
Recheck(j) ==
    /\ watcher[j] = "recheck"
    /\ Goto(j, IF Readable(j) THEN "late_recv" ELSE "is_alive")
    /\ UNCHANGED <<childVars, queue, signal, verdict, outcome>>

(* Mutant of Receive: an answered child is not waited for but stopped.     *)
ReceiveThenStop(j) ==
    /\ watcher[j] \in {"recv", "late_recv"} /\ pipe[j] = "full"
    /\ pipe' = [pipe EXCEPT ![j] = "drained"]
    /\ Decide(j, answer[j])
    /\ Goto(j, "finally")
    /\ UNCHANGED <<child, answer, queue, signal, outcome>>

(* receiver.recv() blocks until the message is whole, without a deadline.  *)
Receive(j) ==
    /\ watcher[j] \in {"recv", "late_recv"} /\ pipe[j] = "full"
    /\ pipe' = [pipe EXCEPT ![j] = "drained"]
    /\ Decide(j, answer[j])
    /\ Goto(j, "join")
    /\ UNCHANGED <<child, answer, queue, signal, outcome>>

(* recv meets the end of file.  Nothing read: EOFError, caught after the   *)
(* first poll (join, then ProcessExitError) and not caught after the late  *)
(* one.  A part read: EOFError or OSError, depending on where it ends.     *)
(* What is not caught goes through finally and becomes run's               *)
(* ProcessExecutionError.                                                  *)
ReceiveFails(j) ==
    /\ watcher[j] \in {"recv", "late_recv"} /\ pipe[j] # "full" /\ EndOfFile(j)
    /\ Decide(j, "lost")
    /\ \/ watcher[j] = "recv" /\ Goto(j, "join")
       \/ (watcher[j] = "late_recv" \/ pipe[j] = "partial") /\ Goto(j, "finally")
    /\ UNCHANGED <<childVars, queue, signal, outcome>>

(* terminate() a child that is still alive; either way the verdict is      *)
(* TimeoutError.                                                           *)
IsAlive(j) ==
    /\ watcher[j] = "is_alive"
    /\ Decide(j, "timeout")
    /\ IF Alive(j)
       THEN Goto(j, "term_join") /\ signal' = [signal EXCEPT ![j] = "term"]
       ELSE Goto(j, "join") /\ UNCHANGED signal
    /\ UNCHANGED <<childVars, queue, outcome>>

(* process.join(timeout=0.5) runs out: kill().                             *)
Kill(j) ==
    /\ Alive(j)
    /\ \/ watcher[j] = "term_join" /\ Goto(j, "kill_join")
       \/ watcher[j] = "finally_term" /\ Goto(j, "finally_kill")
    /\ signal' = [signal EXCEPT ![j] = "kill"]
    /\ UNCHANGED <<childVars, queue, verdict, outcome>>

(* finally: a child that is alive on an unexpected exception is stopped.   *)
Finally(j) ==
    /\ watcher[j] = "finally" /\ Alive(j)
    /\ Goto(j, "finally_term")
    /\ signal' = [signal EXCEPT ![j] = "term"]
    /\ UNCHANGED <<childVars, queue, verdict, outcome>>

(* Mutant of JoinReturns: no wait for a child that was killed or answered. *)
JoinSkipped(j) ==
    /\ watcher[j] \in {"join", "term_join", "kill_join",
                       "finally", "finally_term", "finally_kill"}
    /\ Goto(j, "returned")
    /\ outcome' = [outcome EXCEPT ![j] = verdict[j]]
    /\ UNCHANGED <<childVars, queue, signal, verdict>>

(* join() without a timeout returns when the process is gone, and the      *)
(* future resolves.                                                        *)
JoinReturns(j) ==
    /\ watcher[j] \in {"join", "term_join", "kill_join",
                       "finally", "finally_term", "finally_kill"}
    /\ Dead(j)
    /\ Goto(j, "returned")
    /\ outcome' = [outcome EXCEPT ![j] = verdict[j]]
    /\ UNCHANGED <<childVars, queue, signal, verdict>>

----------------------------------------------------------------------------
ChildStep(j) ==
    ChildWrites(j) \/ ChildSent(j) \/ ChildCloses(j) \/ ChildDies(j)

WatcherStep(j) ==
    \/ Spawn(j) \/ SpawnFails(j) \/ PollReady(j) \/ PollTimesOut(j)
    \/ Recheck(j) \/ Receive(j) \/ ReceiveFails(j) \/ IsAlive(j)
    \/ Kill(j) \/ Finally(j) \/ JoinReturns(j)

Next ==
    \E j \in Jobs :
        RunCalled(j) \/ WorkerTakes(j) \/ WatcherStep(j) \/ ChildStep(j)

(* What the operating system owes a child: a send that has begun goes on   *)
(* (the watcher drains the pipe), a process that has answered or closed    *)
(* its end exits, and SIGKILL is obeyed.  Nothing is owed while func runs, *)
(* and SIGTERM may be ignored.                                             *)
ChildMustMove(j) ==
    /\ child[j] \in {"writing", "sent", "closing"} \/ signal[j] = "kill"
    /\ ChildSent(j) \/ ChildCloses(j) \/ ChildDies(j)

Fairness ==
    \A j \in Jobs : /\ WF_vars(WorkerTakes(j))
                    /\ WF_vars(WatcherStep(j))
                    /\ WF_vars(ChildMustMove(j))

Spec == Init /\ [][Next]_vars /\ Fairness

----------------------------------------------------------------------------
(* When run() has returned, the job's process is gone: the caller may      *)
(* delete the workspace the child was reading.  "A timed-out worker is     *)
(* terminated before returning so the caller cannot clean its workspace    *)
(* while it is still using it" (jobs/runner.py:130-132).                   *)
NoChildOutlivesItsJob ==
    \A j \in Jobs : watcher[j] = "returned" => ~Alive(j)

(* There are never more analysis processes than max_workers, even when     *)
(* children time out, answer half a message or refuse to die.              *)
LiveChildrenBounded == Cardinality({j \in Jobs : Alive(j)}) <= MaxWorkers

(* run() returns a child's JobResult only if this child wrote it, whole,   *)
(* and reports a lost worker only if it never wrote one.                   *)
OutcomeGenuine ==
    \A j \in Jobs :
        /\ outcome[j] \in Messages => outcome[j] = answer[j]
        /\ outcome[j] = "lost" => answer[j] = "none"

(* A child whose answer is being read is left alone: it is never signalled *)
(* after its message has been received (runner.py:128-139, 162-163).       *)
AnsweredChildNotSignalled ==
    [][\A j \in Jobs :
          signal'[j] # signal[j] => verdict[j] \notin Messages]_vars

(* An answer that is complete before the watcher's second look is          *)
(* delivered, deadline or not: "Recheck after poll to avoid racing a       *)
(* worker that completed exactly at the deadline" (runner.py:130-136).     *)
AnswerInTimeIsDelivered ==
    \A j \in Jobs :
        (watcher[j] \in {"poll", "recheck"} /\ pipe[j] = "full")
            ~> (outcome[j] \in Messages)

(* The pipe protocol implements the runner its callers rely on: a job is   *)
(* in progress while its watcher is anywhere in _run_process_job, and its  *)
(* message counts as sent once the child that wrote it is gone.            *)
JobView ==
    [j \in Jobs |-> IF watcher[j] \in {"idle", "queued", "returned"} THEN watcher[j]
                    ELSE "running"]
ChildView == [j \in Jobs |-> IF Alive(j) THEN "alive" ELSE child[j]]
SentView == [j \in Jobs |-> IF Dead(j) THEN answer[j] ELSE "none"]

Abstract ==
    INSTANCE JobRunnerSpec WITH job <- JobView, child <- ChildView, sent <- SentView

ImplementsRunner == Abstract!RunnerSpec
============================================================================
