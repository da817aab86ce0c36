--------------------------- MODULE JobRunnerSpec ---------------------------
(***************************************************************************)
(* What the bounded runner of analysis jobs promises its caller            *)
(* (backend/app/jobs/runner.py, LocalProcessJobRunner): jobs wait in one   *)
(* FIFO queue, at most MaxWorkers are in progress, each has at most one    *)
(* child process, and run() comes back only when that child is gone, with  *)
(* the message the child sent or with the reason why there is none.  How   *)
(* the pipe, the deadline and the signals achieve this is the business of  *)
(* ProcessJobRunner, which implements this module.                         *)
(***************************************************************************)
EXTENDS Naturals, Sequences, FiniteSets

CONSTANTS
    Jobs,           \* calls of run(), one job each
    MaxWorkers,     \* settings.max_worker_processes, threads of the executor
    Messages        \* what a child can send: the outcomes of its function

(* The values that say why there is no message. *)
Failures == {"lost", "timeout"}

VARIABLES
    queue,      \* jobs the ThreadPoolExecutor has accepted and not begun
    job,        \* where the call of run() is
    child,      \* the job's child process
    sent,       \* the message a finished child left in its pipe, or "none"
    outcome     \* what run() returned, or "none"

runnerVars == <<queue, job, child, sent, outcome>>

RunnerTypeOK ==
    /\ queue \in Seq(Jobs)
    /\ job \in [Jobs -> {"idle", "queued", "running", "returned"}]
    /\ child \in [Jobs -> {"none", "alive", "dead"}]
    /\ sent \in [Jobs -> Messages \cup {"none"}]
    /\ outcome \in [Jobs -> Messages \cup Failures \cup {"none"}]

RunnerInit ==
    /\ queue = <<>>
    /\ job = [j \in Jobs |-> "idle"]
    /\ child = [j \in Jobs |-> "none"]
    /\ sent = [j \in Jobs |-> "none"]
    /\ outcome = [j \in Jobs |-> "none"]

Running == {j \in Jobs : job[j] = "running"}

(* run() hands the job to the executor. *)
Submit(j) ==
    /\ job[j] = "idle"
    /\ job' = [job EXCEPT ![j] = "queued"]
    /\ queue' = Append(queue, j)
    /\ UNCHANGED <<child, sent, outcome>>

(* A free worker thread takes the oldest job and starts its child, or      *)
(* fails to.                                                               *)
Start(j) ==
    /\ queue # <<>> /\ j = Head(queue)
    /\ Cardinality(Running) < MaxWorkers
    /\ queue' = Tail(queue)
    /\ job' = [job EXCEPT ![j] = "running"]
    /\ UNCHANGED <<child, sent, outcome>>

ChildStarts(j) ==
    /\ job[j] = "running" /\ child[j] = "none"
    /\ child' = [child EXCEPT ![j] = "alive"]
    /\ UNCHANGED <<queue, job, sent, outcome>>

(* The child ends, by itself or killed, with or without having answered.   *)
ChildEnds(j, m) ==
    /\ child[j] = "alive"
    /\ child' = [child EXCEPT ![j] = "dead"]
    /\ sent' = [sent EXCEPT ![j] = m]
    /\ UNCHANGED <<queue, job, outcome>>

(* run() returns.  A message is delivered only if it was sent, it is       *)
(* reported lost only if there is none, and the child is not alive.        *)
Return(j, o) ==
    /\ job[j] = "running" /\ child[j] # "alive"
    /\ o = "lost" => sent[j] = "none"
    /\ o = "timeout" => child[j] = "dead"
    /\ o \notin Failures => o = sent[j] /\ o # "none"
    /\ job' = [job EXCEPT ![j] = "returned"]
    /\ outcome' = [outcome EXCEPT ![j] = o]
    /\ UNCHANGED <<queue, child, sent>>

Returns(j) == \E o \in Messages \cup Failures : Return(j, o)
Ends(j) == \E m \in Messages \cup {"none"} : ChildEnds(j, m)

RunnerNext ==
    \E j \in Jobs : Submit(j) \/ Start(j) \/ ChildStarts(j) \/ Ends(j) \/ Returns(j)

(* The deadline of every job makes its child end and its call return.      *)
RunnerFairness ==
    \A j \in Jobs : /\ WF_runnerVars(Start(j))
                    /\ WF_runnerVars(Ends(j))
                    /\ WF_runnerVars(Returns(j))

RunnerSpec == RunnerInit /\ [][RunnerNext]_runnerVars /\ RunnerFairness
============================================================================
