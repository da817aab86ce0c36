# Verification of the API security analyzer

TLA+ models of this repository, checked with TLC on small
instances and, for the core, proved with TLAPS for every instance.  The models
are translated from the Python code under `src/`; each definition is tied to
the lines it stands for in `PROJECT.json` (`map`).

## 1. The system

A client uploads an OpenAPI document and a source archive.  The backend checks
the upload, extracts the archive, runs a static analysis in a child process,
stores the result and lets the client poll for it.  One process, one database,
one scratch directory; a second process exists only per analysis.

| Part | Code | State | Operations |
|---|---|---|---|
| Upload admission | `services/upload_admission.py` | a global counter, a dictionary of counters per client, a lock | `try_reserve`, `UploadReservation.release` |
| Upload body limit | `middleware/upload_body_limit.py` | bytes received of one request, its deadline | count or refuse a message, time out |
| Authentication, rate limit | `core/security.py` | per client the times of recent submissions | `get_current_client`, `ScanRateLimiter.__call__` |
| Scan endpoint | `api/v1/scans.py` | the coroutine of one request and its cancellations | reserve, read the form, start a thread, wait for it shielded, answer, release |
| Scan service | `services/scan_service.py` | the thread of one submission | count active scans, insert the row, prepare the directory, run the job, save or fail, clean up |
| Scan persistence | `repositories/scan.py`, `db/` | the tables; a `Session` per request | insert, update status, save output, recover |
| Job runner | `jobs/runner.py` | executor queue, worker threads, child processes, pipes | `run`, the child's `send` |
| Start-up, readiness | `main.py` | `startup_recovery_complete` | `lifespan`, `/health/ready` |
| Archive extraction | `services/archive.py` | byte budgets of one extraction, the files it has written, the temporary zip | check the archive, check a member, write a chunk, clean up |
| Specification guard, OpenAPI loading | `services/specification_guard.py`, `analysis/openapi/` | counters of the composer, stack and colours of the walk, the recursion of the loader, statuses of references | compose, walk, load, normalise |
| Source analysis | `analysis/source/` | the files loaded, the names bound to a Connexion App, the endpoints | load a file, look for a registration, normalise a file |
| Analysis worker | `services/analysis_worker.py` | the stage of one analysis | specification, source, correlation; an error kind per stage |
| Single-layer rules | `analysis/rules/openapi/`, `analysis/rules/source/` | none | each makes findings about operations or endpoints |
| Correlation engine | `analysis/correlation/`, `analysis/rules/correlation/` | pairs, claimed endpoints, leftovers, correlated findings | match, five rules over the pairs, metrics |
| Evaluation harness | `evaluation/` | the dataset, the results by case, the tables of three modes | load, analyse, evaluate, report (offline) |
| Local AI, assistant | `services/rag_assistant.py`, `services/local_ai.py`, `api/v1/scans.py` | one permit of the local model | rank, embed, generate, accept or fall back |
| Frontend | `frontend/` | screen, selected scan, what is shown, requests on the way | navigate, submit, poll, refresh |

How they interact.  A submission meets the body limit first, which only wraps
`receive`; then the rate limiter, which answers 429 or logs the time; then the
authentication, which reads the same headers again; then the endpoint.  The
endpoint takes an upload slot before it reads a byte
and releases it in a `finally`; between the two it starts one thread, which it
never abandons: a cancellation is only noted until the thread is done.  The
thread shares the scans table with every other thread, with no lock and no
conditional update, and the directory with the child process of its job.  The
runner's threads give the result back through a future.  When the process is
killed its memory is gone, the table and the directories stay, and the next
start fails the rows it finds active and removes their directories.

In the thread, the archive is extracted member by member into the directory the
child will read.  In the child, the specification is guarded, loaded and
normalised, the source is loaded and asked for its routes, some of which exist
only because the specification names their handlers, and the two sides are
correlated.  The evaluation harness runs the same engines on a benchmark, each
alone and both together.  A browser polls for the scan, and its analyst asks
the assistant about it, whose threads share the local model.

What is hard about it:

* the request may be cancelled at any await, several times, while its thread
  cannot be cancelled at all;
* the counts of active scans are read in two queries and the row is written
  later, with other threads in between;
* a database call can fail before, in or after its COMMIT; nothing calls
  `rollback()`, so after a failure inside a transaction every further call on
  the same session raises, those of the error handlers too;
* a client sends its body at its own pace, in messages of any size, while a
  deadline runs that is looked at only when the next message is asked for;
* every submission evicts the old times of all clients while it decides on one;
* a child answers, dies, or hangs while its deadline passes; it can die in the
  middle of its answer, and it can ignore SIGTERM;
* the process can be killed between any two of these steps, the recovery
  included;
* endpoints are consumed while operations are matched, so what a later
  operation gets depends on all earlier ones, and five rules, the aligner, the
  metrics and the single-layer rules each recompute part of the same facts;
* the guard walks the graph of constructed objects to protect a recursion over
  another graph, that of YAML nodes; sharing is legal and cycles are not, for
  aliases in one place and for references in another;
* headers of an archive lie, members overwrite each other, a name may be that
  of the temporary file, and the extraction can stop anywhere;
* an alias of an App can be rebound in a branch, a loop or a handler;
* identifiers that are unique in one scope (a case in its partition, a
  proposition in its case) are keys in a larger one;
* the answers to overlapping polls arrive in any order, after navigation too;
* one permit of the model is taken without waiting and must come back on every
  path through two functions.

For each part, what makes it correct: the admission never drifts and never
exceeds its limits; a slot covers the whole life of the thread and always
comes back; `run()` returns, and only when the child is gone, with what the
child really said; the directory of a running child is not removed; an
accepted scan is over, a completed one has its result; rows and directories
are reclaimed; the active rows stay bounded; the server is ready only after
recovery.  At the boundary: no window is exceeded, nobody is refused for the
traffic of others, the bytes held are bounded, a stalled body ends.  In an
analysis: endpoints are shared only when there are too few, leftovers are
really absent, every count adds up, and what the rules, the aligner and the
single-layer rules say of a pair agrees.  Before it: an archive is on disk
whole, alone and within the budgets, a specification that is admitted is
acyclic and one that is refused deserves it, references have their real status,
every file is analysed or named.  In the harness: every proposition is counted
once, by its own evidence, and the tables agree.  In front: the page comes to
show the end of a scan; the assistant's answers are grounded and its permit is
never lost.

## 2. Modules

| Module | Models | Extends / instantiates |
|---|---|---|
| `UploadAdmission` | the two counters and the reservations | |
| `JobRunnerSpec` | what the runner promises (abstract) | |
| `ProcessJobRunner` | the runner: queue, watcher thread, child, pipe, deadline, signals | refines `JobRunnerSpec` |
| `ScanLifecycle` | what a user sees of a scan (abstract) | |
| `ScanService` | endpoint, thread, table, directories, recovery, crash | instantiates `UploadAdmission` and `JobRunnerSpec`, refines `ScanLifecycle` |
| `RequestOrchestration` | the shielded await of one request, at the grain of event loop callbacks | |
| `RateLimiter` | the log of times per client and its eviction | |
| `HttpBoundary` | body limit, rate limiter, authentication, upload slot, reading of the form | extends `RateLimiter`, instantiates `UploadAdmission` |
| `EndpointMatcher` | `match_endpoints`, one operation per step | |
| `SecurityRules` | the findings of the single-layer rules, as functions | |
| `EvidenceCorrelation` | one analysis in the child: stages, aligner, correlation rules, metrics | extends `EndpointMatcher`, `SecurityRules` |
| `ArchiveExtraction` | the extraction of one archive | |
| `SpecificationGuard` | the counting composer, the walk for cycles and references, the loader's recursion, the validator | |
| `SpecificationNormalizer` | references, schemas, parameters, security of the operations | |
| `ConnexionRegistration` | the pass that looks for a registered App, and what Python does with the same program | |
| `SourceExtraction` | the source analysis, file by file | extends `ConnexionRegistration` |
| `Evaluation` | the benchmark from loading to the tables | |
| `ConnexionProtocol` | the counts of the Connexion fixtures | |
| `ScanClient` | the browser of one analyst | |
| `ScanAssistant` | questions to the assistant and the local model | |
| `NormalizerInputs`, `SourceInputs` | families of documents and of source trees | |
| `MC*` | instances for TLC | extend the module they are named after; `MCAnalysis` puts the stages of an analysis together, `MCClient` the two programs in front of it |
| `DataLemmas` | lemmas about least and greatest places, flattened lists, sums, and recursion by a measure | extended by the proofs that need them |
| `UploadAdmission_proofs`, `ScanService_proofs`, `HttpBoundary_proofs`, `Evaluation_proofs` | invariants and theorems | extend the module they are named after; `HttpBoundary_proofs` is also about `RateLimiter`, `Evaluation_proofs` also about `ConnexionProtocol` |
| `JobsAndHandlers_proofs` | invariants and theorems | about `ProcessJobRunner`, `RequestOrchestration` and `ScanAssistant` |
| `UploadChecks_proofs` | invariants and theorems | about what an upload goes through before its source is read: `ArchiveExtraction`, `SpecificationGuard`, `SpecificationNormalizer` |
| `Analysis_proofs` | invariants and theorems | about the analysis that follows: `SourceExtraction`, `ConnexionRegistration`, `EvidenceCorrelation` |

### UploadAdmission

`globalCount` and `clientCounts` are `_global_count` and `_client_counts`, a
function whose domain is the set of keys of the dictionary.  `reservation`
stands for the `UploadReservation` of a request.  `TryReserve` and `Release`
are the two methods, one step each because both hold the lock throughout;
`Release` may be called again.

### ProcessJobRunner

One record of variables per job: `watcher` is the place of the worker thread in
`_run_process_job`, `child` the process, `pipe` what the receiver would find,
`answer` the message that was written completely, `signal` the strongest signal
sent, `verdict` the `JobResult` about to be returned, `outcome` what `run()`
returned.  `poll` with the deadline is two actions: `PollReady` needs something
to read, `PollTimesOut` needs nothing to read, and neither is forced to happen
first.  `recv` blocks until the message is whole or the other end is closed.
Every `join()` without a timeout is one action that needs the process to be
gone; a `join(0.5)` may end the same way or run out (`Kill`).  The time of the
0.5 s and of the deadline is not modelled: they may pass at any moment.

### ScanService

`pc` names the step of a submission, in the order of the code: `reading` in the
endpoint, then the steps of `create_and_submit_scan` and `_execute_scan_job`,
then `respond` in the endpoint again.  Every database call is one step with all
its outcomes (`UpdateStatus`, `CreateRow`, `SaveOutput`): done; failed with
nothing written and the session usable (no connection) or unusable; written and
reported as failed.  `MaxDbFaults` bounds how many fail in a behaviour.
`CleanWorkspace` and `CleanWorkspaceFails` are `cleanup_scan_workspace`, whose
result the thread drops and the recovery loop turns into an exception.  `Crash`
clears what is in memory and keeps table and directories; `Shutdown` is a
graceful stop; `StartUp`, `CleanInterrupted` and `RecoveryComplete` are
`lifespan`.  A child that survives a killed parent can only read a directory
and fail to write its pipe, so the model ends it with its parent.

The runner is the abstract one, `JobRunnerSpec`: `ProcessJobRunner` is shown to
implement it, so the pipe protocol need not be explored together with the
database.

### RequestOrchestration

The coroutine of `create_scan` waits for its thread in a loop around
`asyncio.shield`.  Here a request is two tasks and their callbacks: the
operation's future, the shield's future, the `CancelledError` that was thrown
or is pending.  `ScanService` treats this loop as one noted cancellation and
lets `Respond` choose between the exception and the cancellation;
this module shows both can really happen and that the slot outlives the
thread in every interleaving.

### RateLimiter and HttpBoundary

`requests` is the dictionary of deques, `admitted` a history variable: all the
times a bucket was let through.  A call of the limiter awaits nothing, so it is
one step, `Submission`: all buckets are evicted, empty ones deleted, then the
caller is refused or logged.  The number of times taken off each deque is
chosen such that the loop of `popleft()` would stop there (`Expires`).

In `HttpBoundary` `pc` follows one request: `Arrive` (body limit entered,
limiter decided), `Authenticated`, `HeadersRefused` or `TakeSlot`, then
`Receive` per body message until `BodyComplete`, `ReadTimedOut` or
`Disconnect`, then `ReadParts` and `Finish`.  `Tick` moves the clock between
any two steps.  `LimiterToken` and `EndpointToken` are the two readings of the
credential headers.  The slots are `UploadAdmission`, by instantiation.  The
service behind it is only `Finish`: `ScanService` is the detailed model, and
begins where this one ends.

### EndpointMatcher, SecurityRules and EvidenceCorrelation

A path is the sequence of its segments, so that stripping slashes and replacing
the names of parameters are what the code does to the text.  The variables
have the code's names: `pairs` is `matched_pairs`, `claimed`
`matched_source_indices`, `unmatched` `unmatched_spec_ops`.  There is an action
per way an operation can leave the loop (`MatchExact`, `MatchTemplate`,
`MatchHandler`, `MatchAmbiguous`, `MatchNone`) and one per return.

`SecurityRules` gives, for an operation or an endpoint, the findings of each
rule; which names are sensitive or which guard was recognised is data.
`EvidenceCorrelation` runs the stages of `execute_analysis_worker`, each of
which may raise and end the analysis with its own error; `RunRule` is one of
the five correlation rules.  A finding keeps its rule, its subject, its state,
severity and lineage.  `Mentions` is the test by which the code looks for a
lineage, an occurrence of the path in the text of a message.

### ArchiveExtraction

The loop over the members with its two header checks, then a step per chunk:
the library may deliver any number of bytes, whatever the header said, or
raise.  `files` is what is on disk, so that a member may overwrite another, or
the temporary zip the archive is being read from (`TempZip`).  Paths are
resolved places: a member names a place below the directory or one outside.

### SpecificationGuard

A document is a graph of containers whose entries are scalars or containers; an
alias is a container met again.  `frames` is the recursion of the composer and,
once the guard has admitted the document, that of the loader's `walk_node`;
`pending`, `active` and `visited` are the guard's variables.  One pop of the
stack is one action: `Skip`, `Exit`, `Cycle` or `Enter`.

### SpecificationNormalizer

A dictionary of the document is a record of the keys the normaliser looks at;
`Nesting` is how deep its items are written in place, without a reference.
`Resolve` and `NormalizeSchema` are functions, of the references already followed
on the branch (and of the dictionary), as the code's recursions have them as
arguments; `NormalizedSchema` is one call without its items.  A step normalises
one operation.  The reference of a schema may lead nowhere, to nothing, to itself
or to what others lead to.  What the properties compare with, where references
lead (`Leads`, `Reached`, `NeverEnds`), is defined without any order of visits.

### ConnexionRegistration and SourceExtraction

`InspectScope` is the code's pass over the statements of a module, with the
three sets of names it carries.  `Run` is the reference: the environments that
executing the same program may lead to, with both ways of a condition, up to two
rounds of a loop and exceptions anywhere in a `try`.  Both are functions of the
program that is left (`Programs` is closed under suites and rests, `Size` is what
a recursion goes down in); `Inspected` and `Executed` are one statement of each.
`SourceExtraction` loads the
files in the order of the code's checks, and normalises them one by one; the
endpoints of FastAPI and Flask come from decorators, those of Connexion from the
operations of the specification.

### Evaluation and ConnexionProtocol

The engines are operators given as constants, so that what is left is what the
harness does with them: which partition a case's files come from, which
condition sees which layer, what is keyed by what.  `evaluate_mode` classifies
one proposition a step, so a table is seen while it is being filled.  Numbers of intervals and of
the bootstrap are reduced to whether they exist.

### ScanClient and ScanAssistant

`ScanClient` has the state of the React components and a slot per request on
the way; a request is answered with the row of the moment of its answer, and
its continuation runs later.  `Deliver` includes the effect that React runs
again when the status changes.  In `ScanAssistant` a question is a thread; the
model is external and may do anything, within the types of the code's checks.

## 3. Runs

| Run | Instance | Shows |
|---|---|---|
| `runner` | 2 jobs, 1 worker thread, 2 messages | no process outlives its job, an answered child is not signalled, an answer in time is delivered, `JobRunnerSpec` implemented with its liveness: genuine outcomes, bounded processes, every run returns |
| `service_faults` | 2 submissions of 1 client, 2 failing database calls, 1 restart | the safety of directories, answers, results and recovery under faults |
| `service_lifecycle` | 2 submissions, no database fault, 1 failing removal, 1 restart, fairness | slots come back, rows have threads, `ScanLifecycle` implemented with its liveness |
| `service_limits` | 3 submissions of 1 client, upload limit 2, scan limit 1, 1 failing database call | the excess over the scan limits |
| `orchestration` | 3 requests of 2 clients, 2 slots, 2 cancellations each | the admission's counters are exact, the slot covers the thread, the end is truthful, the request ends |
| `http_boundary` | 4 submissions, 3 of one client (its token in 3 header forms) and 1 unknown; 1 per window of 2, 1 slot, deadline 2, 3 bytes, arrivals at 4 moments, fairness | no window exceeded, nobody limited by others, limiter and endpoint agree on the caller, bytes bounded, no byte after the deadline, a stalled client loses its slot |
| `analysis` | archives of up to 3 members; graphs of 3 containers; graphs of 3 references; source trees of up to 4 files; up to 3 of 6 operations against up to 3 of 7 endpoints | `ExtractionIsExact`, `GuardIsExact`, `NormalizedAsWritten`, `EveryFileAccounted`, `MappingIsExact`, `RegistrationIsExecuted`; sharing of endpoints only when scarce, leftovers absent, correlated findings backed, rules in agreement with aligner and matcher |
| `evaluation` | datasets of up to 2 cases in 1 or 2 partitions; Connexion fixtures of 1 or 2 cases | every proposition counted, evidence its own, tables in agreement, protocol counts add up |
| `client` | a browser on 2 scans with 2 requests on the way; 2 questions to the assistant | the page comes to show an end; answers are grounded, the permit is never lost |

A behaviour of `analysis`, of `evaluation` and of `client` is a behaviour of one
of the programs the run is about, the others being idle: they have no state in
common, and a run for each would be no other check.

Three more runs are expected to be violated; each refutes a sentence of a
document or a test, and the counterexample is the finding:

* `claim_persistence`: when saving really fails, the session is unusable, both
  attempts to record FAILED raise, and the row stays RUNNING;
* `claim_ready`: a stop or a failed removal after the recovery's commit leaves a
  directory that no later start looks for, and the server is ready all the same;
* `claim_metrics`: the details screen asks for the results of a scan whose status
  is `COMPLETED`, the backend says `completed`: a finished scan is shown without
  its metrics.

**Why the bounds are enough.**  Two submissions are what an interleaving of two
threads over one table needs; a third is there when a limit has to be passed by
a race (`service_limits`) while a slot is held by another.  With one worker
thread the second job has to wait in the queue while the first is being killed.
Two failing database calls are the failing call and the failing handler; more
change nothing, since a session that is unusable fails for free.  One restart
is enough for a recovery over rows of two submissions.  In `http_boundary` one
submission fills the window; the next one of the client, which can arrive
before, at or after the moment the first entry expires, is refused or let
through while the first may still hold the slot, a third finds the log the
second left, and the fourth shows that a stranger's bucket is another one; a
window of more than one entry, of which a part expires, is left to the theorems
of `RateLimiter`; body messages of 0 and 2
bytes against a limit of 3 reach both a body that fits and one that does not;
the clock reaches every deadline, and a body can be received in two messages at
different moments.  In `analysis` two operations
compete for one or two endpoints while a third finds what they left; the six
operations and seven endpoints have every kind of relation that the matcher
distinguishes (same path, same path but for a slash, same template, same
handler, other method) and every state of authentication.  Two members of an
archive are what one needs to overwrite another, a third to pass the limit of
files.  Three containers, each with up to two entries, make every diamond and
every cycle of length one to three, and with three references the same is true
of schemas; a longer cycle is the same cycle for a walk that compares identities.
A program makes an alias, goes through one statement, simple or with suites of up
to two, and calls `add_api`: every rebinding of every name in every kind of suite.  Two cases are what one needs to be judged
by the other's files, two partitions to share an id; three would repeat this.
Two requests on the way are what can be answered out of order, two scans what
can be confused, two questions what can compete for the permit.  
For most safety properties the bounds are only a
convenience: the theorems of section 4 hold for all of them.

`CHECK_DEADLOCK FALSE` is set where the system really stops: all jobs have
returned, all requests are answered, the analysis is over.  `SYMMETRY` is used over the submissions
of one client, and only in runs without liveness.

**Fairness.**  `ThreadStep`: the operating system runs threads, and no call in
them blocks for ever.  `UploadEnds`: the middleware's deadline ends a body that
does not arrive (`SlotComesBack` of `HttpBoundary` shows it from timers).  `RunnerStep`: the service always passes a timeout, and
`ProcessJobRunner` shows that with one every `run()` returns, under its own
fairness: worker threads run, a `send` that has begun goes on while the watcher
drains the pipe, a process that has answered or closed its end exits, SIGKILL
is obeyed.  Nothing is assumed of an analysis that is computing, of SIGTERM, or
of a client.  `StartUpStep`: the supervisor restarts a stopped process.  In
`HttpBoundary` the clock moves on, timers fire and the server's own steps are
taken; no message of a body ever has to come.  In `ScanClient` scans end,
the interval fires, the continuation of an answered request runs, and a request
is not answered with errors only (strong fairness): a page whose every request
fails cannot show anything.  The archive, the specification, the source and the
benchmark are worked on by one thread each; of them only safety is stated.

## 4. Proofs

For all values of the constants; the assumptions are `AdmissionAssumption`,
`RunnerAssumption`, `ServiceAssumption`, `LimiterAssumption` and
`BoundaryAssumption` (limits and windows are positive, every request has a
client, the three reasons for "no message" are not messages, every identity has
a bucket and "nobody" is not one), `MatcherAssumption` and `EvidenceAssumption`
(operations and endpoints are sequences of records, a handler has a name, an
endpoint is in one of the three states of authentication),
`OrchestrationAssumption` (cancellations are bounded by a number),
`ArchiveAssumption` (an archive is a sequence of members with a target below the
directory or outside it; budgets are numbers), `GuardAssumption` (a document has
finitely many containers and gives each a kind and a finite sequence of entries;
limits are numbers), `NormalizerAssumption` (a document is a finite tree with
finitely many references: what is written in place is nested less deep; a
reference has at most one target, a foreign one none), `ProgramAssumption` (a syntax tree is finite: its suites and
its rest are smaller programs; only named expressions name something; a `with`
has no second suite), `SourceAssumption` (files and operations are lists of
records, a file has a name, of a method and a path there is one operation in the
specification's dictionary), `EvaluationAssumption` (facts about the benchmarks in
`evaluation/`: lists are lists, a case names each of its propositions once, no
case is in both partitions, a directory of a case's name is its own or is looked
at after its own) and `ProtocolAssumption` (fixtures hold lists and flags).

* `UploadAdmission_proofs`.  `AdmissionInv` adds to `CountersExact` that the set
  of holders is finite, without which cardinalities cannot be counted up and
  down, and that the counters are below their limits, which is what the guard
  of `try_reserve` tests.  `CountersNeverDrift`, `UploadLimitsHold`,
  `RefusalsAreGenuine`; the last two are stated in the module and proved only.
* `JobsAndHandlers_proofs`, the runner.  `JobInv` relates the watcher's place, the child,
  the pipe and the verdict.  The delicate part is "lost": it is decided at the
  end of file, so `WatcherInv` has to remember that nothing can be written
  after it.  `QueueInv` (a waiting job is in the queue once) is needed for a
  job not to be begun twice.  `NoChildOutlives`, `OutcomesAreGenuine`,
  `AnsweredIsLeftAlone`, `ProcessesBounded` (by counting the busy worker
  threads) and `RunnerImplementsSpec`: every step is a step of `JobRunnerSpec`
  or a stutter.
* `ScanService_proofs`.  `ServiceInv` is `PlaceInv(r)` for every submission, a
  statement about its row, its directory and its job for each place of its
  thread, with the invariant of the admission taken from
  `UploadAdmission_proofs` by instantiation.  A step of one submission keeps
  `PlaceInv` of the others because it touches nothing of theirs (`StepOf`,
  `OthersKept`), so each action is examined for its own submission only.  From
  it follow the type invariant and seven properties the runs check.
  `BacklogStaysBounded` needs a second invariant, `BacklogInv`: the active rows
  together with the submissions that have passed a count.  It grows only when
  a submission passes a count; at that moment fewer than the limit are active,
  and all others that may insert hold one of the upload slots.
  `ServiceImplementsLifecycle`: with no failing database call, every step is a
  step of `ScanLifecycle` or a stutter.  A step either answers one submission
  (`AnswerSeen`), changes one row (`WriteSeen`), or is a crash or a start-up that
  does so for several at once (`ProcessSeen`); the invariant says at each place
  which row may stand behind the answer.  The hypothesis is needed: a failed
  update leaves a row active behind a client that was answered, and with it
  `Busy` may be answered over a row that could not be rejected.

* `HttpBoundary_proofs`, first part.  `LimiterInv`: the deque of a bucket is the end of its
  history, everything in the history before it is older than a window, and any
  two entries `Limit` apart are a window apart.  The last part is inductive
  only with the first two: when one more is let through, the entry `Limit`
  before it is in the history, not in the deque.
  Second part.  `BoundaryInv` adds what each place of a submission says about
  its slot and its deadline.  `NoWindowExceeded`, `LimitedByOwnTraffic`,
  `SlotsMatchPlaces`, `DeadlineIsFinal`.  Two theorems add up over all
  submissions.  `SpoolStaysBounded` takes the counters of the admission along
  (`BoundarySlots`): only holders of a slot have bytes spooled, and the spool is
  part of a product of the holders and the places of one body.
  `ChargedForOneself` needs `ChargeInv`, that the log of a bucket has an entry
  for each submission passed on for it, and that the two readers of the headers,
  which are written differently, agree on every header.
* `Analysis_proofs`, the correlation.  `MatcherInv` says of each pair which endpoints
  its operation could choose from and which the earlier ones had taken
  (`PairOK`), that `claimed` is what the pairs have taken, and on which return
  the matcher ended (`Returned`); from it `EndpointsAreSharedWhenScarce` and
  `LeftoversAreAbsent`.  `FindingsInv` says what each layer has said so far,
  that every correlated finding is right about its pair (`FindingOK`), and that
  nothing is missing once its rule has run; from it `RuleAgreesWithAligner`,
  `FindingsAreBacked` and `SurfaceAgreesWithMatcher`, and from the first and the
  last `FindingsFollowPairs`, the property the run checks.  `TotalsAddUp` counts: the
  pairs split into three disjoint sets, and the endpoints the pairs have taken
  are no more than the pairs that have one.  `Strip` and `Template` stay
  unexpanded: the proofs use only that equal stripped paths have equal
  templates, which holds because both keys are made of the stripped path.

* `JobsAndHandlers_proofs`, the orchestration.  `OrchestrationInv` takes a request place by
  place (`Quiet`, `Waiting`, `Over`) with the admission's invariant: a
  cancellation is on its way, waits to be thrown, or has been noted, and none
  of them lets the request release its slot while its thread runs.  The last
  needs that the wait is resumed after every cancellation, however many there
  are.  `SlotOutlivesThread`, `ReportsAreTruthful`,
  `CountersSurviveCancellation`.
* `UploadChecks_proofs`, the guard.  `GuardInv`: what is visited is closed under
  children and contains no round (`VisitedInv`); an exit that waits on the stack
  is that of an active container whose children are visited or stand above it
  (`StackFits`).  So when an exit is popped, all children have been visited and
  the container itself has not, and one more such container closes no round
  (`NoNewRound`).  The loader's recursion is a path of visited containers, and a
  repetition would be a round (`NewOnPath`).  `AdmittedHasNoCycle`,
  `RecursionNeverRepeats`.  `RefusedOnlyForCause` goes the other way: `CauseInv`
  says that what waits on the stack is below the root, that the active
  containers are a chain of children (`ChainFits`), so meeting one of them again
  exhibits a round, and that the composer has counted distinct uses
  (`CountsFit`), so a limit it meets is exceeded by the document and not by the
  way it is walked.  "Below the root" is membership in every set that holds the
  root and is closed under children, which needs no induction.  Together:
  `GuardDecidesExactly`.
* `UploadChecks_proofs`, the archive.  `ExtractionInv`: every byte on disk has
  been counted (`BudgetInv`, by cardinalities of the set of places of bytes), the
  files are those of the last members with their names, as delivered
  (`OnDisk`), and the members that come have delivered nothing.  A member that
  overwrites an earlier one, or the uploaded archive itself, is why `Kept` asks
  for the last one.  `ExtractionStaysExact`.
* `UploadChecks_proofs`, the normaliser.  The references of a document may form
  any graph, so no measure of the document bounds the recursion: what does is the
  number of references not yet visited, and between two references the nesting
  of what is written in place (`Later`).  By it `Resolve` and `NormalizeSchema`
  are unfolded once (`ResolveUnfolds`, `NormalizeUnfolds`), and an induction over
  visits is replaced by the least visit where a statement fails
  (`VisitedInduction`, `VisitInduction`).  `Reached` is the least set closed under
  what leads on (`ReachedLeast`), so that a reference is shown to be reached by
  following one step, and not to be by exhibiting a closed set without it.  A
  schema is cut off as circular only on a branch whose visited references all
  reach what is used next (`Rooted`), hence at a reference that reaches itself;
  and one that goes round is cut off, since past a reference and inside the
  items it still goes round (`PastTheReference`, `CutOffWhenCircular`).  A status is
  that of the document whichever branch reports it (`ReportedIsReal`), a
  parameter that of the last declaration of its name and place
  (`OwnParameterWins`).  `NormalizerInv` says that what is out is what the
  operations so far come out as, and that what is recorded is real.
  `NormalizedStaysAsWritten`.
* `Analysis_proofs`, the source tree.  `SourceInv`: the files looked at so far are
  loaded or in a diagnostic and not both, the bytes of those loaded are counted
  in `total` (also those of files that were skipped, which is why the loader may
  stop early and never late), and each normalised file is the normalisation of
  its own file.  `EveryFileIsAccounted`.  `MappingStaysExact` is about what one
  file becomes: the mapped endpoints are those of the operations whose id names a
  function of it and which no decorator declares, each once, because a method and
  a path have one operation; what is enriched and appended later keeps method,
  path and handler.
* `Analysis_proofs`, the registration.  Both passes over a program are recursive
  functions.  They are unfolded once, by the size of what is left
  (`RecursionByMeasure` of `DataLemmas`); an induction over programs is replaced
  by the smallest program where a statement fails (`InductionByMeasure`).
  `RegistrationSound`: there is always an environment of the execution in which
  every name the pass takes for an App, the module or the class is one
  (`Real`), and every suite that is looked into is executed from it; a suite
  gives nothing back, because what it may bind is dropped.  It needs that a name
  stands for one kind of thing only.  `RegistrationComplete`: in every
  environment of the execution, also those an exception leaves behind, each App,
  module and class is among the names the pass has (`Found`); it needs that suites
  bind nothing, as the pass forgets what they bind.  Both conditions are those the
  docstring gives (`connexion.py:33`: aliases that depend on the control flow are not
  supported).  `RegistrationIsAlwaysExecuted` states both of the files of a source
  tree.
* `JobsAndHandlers_proofs`, the assistant.  `AssistantInv`: the permit is free and nobody is
  inside a call, or taken and exactly one question is (`PermitInv`); what each
  place of a question says about its sources, what was sent and its answer
  (`AnswerInv`).  `PermitNeverLost`, `AnswersAreGrounded`.
* `Evaluation_proofs`, the harness.  `HarnessInv` knows at every moment what has
  been judged: the classifications of a mode are the judgements of the
  propositions up to `Prefix(dataset, at, next)`, one by one (`Fits`), its
  categories hold each outcome as often as it does (`CategoriesFit`), and every
  result is that of the case's own files (`ResultInv`).  `Propositions` is a
  flattened list, so the lemmas first show that `FlattenSeq` goes on by one list
  at a time (`FlattenAppend`); a proof by induction is replaced by the least
  place where a statement fails (`LeastIndex`).  `PropositionsAreCounted` is
  `Fits` at the end of a mode.  `EvidenceStaysOwn` goes from a classification to
  the one case that declares its proposition (`OneDeclaration`, which needs that
  the loader refused repeated ids) and to that case's directory (`OwnFiles`).
  `ReportsAgree`: the outcomes split the list into four (`OutcomesPartition`),
  the two rubrics leave out the same fields (`RubricsAgree`), and an outcome
  tells what was expected (`OneExpectation`): as both maps by proposition id
  take the same last place in all modes, no proposition goes from TP to TN and
  the effect `TP_LOST`, which only the HTML report has, is never used.
* `Evaluation_proofs`, the protocol.  `ProtocolInv`: the counters are the sizes of
  the sets of registered fixtures and of expected and observed keys, which grow by
  one fixture at a time.  `ProtocolCounts`.

The type invariants of `UploadAdmission`, `ProcessJobRunner`, `ScanService` and
`EvidenceCorrelation` are parts or consequences of these invariants.

Left to TLC: the liveness properties and the fairness part of the two
refinements (liveness and `ENABLED` are out of the prover's reach), among them
the one property of `ScanClient`.  Every safety invariant and every action
property that a run checks is a theorem.  Several theorems are stated for properties that no run
repeats, because a stronger one does: type invariants, limits that follow from
exact counters, the safety of outcomes that is part of `ImplementsRunner`.

## 5. Observations without a run

* `max_active_scans` and `max_concurrent_scans_per_client` are soft: the rows
  are counted before they are inserted and without a lock.  What really bounds
  the concurrent scans is the upload admission (`ActiveWithinSlots`), and the
  excess is bounded (`BacklogBounded`).
* `THREAT_MODEL.md:80` speaks of `tempfile.TemporaryDirectory`; the code uses
  directories under `scratch/scans` that survive the process.
* `THREAT_MODEL.md:185` calls the rate limit a fixed window; the code keeps a log
  of times, which is stricter.
* A cancelled request whose thread then fails ends with the thread's exception
  and not with its cancellation (`api/v1/scans.py`); `RequestOrchestration`
  allows both ends.
* An endpoint that was one of several candidates of an ambiguous operation is
  not claimed and is reported and counted as a shadow endpoint although the
  specification documents it.
* `total_source_endpoints` of the metrics counts an endpoint once per operation
  that shares it; `CountsAddUp` states the exact excess.
* With an empty source every operation is counted as a zombie, but no zombie
  finding is made: the surface rule goes through the pairs, and there are none.
* Of two endpoints with the same method and path in different files, of which
  one was paired, the other gets no shadow finding although it is counted as
  one: the rule knows methods and paths, the metrics know indices.

* A COMPLETED row is overwritten with FAILED when only the `refresh` after the
  commit fails: the handler of `save_worker_output` cannot tell (`SaveOutput` and
  `SaveFailed` of `ScanService`).
* The lineage of a correlated finding is every finding whose message contains the
  operation's path (`rules/correlation/auth_correlation.py:87`): findings on longer
  paths and on other methods are in it, and those of a pair matched by template,
  whose source message has another path, are missing.
* The decorator's name is lower-cased before the router's variable is looked up
  (`analysis/source/fastapi.py:122`), the prefixes are kept under the name as
  written: a router whose name has a capital loses its prefix and its
  dependencies, which `docs/SOURCE_ANALYSIS.md:81` promises.  `SourceExtraction`
  models it (`Lower`).
* `AUTH` is a part of `AUTHZ`: rules about authorisation count for the category
  authentication (`evaluation/classifier.py:30`).
* A function name defined twice in a module gives the evidence of the last
  definition to all endpoints of that name (`analysis/source/__init__.py:73`).
* A member of an archive named `_source.zip` replaces the file that is being
  read and is removed at the end (`AcceptedIsOnDisk` leaves it out).
* A late answer about one scan is shown although another has been selected since:
  the component checks that it is mounted, not whose answer it is.
  `PollingReachesEnd` speaks of an end shown, not of whose.

## 6. Not modelled

* Reports (`services/report.py`) and the migrations: rendering and schema
  scripts, without state of their own.
* `HardcodedSecretRule` and `analysis/source/secrets.py`: patterns over text.
* The JSON Schema validation of a specification is a library and has any verdict.
* The read-only endpoints; the parsing of settings; the wording, redaction and
  ranking scores of the assistant (a ranking is any order).
* The retrieval benchmark, the command line, the HTML of the evaluation, and the
  numbers of its bootstrap; `scratch/`, which holds one-off scripts.
* An analysis process that survives a killed parent: it can only read a
  directory that is going to be removed, and fail to write its pipe.
