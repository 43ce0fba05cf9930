# Specifications of kaggle-harness

kaggle-harness runs machine-learning experiments for Kaggle competitions: a
gateway takes experiment bundles, queues them as jobs in Postgres, and worker
agents claim the jobs, run them in Docker and report back; the gateway then
submits the results to Kaggle and polls for their scores. This directory holds
TLA+ specifications of it, model-checked with TLC, and proofs checked with
TLAPS. `PROJECT.json` is the machine-readable index: runs, mutants, the source
lines behind every definition, findings, hazards, theorems.

Paths below are relative to the repository.

## The system

| Component | State | Operations | Talks to |
|---|---|---|---|
| Job queue (`jobs/`, `api/routes/workers.py`, `_requeue_stale_loop` in `api/app.py`) | table `jobs`: status, worker_id, heartbeat_at, ...; the handlers being served | enqueue, claim (long poll), heartbeat, complete, fail, requeue, cancel | agents over HTTP; Postgres |
| Worker agent (`kaggle_harness_worker/agent.py`, `client.py`) | its place in `Agent.run`, its assignment, its settings; a heartbeat task | register, claim, run, heartbeat, report | the gateway; the executor |
| Job execution (`executor.py`, `reporter.py`, `Agent._upload_artifacts`) | container, temporary directory, log queue, sequence number | fetch, run, push and drain log lines, collect and upload outputs | Docker, MinIO, the gateway |
| Submissions (`submissions/`, `_on_success`) | table `submissions`; the poll tasks in the gateway's memory | submit, insert, schedule, poll, tag | Kaggle, MLflow, MinIO |
| Experiment intake (`experiments/service.py`, `bundles/`) | table `experiments`, bundles in MinIO | parse, store, stage, create run, commit, enqueue | the stager, MLflow, the queue |
| Inputs staging (`inputs/staging.py`) | inputs in MinIO, under a key per slug | exists, download, put | Kaggle, MinIO |
| Tracking (`tracking/`) | none; MLflow holds the runs | create, tag, terminate, log | MLflow |
| Kaggle client and service (`kaggle/`) | none | lists, downloads, submit | Kaggle |
| Worker registry, read-only routes, migrations, configuration | table `workers`, never read back | | |

What makes it hard:

* **Concurrency.** Every request is an asyncio handler with its own
  transaction(s); claims lock rows with `FOR UPDATE SKIP LOCKED`, the requeue
  loop and the reports of several workers write to the same rows. Within a
  worker, the executor thread and the event loop share a queue that is made for
  one loop.
* **Failure.** Workers die with a job, the gateway stops with handlers and poll
  tasks in its memory, responses are lost after the commit they announce, the
  client gives up (35 s) on a claim that may go on (30 s of polling, then the
  database and MinIO).
* **Ordering.** A job that was requeued may be reported by its old worker after
  its new one; a submission is sent to Kaggle before its row exists and its row
  says *scored* before MLflow does; an experiment is committed before its job
  is built.
* **Time.** Heartbeats every 30 s (`worker_heartbeat_interval`), a timeout of
  120 s, a sweep every 30 s.

What makes each component correct: a running job belongs to one worker and
leaves it only by a report, a cancel or a sweep; an agent acts on no answer but
its own; only workers that were granted a job settle it; finished jobs are
never run again; abandoned jobs come back. A row of `submissions` tells what
Kaggle decided about the output of its own experiment, once, and is polled
until it does. A queued job has everything its worker will ask for, and its
client was told the truth. Every line of a log is taken before the report and
arrives once at most, in order unless the worker gave up on its chunk, and the
report lists what the script left in `/out`.
`PROJECT.json` lists the hazards line by line with the properties that cover
them, and those no property covers.

## Modules

| Module | Of | Notes |
|---|---|---|
| `JobQueue` | job queue and worker agents | one action per handler step, agent step and fault |
| `JobBoard` | what the queue promises | abstract: post, grant, revoke, settle, withdraw |
| `Lease` | the clock of the queue: claims, heartbeats, sweeps | one job, discrete time, agents that may share a `worker_id` |
| `Submissions` | report handling after the mark, submissions, poller | Kaggle and MLflow external |
| `SubmissionLedger` | what the submissions promise | abstract: send, grade, record, settle, show |
| `ExperimentIntake` | `POST /experiments` and inputs staging | Kaggle external |
| `JobExecution` | executor thread, log reporter, uploads | asyncio.Queue and a loop that sleeps, as CPython implements them |
| `LogStream` | what the log reporter promises | abstract: log, pass on, arrive, close |
| `JobQueueProofs`, `LeaseProofs`, `SubmissionsProofs`, `ExperimentIntakeProofs`, `JobExecutionProofs` | theorems about these | TLAPS |
| `MC...` | instances for TLC | |

### JobQueue

`status`, `worker_id`, `heartbeat_at` are the columns of `jobs`; `started_at` is
null exactly when `worker_id` is and is left out with the columns nothing
decides on. `heartbeat_at` is `null`, `fresh` or `stale` (older than the
timeout): time is the action `Age`. `req` holds the handlers the gateway is
serving: the step each is at, what the request said (`worker`, `caps`), the job
it works on, and whether its client still listens (`open`). `pc`, `task` and
`caps` are the agents. `granted` is history: the committed claims.

A claim is three steps: `ClaimUpdate` (the `SELECT ... FOR UPDATE SKIP LOCKED`
has found a row; it is locked, no other transaction sees it changed),
`ClaimCommit`, `ClaimReply` (experiment read, URLs signed, response received).
Between them anything may happen: the agent gives up (`GiveUp`), the machine
stops (`Die`), the handler raises or its response is lost (`RequestFails`, which
rolls an uncommitted claim back). `ClaimEmpty` is the end of the long poll.
Statements that address a row by id wait while it is locked; the sweep and the
claims are the ones that look at the status, and a queued row is never stale.
`Mark` is followed by `ReportReply`, with the tracker and the submission (in
`Submissions`) in between. A crash of the gateway is a sequence of
`RequestFails`, since nothing of a handler survives it and the table does.

`Feature` stands for what a manifest can require of a worker, `gpu` and the
labels; the claim compares `requires->'gpu'` and `requires->'labels'` only, so
cpu and memory are left out. Every worker process has an id of its own, as the
deployment intends; `Lease` has those that share one. The SQL is taken at what
it says; how SQLAlchemy passes `:worker_labels::text[]` is left to the library.
No code sets a priority, so `Oldest` orders by `created_at` alone.
`CancelRouted` says whether somebody calls `ExperimentService.cancel`, which no
route does today. Bounds: one heartbeat of a worker in flight at a time (the
client awaits each), and as many handlers at a time as `Request` has elements.

### JobBoard

The contract in six lines of state changes: a job is posted, granted to a
worker, taken back, settled by some worker it was granted to, or withdrawn. It
deliberately lets a settlement come late and replace another, because the code
does (see the findings); what it forbids is the rest: granting what is not
queued, settling without a grant, taking back what is not running.

### Lease

`JobQueue` lets a heartbeat get stale whenever it likes, so it cannot say when
two agents hold one job. `Lease` can: `age` is `now() - heartbeat_at`, `since`
the time since the last round of `_requeue_stale_loop`, `pc` and `timer` say
where an agent is and for how long. The steps of the program take no time; a
tick waits for the steps that are due (a heartbeat after `Interval`, an answer
within `RequestTime`, a sweep within `SweepPeriod`). A heartbeat may fail, and
one whose client gave up, or died, may still land at any later time (`late`) and
renews whatever its `worker_id` holds then. `id` is the `worker_id` setting,
which has a default: two agents may have the same.

`LeaseAssumption` is what the deployment's numbers must satisfy: the age when
the heartbeat task starts to sleep, and the heartbeats that may be missed with
the one that lands after them, fit into the timeout. Lease.cfg has a tick of
five seconds and the code's numbers (35 s for a claim, heartbeats and sweeps every
30 s, a timeout of 120 s), and lets one heartbeat in a row be missed. That the
URL takes 10 s at most and a heartbeat 5 s are assumptions about the network:
httpx limits each phase of a request to 35 s, not the whole. With a
`RequestTime` of 35 s the assumption holds for no missed
heartbeat only (110 s of 120). A sweep that raises is a longer `SweepPeriod`.
The phase `ending` (drain, uploads, report) has no heartbeats, because
`agent.py` cancels the task first: there the agent does not hold the lease, and
`OneHolder` does not speak of it. Nor does it of containers a dead agent left.
What is left of the lease there is `Grace`: the timeout without the age the
heartbeat may have when the execution ends. `EndingIsCovered` says that a job
is still its agent's for so long, and `timer` counts `ending` that far and no
further. With the numbers of Lease.cfg it is 40 s after a heartbeat that
landed, and 5 s after one that was lost; uploads that take longer may be
reported for a job that is somebody else's.

### Submissions

`job` is the status a report gave the job, `run` and `score` the MLflow run,
`entry` and `sent` Kaggle's leaderboard, the next three the columns of
`submissions`. A report handler goes `complete`, `finish_run`, `submit`,
`insert`, `schedule` (or `fail`, `fail_run`), each await a step, each of which
may raise; reports repeat and contradict each other without bound because
`JobQueue` allows it, which is how the two modules compose. A poll task is
`sleep`, `update`, `tag`; `match` is the local variable of `poll_once`. A row
that is read by `poll_once` and never deleted needs no step of its own. `lost`
is history: the entries, rows and open runs that a stopped handler or task left
behind, and the runs a report left open because the gateway had no tracker.
`services` is what of Kaggle and MLflow the gateway reached when it started, so
it changes in `Restart` only. Without a tracker `Terminate` closes no run
(`HasRun`) and `Tag` cannot happen: `tag_scores` raises, which is `PollFails`.
Without Kaggle `AfterFinish` submits nothing; a poll task exists only where the
handler could submit. `ClientReturnsRef` selects the client: TRUE is the interface
`KaggleClient` that `SubmissionService` is written against, whose
`SubmissionRef` names the entry; FALSE is `KaggleApiClient`, which returns an
empty reference. Kaggle's list is taken to hold every entry (its pages are left
out). Entries and rows are as many as the constants name; when they are
used up no handler submits or inserts any more.

`SubmissionLedger` has neither handlers nor tasks: a line is for one entry, is
settled once with the verdict on that entry, and only then shown on the run. A
row is a line (`Ledger`, at the end of `Submissions`); repeated rounds and
everything that gets lost are stutters.

### ExperimentIntake

`pc`, `left`, `slug`, `got` are the locals of a request, `staged` the version
under each slug's key, `latest` the one Kaggle serves, `services` what the
gateway could reach when it started: without Kaggle it has no stager and queues
jobs without inputs, without MLflow no tracker. `Exists` takes any exception for
*absent*, as `_exists` does. Slugs are staged in any order, the code takes
competitions first. A request ends with 201, 400 or 500: `ParseFails` is a bundle
or manifest that cannot be parsed, `Reject` is `memory_mb()` raising where the job
is built, and `RequestFails` everything else, before or after the commits.

### JobExecution

`thread` is `_run_sync`, `drain` the log task, `agent` the rest of `Agent.run`
for this job. `put_nowait` is two steps in the thread (append, wake the first
getter) and `get` two in the loop (find empty, register the getter), because
the thread may run between bytecodes of the loop; `StopReporter` runs in the
loop and is one step. Lines are numbered; `tried` is history. What the thread
makes ready does not wake the loop: `set_result` calls `call_soon`, which does
not interrupt a selector. So the loop has a state, `asleep`, which it enters when
the drain task waits (`LoopSleeps`) and leaves when a timer or a request of the
heartbeat task is due (`LoopWakes`), or when the thread ends, whose result does
come through `call_soon_threadsafe`. A getter that was woken in between waits
until then. The other awaits, of a chunk, an upload or the report, are for events
of the selector and wake it themselves.

A chunk is sent on a connection of its own. `SendLog` is the one that is answered.
After `GiveUp`, 35 seconds or an error later, the drain task drops the exception and
goes on with the next line under the same number; the chunk in `gaveUp` may have
been handled, or be handled behind any later one, or never (`LateChunk`), as late
heartbeats are in `Lease` and abandoned handlers in `JobQueue`.

Inputs are paths as sequences of names: `Relative`, `WithoutData` and
`Destination` are the `lstrip` and `replace` of executor.py, `InContainer` the
mount. Files in `/out` are members of `File`, those in subdirectories of
`Nested`: the upload route takes one path segment. Each file is read, gets its
URL (`UploadUrl`) and is put (`Put`, which MinIO may take while its answer is
lost). What `_collect_outputs` returns is `files`, paths whose target is gone
once `tmpdir` is FALSE; `Agent` is written for any `Executor`, so
`OutputsOutlive` says whether the one at hand leaves its files readable:
`DockerExecutor` does not. The passing run sets it to TRUE, since otherwise no
upload ever happens and nothing about uploads would be checked.

`LogStream` is the log as the gateway sees it: `Pass` takes the next line, which
arrives or is adrift, `Arrive` is the arrival of one that was adrift, which may
be late or never come, and `Close` needs that none is left to pass. It knows no
thread, no queue and no task; `Stream`, at the end of `JobExecution`, maps a line
to passed when the answer to its chunk has come or the client gave up, to adrift
while a chunk that was given up has not arrived, and the stream to closed when
`stop()` returns. What order is left is in two invariants: `LogIsInOrder` says
that a line comes once, and behind a later one only if it was given up, and
`NumbersTellTheOrder` that the numbers of the chunks restore the order, but for a
line whose number was used again.

`JobIsReported` is liveness. Two safety properties say what it rests on.
`NoWakeupIsLost`: the agent is never in `stop()` while the drain task sleeps or
is about to. `ReportGetsNearer`: once the executor is over, every step of the
worker makes `StepsLeft`, a natural number, smaller, since nothing is tried again;
the steps of the network and of the selector leave it alone.

## Runs

Run with `tlc -config <cfg> <module>`; sizes are distinct states.

| Run | Checks | Instance | Size |
|---|---|---|---|
| `job_queue` | `TypeOK`, the safety properties of the queue, `ImplementsBoard` | 2 jobs, 2 workers, 2 handlers, cancels | 2,239,944 |
| `job_queue_sweep` | `HoldsOnlyWhatItCanRun`, `LeftBehindIsRequeued`, `EveryJobSettles` | 1 gpu job, 2 workers (with or without gpu, and restarting with the other), 2 handlers, no symmetry | 270,968 |
| `lease` | `OneHolder`, `RecoveredInTime`, `HoldersHaveTheLease`, `EndingIsCovered` | 3 agents, 2 ids, the code's times | 2,401,560 |
| `submissions` | the safety properties of submissions, `ImplementsLedger` | 2 experiments, one tracked, 2 entries, 2 rows, 2 handlers, any services, restarts | 2,674,148 |
| `submissions_poll` | `PolledUntilScored`, `ScoreReachesTheRun` | 1 experiment, 2 entries, 2 rows, any services, no restart | 259,418 |
| `intake` | `QueuedJobIsComplete`, `AnswersAreTrue` | 2 uploads of the same 2 inputs, 2 versions, any services, failures | 146,216 |
| `job_execution` | `NoLineIsLost`, `LogIsInOrder`, `NumbersTellTheOrder`, `ReportedArtifactsExist`, `NoWakeupIsLost`, `ReportGetsNearer`, `ImplementsStream`, `JobIsReported`, `PushedLineIsTaken` | 3 lines, 3 files (one nested), 2 inputs, failures | 46,562 |

Why the bounds are enough to mean something. Two workers and one job give every
race between an old and a new owner; a second job lets a sweep take several rows
at once and two claims choose between rows; two handlers are a lost claim beside
its retry or the other worker's claim, heartbeat or report (the run
`job_queue_report` has three). Three agents with two ids are two that share one
and a third that does not. Two entries and two rows are a job reported twice,
the first source of confusion between submissions. Two uploads with two slugs
stage the same input at the same time and interleave over another. Three lines
reach every state of the queue and its getter with a line before and behind.
Symmetry is used in safety runs only, over sets the specification treats alike.
The deadlock check is off where a model ends: all uploads answered, the job
reported. Safety is proved for every size besides (below).

Five runs check what a document says of the program and find it untrue of the
code:

| Run | Property | What happens |
|---|---|---|
| `job_queue_report` | `ReportIsTerminal` | the late report of a worker that lost the job overwrites the outcome its successor reported |
| `submissions_ref` | `PolledUntilScored` | `KaggleApiClient.submit` returns an empty reference, which no entry has |
| `intake_version` | `InputsAreOfTheVersion` | the cache key has no version |
| `execution_inputs` | `InputsAreMounted` | `lstrip` takes the slash that `replace` looks for, so inputs are at `/data/data/...` |
| `execution_outputs` | `OutputsAreReported` | the output paths point into a directory that is already removed |

Each is described with its lines under `findings` in `PROJECT.json`. More is in
the models and hazards without a run of its own: with `Restarts = TRUE`
`PolledUntilScored` fails too, because the poll tasks do not survive a restart
of the gateway; `Reject` leaves a committed experiment without a job when
`memory_mb()` raises; and a line that is pushed from the thread between the
getter's look at the queue and its registration wakes nobody and waits for the
next line or the end. `PushedLineIsTaken` says that no line pushed at another
time does. The runs switch off what they do not need (`Failures = FALSE`,
`CancelRouted = FALSE`) so that no fault can be blamed for the counterexample.
`RequestFails` of `Submissions` cannot be switched off and may occur in the trace
of `submissions_ref`; it has no part in it, since the row that is polled without
end is one whose handler went all the way.

Every property of a passing run has a mutant, an operator whose comment begins
with *Defective* next to the definition it replaces: a plausible bug under which
TLC finds the property violated.

## Fairness

* `SweepFairness`: the requeue loop runs every 30 s whatever it raises
  (`_requeue_stale_loop` catches everything), and a heartbeat nobody renews gets
  stale. Nothing is assumed of the agents: `LeftBehindIsRequeued` holds though
  they may do nothing, or crash for ever.
* `ServiceFairness` and `FaultsEnd` are hypotheses of `EveryJobSettles`, not part
  of a specification: agents loop (`Agent.run` is a `while True`) and scripts end,
  handlers get on, and from some time on no agent dies, no request fails and no
  client gives up. Strong fairness is where there is contention: for a slot,
  which only the model runs out of, and for a row lock, which Postgres hands to
  the statement that waits. Without an end of the faults the code promises
  nothing: a job that kills its worker is requeued without a limit.
* `PollFairness`: `_poll_loop` runs every 30 s and catches everything, hence weak
  fairness of `Poll`; strong fairness of `Update` and `Tag` says that the
  database and MLflow do not fail every single time; Kaggle grades what it
  accepted. Without the strong fairness no program could promise a score. `Tag`
  needs a tracker to happen at all, which `ScoreReachesTheRun` asks for; without
  one every round raises and nothing is promised.
* `LoopFairness`: the event loop, when it is awake, runs what is ready; the
  heartbeat task's timer (`worker_heartbeat_interval`, 30 s) or request wakes it
  if it sleeps, which is weak fairness of `LoopWakes`; and the executor thread
  gets on once the container has exited. Nothing is assumed of `put_nowait` from
  the thread but that it makes the getter ready. The script need neither log nor
  end, and a chunk that was given up need never arrive.

## Proofs

Every invariant and every safety action property of the passing runs, and all
three refinements, are proved for all values of the constants that satisfy the
module's assumption. Beside each of the five findings stands a theorem that says
how far it reaches, or what alone it takes.

| Module | Theorem | States |
|---|---|---|
| `JobQueueProofs` | `TypeCorrect` | `Spec => []TypeOK` |
| | `TableIsSound` | `Spec => []RowShape` |
| | `LocksAreExclusive` | `Spec => []LockedRowIsQueued` |
| | `AgentsAreNotConfused` | `Spec => []OneConversation` |
| | `GrantsAreHonoured` | `Spec => []OnlyGranteesReport` |
| | `CapabilitiesSuffice` | `Spec => []HoldsOnlyWhatItCanRun` |
| | `OwnershipIsExclusive` | `Spec => OwnerChangesThroughQueue` |
| | `FinishedIsFinal` | `Spec => FinishedStaysFinished` |
| | `QueueImplementsBoard` | `Spec => ImplementsBoard` |
| | `RunsOnceUntilRequeued` | `Spec /\ [][~Requeues]_vars => []OneRun` |
| | `ReportsAreFinalUntilRequeued` | `Spec /\ [][~Requeues]_vars => ReportIsTerminal` |
| `LeaseProofs` | `LeaseTypeCorrect` | `Spec => []TypeOK` |
| | `LeaseIsExclusive` | `Spec => []OneHolder` |
| | `RecoveryIsPrompt` | `Spec => []RecoveredInTime` |
| | `LeaseIsHeld` | `Spec => []HoldersHaveTheLease` |
| | `EndIsCovered` | `Spec => []EndingIsCovered` |
| `SubmissionsProofs` | `SubmissionsTypeCorrect` | `Spec => []TypeOK` |
| | `RowsTell` | `Spec => []RowsTellKagglesVerdict` |
| | `ScoresBelong` | `Spec => []ScoresBelongToTheRun` |
| | `VerdictComesFirst` | `Spec => []NothingBeforeTheVerdict` |
| | `RunsGetClosed` | `Spec => []RunsAreClosed` |
| | `EntriesHaveRows` | `ClientReturnsRef => (Spec => []EntriesAreRecorded)` |
| | `RowsArePolled` | `Spec => []RunningRowsArePolled` |
| | `VerdictsAreFinal` | `Spec => VerdictIsFinal` |
| | `LedgerIsImplemented` | `ClientReturnsRef => (Spec => ImplementsLedger)` |
| | `RoundsFindTheEntry` | `ClientReturnsRef => (Spec => []` the round of a polled row lists its entry alone `)` |
| | `NothingIsSettled` | `~ClientReturnsRef => (Spec => []` no row settled, no score `)` |
| `ExperimentIntakeProofs` | `IntakeTypeCorrect` | `Spec => []TypeOK` |
| | `QueuedIsComplete` | `Spec => []QueuedJobIsComplete` |
| | `AnswersAreHonest` | `Spec => []AnswersAreTrue` |
| | `InputsAreCurrent` | `Spec /\ [][\A s \in Slug : Publish(s) => ~Cached(s)]_vars => []InputsAreOfTheVersion` |
| `JobExecutionProofs` | `ExecutionTypeCorrect` | `Spec => []TypeOK` |
| | `NoLineGetsLost` | `Spec => []NoLineIsLost` |
| | `LogArrivesInOrder` | `Spec => []LogIsInOrder` |
| | `NumbersAreInOrder` | `Spec => []NumbersTellTheOrder` |
| | `ArtifactsExist` | `Spec => []ReportedArtifactsExist` |
| | `LogIsAStream` | `Spec => ImplementsStream` |
| | `WakeupsAreKept` | `Spec => []NoWakeupIsLost` |
| | `ReportIsNeared` | `Spec => ReportGetsNearer` |
| | `InputsAreMisplaced` | `Spec => []` no unpacked directory is any input's `LocalPath` |
| | `OutputsGetLost` | `~OutputsOutlive` implies `Spec => [](artifacts = {})` |
| | `OutputsWouldBeReported` | `OutputsOutlive`, `~Failures` imply `Spec => [](verdict = "succeeded" => artifacts = files \ Nested)` |

Each proof is by one inductive invariant, `IInv`.

* **JobQueue.** The conjunction of the properties the runs check; together they
  are inductive, none of the interesting ones is alone. That an agent holds only
  what it was granted needs that the answer it takes is its own
  (`OneConversation`), that the capabilities suffice needs that an open request
  carries the capabilities the agent has now, and that a claim can commit needs
  that its row is still queued (`LockedRowIsQueued`), which in turn needs that
  every other writer either looks at the status or waits for the lock. There is
  one lemma per group of actions, one step per action, one step under it per
  conjunct the action can disturb. The step theorems rest on `QuietStep`, which
  lists the few actions that touch the columns the board sees. Of the constants
  the proofs use only that `Null` is neither a job nor a worker and that
  `Requires` and `CreatedAt` have their types. For the two theorems about
  requeues `IInv` is joined by `OneRun`: a running job is in the hands of one
  agent or of one handler, and a job that is reported is in nobody's. The steps
  that hand a job on (commit, assignment, report, mark) are treated one by one;
  `NobodyIsHandedAJob` is about all others. So `ReportIsTerminal` fails by way of
  a requeue only, and `Lease` says when that cannot happen.
* **Lease.** An agent keeps the lease because its row is running since its claim
  and is not yet stale, and is not stale because the age is at most what its place
  and the heartbeats it missed allow (`HoldersHaveTheLease`); nobody else can
  claim the job meanwhile. Only the products of the constants need an argument
  (`RoomToMiss`); the assumption on the times is used for nothing else.
  `EndingIsCovered` carries the age of the row past the end of the execution,
  which is what makes it inductive: a sweep within the grace finds the row fresh.
* **Submissions.** `VerdictsFirst`, `HandlerKnows` and `RowKnows` say what holds
  of an experiment, of a handler at each of its steps and of a row with its
  task. The point is uniqueness: between `submit` and `insert` no row and no
  other handler has the entry, so two rows never have the same, and a task that
  found its entry settled finds the same verdict in every repeated round. All
  but the four theorems that name a client hold for both: a row without a
  reference is never settled. In the refinement an update of a row that is
  settled already is a stutter. `RoundsFindTheEntry` follows from `RowKnows`:
  the row has its reference and the entry is there. `NothingIsSettled` adds that
  without references every row has the empty one. `ClosedOrLost` is what a
  report does to a run: it is closed, or known to be left open.
* **ExperimentIntake.** What a request is past, it has done: `Ahead` and `Complete`
  tie its place to what is in MinIO, MLflow and the table. Nothing that was stored
  is removed by another request, whichever version it stores over it.
  `InputsAreCurrent` says how far the finding reaches: Kaggle may publish any
  number of versions, but none of a slug while a copy of it is in the store or
  about to be put there (`Cached`). Then what is stored and in hand is the latest
  (`UpToDate`), and requests do not arrive later than now.
* **JobExecution.** `Pipe` describes the queue item by item: item *i* is the
  line *i* after those taken, and after the last one comes the end, from the
  time it is put to the time it is taken. It needs that the end is put only when
  the thread is over (`Phases`). `Sent` is about the chunks the gateway has and
  those that were given up, as one set: each is of another line that was taken
  before the one in hand, and the numbers rise with the lines except behind one
  that was given up (`Numbered`); so a late one can only be given up, and comes
  once (`Ordered`). `NoWakeupIsLost` is one of the conjuncts. The refinement
  takes the steps that change the queue one by one; all others are stutters
  (`StreamStep`). That the measure falls needs the cardinalities of the finite
  sets of files only (`StepsCountDown`).

Model-checked only: liveness (`LeftBehindIsRequeued`, `EveryJobSettles`,
`PolledUntilScored`, `ScoreReachesTheRun`, `JobIsReported`,
`PushedLineIsTaken`), which TLAPS cannot do with fairness, and the five
counterexamples, as a theorem cannot say that a behaviour exists. Of
`JobIsReported` all but the fairness is proved: no wakeup is lost, and every step
brings the report nearer. Of `PolledUntilScored` it is proved that a round sees what
it waits for, not that the round comes.

## Not modelled

The worker registry (written, never read), the token check, the read-only and
proxy routes, migrations, configuration and logging; the list calls and
converters of the Kaggle client; the content of bundles, logs and outputs; the
expiry of presigned URLs, which is a failed request like any other; the
environment, image and command of a container; MLflow parameters, tags and
artifacts. These keep no state that another part decides on, or hand data
through.

Hazards without a property. Of most of these the models have the behaviour, and
the property one would like does not hold and is promised nowhere:

* after `mark_succeeded` has committed, whatever fails leaves an open run or an
  entry without a row (`workers.py:182`, `submissions/service.py:48`); a restart
  loses poll tasks (`submissions/poller.py:13`), and a gateway without a tracker
  leaves runs open (`workers.py:189`). The properties except these, as `lost`,
  and say that nothing is left behind in another way;
* the rejection of a memory limit leaves a committed experiment without a job
  (`experiments/service.py:91`), an answer that fails after the job was queued
  makes a client submit twice (`api/routes/experiments.py:35`), and a gateway
  without Kaggle queues jobs without their inputs (`api/app.py:90`);
* an agent with the same `worker_id` may keep a foreign job fresh
  (`kaggle_harness_worker/config.py:9`), and a job that kills its worker is
  requeued without a limit (`jobs/repository.py:111`);
* an output in a subdirectory is never uploaded (`client.py:106`; the theorem
  `OutputsWouldBeReported` says that no other one is missing), and a directory that
  cannot be removed turns a success into a failure (`executor.py:55`).

Of the others there is no state to speak about:

* Jobs are not served strictly in the order they were submitted
  (`jobs/repository.py:61`): `created_at` is set before the insert commits,
  locked rows are skipped, and a requeued job keeps its place.
  `docs/adr/0001-system-architecture.md` (line 37) does say "a FIFO queue with
  labels", of the need rather than of the code, and chooses `SKIP LOCKED`, which
  makes it an approximate one; `Oldest` models the `ORDER BY`.
* A container whose log stream breaks runs on (`executor.py:113`), and so do those
  of agents that died; nothing in the harness looks at containers again.
* Two executions of one job put their outputs under the same keys
  (`workers.py:294`); the models identify an artifact with its name within one
  execution.

## What could come next

1. The outputs of a job's executions by owner, in a composition of `JobQueue` and
   `JobExecution`, to say which output is submitted when a late report wins.
2. The safety cores of the other liveness properties, as `NoWakeupIsLost` and
   `ReportGetsNearer` are of `JobIsReported`: a measure for `PolledUntilScored`,
   and for `EveryJobSettles` once the faults have ended.
