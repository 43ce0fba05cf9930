---------------------------- MODULE Submissions ----------------------------
(***************************************************************************)
(* What follows a worker's report: the gateway marks the job, closes the   *)
(* MLflow run of its experiment and, after a success, submits the output   *)
(* to Kaggle, inserts a row in `submissions` and schedules an asyncio task *)
(* that polls Kaggle until the submission is settled, then writes the      *)
(* scores to the row and to the MLflow run.                                *)
(*                                                                         *)
(* The same job may be reported more than once (see JobQueue), so several  *)
(* handlers may work for one experiment.  Every await is a step of its     *)
(* own.  Kaggle and MLflow are external: the first accepts and grades      *)
(* entries, the second keeps what it is told; the gateway does without     *)
(* what it could not reach when it started.                                *)
(***************************************************************************)
CONSTANTS
  Experiment,       \* each has one job and a `submit:` section
  Tracked,          \* the experiments that have an MLflow run
  Entry,            \* Kaggle's ids of the entries in its leaderboard
  Submission,       \* ids of rows of the table `submissions`
  Request,          \* slots for report requests handled at a time
  ClientReturnsRef, \* whether KaggleClient.submit returns the entry's id
  Restarts,         \* whether the gateway may stop and start again
  EmptyRef, Null

ASSUME SubmissionsAssumption ==
  /\ Tracked \subseteq Experiment
  /\ ClientReturnsRef \in BOOLEAN /\ Restarts \in BOOLEAN
  /\ EmptyRef \notin Entry
  /\ Null \notin Experiment \cup Entry \cup Submission

VARIABLES
  job,           \* job[e]: status of the job, as far as reports decide it
  run, score,    \* the MLflow run: its status, the entry its metrics are of
  entry, sent,   \* Kaggle: the state of an entry, the experiment it is of
  status, experiment_id, kaggle_ref,  \* the table `submissions`
  req,           \* the report handlers
  poller, match, \* the poll tasks: where they are, the entry they found
  lost,          \* history: entries, rows and open runs whose handler or
                 \* task was lost, or whose gateway had no tracker
  services       \* app.state: what of kaggle_client, tracker is there

kaggle == <<entry, sent>>
tracker == <<run, score>>
table == <<status, experiment_id, kaggle_ref>>
tasks == <<poller, match>>
vars == <<job, tracker, kaggle, table, req, tasks, lost, services>>

Settled == {"complete", "error"}

\* mark_succeeded, log to MLflow, submit, insert the row, schedule the poll;
\* or mark_failed, then set_terminated FAILED.
Step == {"free", "complete", "finish_run", "submit", "insert", "schedule",
         "fail", "fail_run"}

Handler == [at: Step, experiment: Experiment \cup {Null},
            entry: Entry \cup {Null}, row: Submission \cup {Null}]

NoRequest == [at |-> "free", experiment |-> Null, entry |-> Null, row |-> Null]

TypeOK ==
  /\ job \in [Experiment -> {"running", "succeeded", "failed"}]
  /\ run \in [Experiment -> {"none", "RUNNING", "FINISHED", "FAILED"}]
  /\ score \in [Experiment -> Entry \cup {Null}]
  /\ entry \in [Entry -> {"absent", "pending"} \cup Settled]
  /\ sent \in [Entry -> Experiment \cup {Null}]
  /\ status \in [Submission -> {"absent", "running", "scored", "failed"}]
  /\ experiment_id \in [Submission -> Experiment \cup {Null}]
  /\ kaggle_ref \in [Submission -> Entry \cup {EmptyRef, Null}]
  /\ req \in [Request -> Handler]
  /\ poller \in [Submission -> {"none", "sleep", "update", "tag"}]
  /\ match \in [Submission -> Entry \cup {Null}]
  /\ lost \subseteq Entry \cup Submission \cup Tracked
  /\ services \subseteq {"kaggle", "tracker"}

Init ==
  /\ job = [e \in Experiment |-> "running"]
  /\ run = [e \in Experiment |-> IF e \in Tracked THEN "RUNNING" ELSE "none"]
  /\ score = [e \in Experiment |-> Null]
  /\ entry = [k \in Entry |-> "absent"]
  /\ sent = [k \in Entry |-> Null]
  /\ status = [s \in Submission |-> "absent"]
  /\ experiment_id = [s \in Submission |-> Null]
  /\ kaggle_ref = [s \in Submission |-> Null]
  /\ req = [r \in Request |-> NoRequest]
  /\ poller = [s \in Submission |-> "none"]
  /\ match = [s \in Submission |-> Null]
  /\ lost = {}
  /\ services \in SUBSET {"kaggle", "tracker"}

-----------------------------------------------------------------------------
(* The report handler.                                                     *)

\* A report of e's job arrives, a first one or another.
Report(r, e) ==
  /\ req[r].at = "free"
  /\ \E at \in {"complete", "fail"} :
       req' = [req EXCEPT ![r] = [NoRequest EXCEPT !.at = at, !.experiment = e]]
  /\ UNCHANGED <<job, tracker, kaggle, table, tasks, lost, services>>

\* Defective: the status is not committed.
MarkUncommitted(r, from, s, to) ==
  /\ req[r].at = from
  /\ req' = [req EXCEPT ![r].at = to]
  /\ UNCHANGED <<job, tracker, kaggle, table, tasks, lost, services>>

Mark(r, from, s, to) ==
  /\ req[r].at = from
  /\ job' = [job EXCEPT ![req[r].experiment] = s]
  /\ req' = [req EXCEPT ![r].at = to]
  /\ UNCHANGED <<tracker, kaggle, table, tasks, lost, services>>

Complete(r) == Mark(r, "complete", "succeeded", "finish_run")
Fail(r) == Mark(r, "fail", "failed", "fail_run")

\* Whether the gateway can write to the run of e, if it has one.
HasRun(e) == e \in Tracked /\ "tracker" \in services

\* set_terminated, when there is a tracker and the experiment has a run.
Terminate(e, s) ==
  /\ run' = IF HasRun(e) THEN [run EXCEPT ![e] = s] ELSE run
  /\ lost' = IF "tracker" \in services THEN lost ELSE lost \cup ({e} \cap Tracked)

\* What a handler may do when the run is closed: submit, if the gateway reached
\* Kaggle, or stop, as when the file to submit is not among the artifacts.
AfterFinish(r) ==
  {NoRequest} \cup {h \in {[req[r] EXCEPT !.at = "submit"]} : "kaggle" \in services}

\* Defective: the run of a job that submits nothing is left open.
FinishRunToSubmit(r) ==
  /\ req[r].at = "finish_run"
  /\ \E h \in AfterFinish(r) :
       /\ req' = [req EXCEPT ![r] = h]
       /\ IF h = NoRequest
          THEN UNCHANGED <<run, lost>>
          ELSE Terminate(req[r].experiment, "FINISHED")
  /\ UNCHANGED <<job, score, kaggle, table, tasks, services>>

\* The artifacts are logged, errors and all, and the run is finished.
FinishRun(r) ==
  /\ req[r].at = "finish_run"
  /\ Terminate(req[r].experiment, "FINISHED")
  /\ \E h \in AfterFinish(r) : req' = [req EXCEPT ![r] = h]
  /\ UNCHANGED <<job, score, kaggle, table, tasks, services>>

FailRun(r) ==
  /\ req[r].at = "fail_run"
  /\ Terminate(req[r].experiment, "FAILED")
  /\ req' = [req EXCEPT ![r] = NoRequest]
  /\ UNCHANGED <<job, score, kaggle, table, tasks, services>>

\* Kaggle accepts the file as a new entry.
Submit(r) ==
  /\ req[r].at = "submit"
  /\ \E k \in Entry :
       /\ entry[k] = "absent"
       /\ entry' = [entry EXCEPT ![k] = "pending"]
       /\ sent' = [sent EXCEPT ![k] = req[r].experiment]
       /\ req' = [req EXCEPT ![r].at = "insert", ![r].entry = k]
  /\ UNCHANGED <<job, tracker, table, tasks, lost, services>>

\* Defective: an experiment that has a row already gets no other one.
InsertOnce(r) ==
  /\ req[r].at = "insert"
  /\ \E s \in Submission :
       IF \E t \in Submission : experiment_id[t] = req[r].experiment
       THEN /\ req' = [req EXCEPT ![r] = NoRequest]
            /\ UNCHANGED table
       ELSE /\ status' = [status EXCEPT ![s] = "running"]
            /\ experiment_id' = [experiment_id EXCEPT ![s] = req[r].experiment]
            /\ kaggle_ref' = [kaggle_ref EXCEPT ![s] = req[r].entry]
            /\ req' = [req EXCEPT ![r].at = "schedule", ![r].row = s]
  /\ UNCHANGED <<job, tracker, kaggle, tasks, lost, services>>

\* What the client returns of the entry made: KaggleApiClient nothing.
ReturnedRef(k) == IF ClientReturnsRef THEN k ELSE EmptyRef

\* The row is committed, with the reference the client returned.
Insert(r) ==
  /\ req[r].at = "insert"
  /\ \E s \in Submission :
       /\ status[s] = "absent"
       /\ status' = [status EXCEPT ![s] = "running"]
       /\ experiment_id' = [experiment_id EXCEPT ![s] = req[r].experiment]
       /\ kaggle_ref' = [kaggle_ref EXCEPT ![s] = ReturnedRef(req[r].entry)]
       /\ req' = [req EXCEPT ![r].at = "schedule", ![r].row = s]
  /\ UNCHANGED <<job, tracker, kaggle, tasks, lost, services>>

\* The row is refreshed and poller.schedule creates its task.
Schedule(r) ==
  /\ req[r].at = "schedule"
  /\ poller' = [poller EXCEPT ![req[r].row] = "sleep"]
  /\ req' = [req EXCEPT ![r] = NoRequest]
  /\ UNCHANGED <<job, tracker, kaggle, table, match, lost, services>>

\* What a handler leaves behind when it stops here.
Orphans(r) ==
  {k \in Entry : req[r].at = "insert" /\ req[r].entry = k} \cup
  {s \in Submission : req[r].at = "schedule" /\ req[r].row = s} \cup
  {e \in Tracked :
     req[r].at \in {"finish_run", "fail_run"} /\ req[r].experiment = e}

\* The handler raises: the database, MLflow, the artifact store or Kaggle
\* fails it.
RequestFails(r) ==
  /\ req[r].at # "free"
  /\ lost' = lost \cup Orphans(r)
  /\ req' = [req EXCEPT ![r] = NoRequest]
  /\ UNCHANGED <<job, tracker, kaggle, table, tasks, services>>

-----------------------------------------------------------------------------
(* The poll task of a row.                                                 *)

\* The entries the client lists.
Listed == {k \in Entry : entry[k] # "absent"}

\* Defective: the reference is not compared.
MatchesAny(s) == Listed

\* Those of them that poll_once takes for the row's.
Matches(s) == {k \in Listed : kaggle_ref[s] = k}

\* A round of the loop up to Kaggle's answer.  A round that finds no entry,
\* or one still pending, changes nothing.
Poll(s) ==
  /\ poller[s] = "sleep"
  /\ \E k \in Matches(s) :
       /\ entry[k] \in Settled
       /\ match' = [match EXCEPT ![s] = k]
  /\ poller' = [poller EXCEPT ![s] = "update"]
  /\ UNCHANGED <<job, tracker, kaggle, table, req, lost, services>>

\* Defective: Kaggle's word for the status is stored as it is.
UpdateVerbatim(s) ==
  /\ poller[s] = "update"
  /\ status' = [status EXCEPT ![s] = entry[match[s]]]
  /\ poller' = [poller EXCEPT ![s] =
       IF entry[match[s]] = "complete" THEN "tag" ELSE "none"]
  /\ UNCHANGED <<job, tracker, kaggle, experiment_id, kaggle_ref, req, match, lost,
                 services>>

\* The scores are committed; the task of a failed entry ends.
Update(s) ==
  /\ poller[s] = "update"
  /\ \/ /\ entry[match[s]] = "complete"
        /\ status' = [status EXCEPT ![s] = "scored"]
        /\ poller' = [poller EXCEPT ![s] = "tag"]
     \/ /\ entry[match[s]] = "error"
        /\ status' = [status EXCEPT ![s] = "failed"]
        /\ poller' = [poller EXCEPT ![s] = "none"]
  /\ UNCHANGED <<job, tracker, kaggle, experiment_id, kaggle_ref, req, match, lost,
                 services>>

\* tag_scores, when the experiment has a run; without a tracker it raises.
Tag(s) ==
  /\ poller[s] = "tag"
  /\ experiment_id[s] \in Tracked => "tracker" \in services
  /\ score' = IF experiment_id[s] \in Tracked
              THEN [score EXCEPT ![experiment_id[s]] = match[s]]
              ELSE score
  /\ poller' = [poller EXCEPT ![s] = "none"]
  /\ UNCHANGED <<job, run, kaggle, table, req, match, lost, services>>

\* Defective: the first exception ends the task.
PollFailsForGood(s) ==
  /\ poller[s] \in {"update", "tag"}
  /\ poller' = [poller EXCEPT ![s] = "none"]
  /\ UNCHANGED <<job, tracker, kaggle, table, req, match, lost, services>>

\* Defective: a round that raises resets the row for the next one.
PollFailsWithReset(s) ==
  /\ poller[s] \in {"update", "tag"}
  /\ poller' = [poller EXCEPT ![s] = "sleep"]
  /\ status' = [status EXCEPT ![s] = "running"]
  /\ UNCHANGED <<job, tracker, kaggle, experiment_id, kaggle_ref, req, match, lost,
                 services>>

\* A round raises and the loop goes on to the next one.
PollFails(s) ==
  /\ poller[s] \in {"update", "tag"}
  /\ poller' = [poller EXCEPT ![s] = "sleep"]
  /\ UNCHANGED <<job, tracker, kaggle, table, req, match, lost, services>>

\* The gateway stops and starts: its handlers and tasks were in its memory, and
\* it may reach other services than before.
Restart ==
  /\ Restarts
  /\ lost' = lost \cup {x \in Entry \cup Submission \cup Tracked :
                         \/ \E r \in Request : x \in Orphans(r)
                         \/ x \in Submission /\ poller[x] # "none"}
  /\ req' = [r \in Request |-> NoRequest]
  /\ poller' = [s \in Submission |-> "none"]
  /\ services' \in SUBSET {"kaggle", "tracker"}
  /\ UNCHANGED <<job, tracker, kaggle, table, match>>

\* Kaggle settles an entry.
Grade(k) ==
  /\ entry[k] = "pending"
  /\ \E v \in Settled : entry' = [entry EXCEPT ![k] = v]
  /\ UNCHANGED <<job, tracker, sent, table, req, tasks, lost, services>>

-----------------------------------------------------------------------------
HandlerStep(r) ==
  \/ Complete(r) \/ FinishRun(r) \/ Submit(r) \/ Insert(r) \/ Schedule(r)
  \/ Fail(r) \/ FailRun(r)

Next ==
  \/ \E r \in Request :
       (\E e \in Experiment : Report(r, e)) \/ HandlerStep(r) \/ RequestFails(r)
  \/ \E s \in Submission : Poll(s) \/ Update(s) \/ Tag(s) \/ PollFails(s)
  \/ \E k \in Entry : Grade(k)
  \/ Restart

Spec == Init /\ [][Next]_vars

\* The loop polls every 30 seconds, whatever a round raised; a round does not
\* fail for ever; Kaggle settles what it accepted.
PollFairness ==
  /\ \A s \in Submission :
       WF_vars(Poll(s)) /\ SF_vars(Update(s)) /\ SF_vars(Tag(s))
  /\ \A k \in Entry : WF_vars(Grade(k))

PollSpec == Spec /\ PollFairness

-----------------------------------------------------------------------------
(* Properties.                                                             *)

\* A settled row tells what Kaggle decided about the entry that was made from
\* the output of the row's own experiment, and no two rows tell of the same.
RowsTellKagglesVerdict ==
  \A s \in Submission : status[s] \in {"scored", "failed"} =>
    /\ \E k \in Entry :
         /\ kaggle_ref[s] = k /\ sent[k] = experiment_id[s]
         /\ entry[k] = IF status[s] = "scored" THEN "complete" ELSE "error"
    /\ \A t \in Submission : kaggle_ref[t] = kaggle_ref[s] => t = s

\* The leaderboard score on an MLflow run is of an entry made from that
\* experiment's output, and a row says so.
ScoresBelongToTheRun ==
  \A e \in Experiment : score[e] # Null =>
    /\ sent[score[e]] = e
    /\ \E s \in Submission :
         /\ experiment_id[s] = e /\ kaggle_ref[s] = score[e]
         /\ status[s] = "scored"

\* However reports repeat and contradict each other, a run is not closed and
\* nothing is sent to Kaggle before the job has a verdict.
NothingBeforeTheVerdict ==
  \A e \in Experiment : job[e] = "running" =>
    /\ run[e] \in {"none", "RUNNING"}
    /\ \A k \in Entry : sent[k] # e

\* The run of a job that has a verdict is closed, by whichever report, unless a
\* handler is about to close it, was lost before it could, or had no tracker.
RunsAreClosed ==
  \A e \in Experiment : job[e] # "running" /\ run[e] = "RUNNING" =>
    \/ \E r \in Request :
         req[r].experiment = e /\ req[r].at \in {"finish_run", "fail_run"}
    \/ e \in lost

\* An entry in the leaderboard is without a row only while its handler is
\* about to insert one, or when that handler was lost.
EntriesAreRecorded ==
  \A k \in Entry : entry[k] # "absent" =>
    \/ \E s \in Submission : kaggle_ref[s] = k
    \/ \E r \in Request : req[r].at = "insert" /\ req[r].entry = k
    \/ k \in lost

\* A row that says running has its task, or a handler about to make it, or
\* lost one of them with the gateway: no error ends the polling.
RunningRowsArePolled ==
  \A s \in Submission : status[s] = "running" =>
    \/ poller[s] # "none"
    \/ \E r \in Request : req[r].at = "schedule" /\ req[r].row = s
    \/ s \in lost

\* A row is settled once: a poll that is repeated, because tagging the run
\* raised, does not change its verdict.
VerdictIsFinal ==
  [][\A s \in Submission : status[s] \in {"scored", "failed"} =>
       status'[s] = status[s]]_vars

\* All this carries out the ledger: a row is a line of it.
Ledger == INSTANCE SubmissionLedger WITH
  line <- [s \in Submission |-> [of |-> kaggle_ref[s], says |-> status[s]]]
ImplementsLedger == Ledger!Spec

\* docs/implementation.md: "polls Kaggle every 30s until scored".  A row that
\* is being polled is settled in the end.
PolledUntilScored ==
  \A s \in Submission :
    status[s] = "running" /\ poller[s] # "none" ~> status[s] # "running"

\* The score of a row that is being tagged by a gateway with a tracker reaches
\* the run in the end, though the commit came first and tagging may raise.
ScoreReachesTheRun ==
  \A s \in Submission, e \in Tracked :
    poller[s] = "tag" /\ experiment_id[s] = e /\ HasRun(e) ~> score[e] = match[s]
=============================================================================
