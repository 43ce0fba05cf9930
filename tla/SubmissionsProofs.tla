------------------------- MODULE SubmissionsProofs -------------------------
(***************************************************************************)
(* Theorems about Submissions: what the handlers of several reports, the   *)
(* poll tasks, Kaggle and a restarting gateway keep true together.  Only   *)
(* what is said of an entry's row needs a client that returns references.  *)
(***************************************************************************)
EXTENDS Submissions, TLAPS

Entered(k) == entry[k] # "absent"

\* What is in Kaggle's leaderboard is of an experiment with a verdict, and so
\* is a run that is not open any more.
VerdictsFirst ==
  /\ \A e \in Experiment : run[e] # "none" => e \in Tracked
  /\ \A e \in Experiment : run[e] \in {"FINISHED", "FAILED"} => job[e] # "running"
  /\ \A k \in Entry :
       IF Entered(k)
       THEN sent[k] \in Experiment /\ job[sent[k]] # "running"
       ELSE sent[k] = Null

\* A handler works for an experiment with a verdict, but for its first step;
\* from submit to insert it has an entry that nobody else knows of, and to
\* schedule a row.
HandlerKnows(r) ==
  /\ req[r].at # "free" => req[r].experiment \in Experiment
  /\ req[r].at \notin {"free", "complete", "fail"} => job[req[r].experiment] # "running"
  /\ req[r].at = "insert" =>
       /\ req[r].entry \in Entry
       /\ Entered(req[r].entry) /\ sent[req[r].entry] = req[r].experiment
       /\ \A s \in Submission : kaggle_ref[s] # req[r].entry
       /\ \A q \in Request :
            req[q].at = "insert" /\ req[q].entry = req[r].entry => q = r
  /\ req[r].at = "schedule" => /\ req[r].row \in Submission
                                /\ status[req[r].row] # "absent"

\* A row without a reference is never settled.  Another is of one entry, made
\* from the output of its experiment; its task has found that entry, settled,
\* and what the row says it says of it.
RowKnows(s) ==
  IF status[s] = "absent"
  THEN kaggle_ref[s] = Null /\ experiment_id[s] = Null /\ poller[s] = "none"
  ELSE
    \/ /\ kaggle_ref[s] = EmptyRef /\ ~ClientReturnsRef
       /\ status[s] = "running" /\ poller[s] \in {"none", "sleep"}
    \/ /\ kaggle_ref[s] \in Entry
       /\ Entered(kaggle_ref[s]) /\ sent[kaggle_ref[s]] = experiment_id[s]
       /\ \A t \in Submission : kaggle_ref[t] = kaggle_ref[s] => t = s
       /\ status[s] = "scored" => entry[kaggle_ref[s]] = "complete"
       /\ status[s] = "failed" => entry[kaggle_ref[s]] = "error"
       /\ poller[s] \in {"update", "tag"} =>
            match[s] = kaggle_ref[s] /\ entry[kaggle_ref[s]] \in Settled
       /\ poller[s] = "tag" => status[s] = "scored"

Knowledge ==
  /\ TypeOK /\ VerdictsFirst
  /\ \A r \in Request : HandlerKnows(r)
  /\ \A s \in Submission : RowKnows(s)

\* With the properties that are inductive beside it.
IInv ==
  /\ Knowledge
  /\ ScoresBelongToTheRun /\ RunningRowsArePolled /\ RunsAreClosed
  /\ ClientReturnsRef => EntriesAreRecorded

\* Initially.
LEMMA InitIInv == Init => IInv
BY SubmissionsAssumption DEF Init, IInv, Knowledge, TypeOK, Handler, Step,
   NoRequest, VerdictsFirst, Entered, HandlerKnows, RowKnows,
   ScoresBelongToTheRun, EntriesAreRecorded, RunningRowsArePolled, RunsAreClosed

\* A restart adds what its handlers and tasks had in hand to what is lost.
LEMMA LostWithTheGateway ==
  ASSUME TypeOK, Restart
  PROVE  /\ lost \subseteq lost'
         /\ lost' \subseteq Entry \cup Submission \cup Tracked
         /\ \A s \in Submission : poller[s] # "none" => s \in lost'
         /\ \A r \in Request : Orphans(r) \subseteq lost'
BY DEF Restart, Orphans, TypeOK

\* A handler at its last step closes the run, or leaves it among what is lost.
LEMMA ClosedOrLost ==
  ASSUME TypeOK, NEW e \in Experiment, NEW s \in {"FINISHED", "FAILED"},
         Terminate(e, s)
  PROVE  /\ run' \in [Experiment -> {"none", "RUNNING", "FINISHED", "FAILED"}]
         /\ \A d \in Experiment \ {e} : run'[d] = run[d]
         /\ run'[e] = run[e] \/ (e \in Tracked /\ run'[e] = s)
         /\ e \in Tracked => run'[e] # "RUNNING" \/ e \in lost'
         /\ lost \subseteq lost'
         /\ lost' \subseteq Entry \cup Submission \cup Tracked
BY DEF Terminate, HasRun, TypeOK

\* Every step of a handler, a task, Kaggle or the gateway keeps it.
LEMMA StepKeepsIInv == IInv /\ [Next]_vars => IInv'
<1> SUFFICES ASSUME IInv, [Next]_vars PROVE IInv'
  OBVIOUS
<1> USE SubmissionsAssumption DEF SubmissionsAssumption, IInv, Knowledge,
    TypeOK, tracker, kaggle, table, tasks, Settled
<1>1. ASSUME NEW r \in Request, NEW e \in Experiment, Report(r, e) PROVE IInv'
  <2>1. TypeOK'
    <3>1. PICK at \in {"complete", "fail"} :
            req' = [req EXCEPT ![r] = [NoRequest EXCEPT !.at = at, !.experiment = e]]
      BY <1>1 DEF Report
    <3>2. [NoRequest EXCEPT !.at = at, !.experiment = e] \in Handler
      BY DEF NoRequest, Handler, Step
    <3>3. req' \in [Request -> Handler]
      BY <3>1, <3>2
    <3> QED
      BY <1>1, <3>3 DEF Report
  <2>2. VerdictsFirst'
    BY <1>1 DEF Report, VerdictsFirst, Entered
  <2>3. ASSUME NEW q \in Request PROVE HandlerKnows(q)'
    BY <1>1, <2>1 DEF Report, HandlerKnows, Entered
  <2>4. ASSUME NEW t \in Submission PROVE RowKnows(t)'
    BY <1>1, <2>1 DEF Report, RowKnows, Entered
  <2>5. ScoresBelongToTheRun'
    BY <1>1 DEF Report, ScoresBelongToTheRun
  <2>6. ClientReturnsRef => EntriesAreRecorded'
    BY <1>1 DEF Report, EntriesAreRecorded
  <2>7. RunningRowsArePolled'
    BY <1>1 DEF Report, RunningRowsArePolled
  <2>8. RunsAreClosed'
    BY <1>1 DEF Report, NoRequest, Handler, RunsAreClosed, VerdictsFirst,
       HandlerKnows
  <2> QED
    BY <2>1, <2>2, <2>3, <2>4, <2>5, <2>6, <2>7, <2>8
<1>2. ASSUME NEW r \in Request, Complete(r) PROVE IInv'
  <2>1. TypeOK'
    <3>a. req[r] \in Handler /\ "finish_run" \in Step
      BY DEF Step
    <3>1. [req[r] EXCEPT !.at = "finish_run"] \in Handler
      BY <3>a DEF Handler
    <3>2. req' = [req EXCEPT ![r] = [req[r] EXCEPT !.at = "finish_run"]]
      BY <1>2 DEF Complete, Mark
    <3>3. req' \in [Request -> Handler]
      BY <3>1, <3>2
    <3> QED
      BY <1>2, <3>3 DEF Complete, Mark
  <2>2. VerdictsFirst'
    BY <1>2 DEF Complete, Mark, VerdictsFirst, Entered
  <2>3. ASSUME NEW q \in Request PROVE HandlerKnows(q)'
    BY <1>2, <2>1 DEF Complete, Mark, HandlerKnows, Entered
  <2>4. ASSUME NEW t \in Submission PROVE RowKnows(t)'
    BY <1>2, <2>1 DEF Complete, Mark, RowKnows, Entered
  <2>5. ScoresBelongToTheRun'
    BY <1>2 DEF Complete, Mark, ScoresBelongToTheRun
  <2>6. ClientReturnsRef => EntriesAreRecorded'
    BY <1>2 DEF Complete, Mark, EntriesAreRecorded
  <2>7. RunningRowsArePolled'
    BY <1>2 DEF Complete, Mark, RunningRowsArePolled
  <2>8. RunsAreClosed'
    BY <1>2 DEF Complete, Mark, NoRequest, Handler, RunsAreClosed,
       VerdictsFirst, HandlerKnows
  <2> QED
    BY <2>1, <2>2, <2>3, <2>4, <2>5, <2>6, <2>7, <2>8
<1>3. ASSUME NEW r \in Request, FinishRun(r) PROVE IInv'
  <2>a. \E h \in {[req[r] EXCEPT !.at = "submit"], NoRequest} :
          req' = [req EXCEPT ![r] = h]
    BY <1>3 DEF FinishRun, AfterFinish
  <2>b. /\ req[r].at = "finish_run" /\ req[r].experiment \in Experiment
        /\ job[req[r].experiment] # "running"
        /\ Terminate(req[r].experiment, "FINISHED")
    BY <1>3 DEF FinishRun, HandlerKnows
  <2>c. /\ \A e \in Experiment : e # req[r].experiment => run'[e] = run[e]
        /\ req[r].experiment \in Tracked =>
             run'[req[r].experiment] # "RUNNING" \/ req[r].experiment \in lost'
        /\ run'[req[r].experiment] = run[req[r].experiment]
             \/ req[r].experiment \in Tracked
        /\ lost \subseteq lost'
    <3> DEFINE e == req[r].experiment
    <3>1. TypeOK /\ e \in Experiment
      BY <2>b
    <3> HIDE DEF e, TypeOK
    <3>2. Terminate(e, "FINISHED")
      BY <2>b DEF e
    <3>3. /\ \A d \in Experiment \ {e} : run'[d] = run[d]
          /\ run'[e] = run[e] \/ e \in Tracked
          /\ e \in Tracked => run'[e] # "RUNNING" \/ e \in lost'
          /\ lost \subseteq lost'
      BY <3>1, <3>2, ClosedOrLost
    <3> QED
      BY <3>3 DEF e
  <2>1. TypeOK'
    <3>1. req' \in [Request -> Handler]
      BY <2>a DEF NoRequest, Handler, Step
    <3> QED
      BY <1>3, <2>b, <3>1, ClosedOrLost DEF FinishRun
  <2>2. VerdictsFirst'
    BY <1>3, <2>b, ClosedOrLost DEF FinishRun, VerdictsFirst, Entered
  <2>3. ASSUME NEW q \in Request PROVE HandlerKnows(q)'
    <3>1. PICK h \in {[req[r] EXCEPT !.at = "submit"], NoRequest} :
            req' = [req EXCEPT ![r] = h]
      BY <2>a
    <3>2. req'[r] = h /\ \A p \in Request \ {r} : req'[p] = req[p]
      BY <3>1
    <3>3. req[r] \in Handler
      OBVIOUS
    <3>4. /\ h.at \in {"submit", "free"}
          /\ h.at = "submit" => h.experiment = req[r].experiment
      BY <3>3 DEF NoRequest, Handler
    <3>5. CASE q = r
      BY <1>3, <3>2, <3>4, <3>5 DEF FinishRun, HandlerKnows, Entered
    <3>6. CASE q # r
      <4>1. /\ req'[q] = req[q]
            /\ \A p \in Request : req'[p].at = "insert" => req'[p] = req[p]
        BY <3>2, <3>4, <3>6
      <4> QED
        BY <1>3, <4>1 DEF FinishRun, HandlerKnows, Entered
    <3> QED
      BY <3>5, <3>6
  <2>4. ASSUME NEW t \in Submission PROVE RowKnows(t)'
    BY <1>3, <2>1 DEF FinishRun, RowKnows, Entered
  <2>5. ScoresBelongToTheRun'
    BY <1>3 DEF FinishRun, ScoresBelongToTheRun
  <2>6. ClientReturnsRef => EntriesAreRecorded'
    <3>1. \A p \in Request : req[p].at = "insert" => req'[p] = req[p]
      BY <1>3, <2>a DEF FinishRun
    <3> QED
      BY <1>3, <2>c, <3>1 DEF FinishRun, EntriesAreRecorded
  <2>7. RunningRowsArePolled'
    <3>1. \A p \in Request : req[p].at = "schedule" => req'[p] = req[p]
      BY <2>a, <2>b
    <3> QED
      BY <1>3, <2>c, <3>1 DEF FinishRun, RunningRowsArePolled
  <2>8. RunsAreClosed'
    <3>1. \A p \in Request \ {r} : req'[p] = req[p]
      BY <2>a
    <3>2. ASSUME NEW e \in Experiment, job[e] # "running", run'[e] = "RUNNING"
          PROVE  \/ \E q \in Request : /\ req'[q].experiment = e
                                       /\ req'[q].at \in {"finish_run", "fail_run"}
                 \/ e \in lost'
      <4>1. CASE e = req[r].experiment
        <5>1. e \in Tracked
          BY <2>c, <3>2, <4>1 DEF VerdictsFirst
        <5> QED
          BY <2>c, <3>2, <4>1, <5>1
      <4>2. CASE e # req[r].experiment
        <5>1. job[e] # "running" /\ run[e] = "RUNNING"
          BY <2>c, <3>2, <4>2
        <5>2. e \notin lost => \E q \in Request \ {r} :
                req[q].experiment = e /\ req[q].at \in {"finish_run", "fail_run"}
          BY <4>2, <5>1 DEF RunsAreClosed
        <5> QED
          BY <2>c, <3>1, <5>2
      <4> QED
        BY <4>1, <4>2
    <3> QED
      BY <1>3, <3>2 DEF FinishRun, RunsAreClosed
  <2> QED
    BY <2>1, <2>2, <2>3, <2>4, <2>5, <2>6, <2>7, <2>8
<1>4. ASSUME NEW r \in Request, Submit(r) PROVE IInv'
  <2>1. TypeOK'
    <3>1. PICK k \in Entry :
            /\ entry' = [entry EXCEPT ![k] = "pending"]
            /\ sent' = [sent EXCEPT ![k] = req[r].experiment]
            /\ req' = [req EXCEPT ![r].at = "insert", ![r].entry = k]
      BY <1>4 DEF Submit
    <3>a. req[r] \in Handler
      OBVIOUS
    <3>b. "insert" \in Step
      BY DEF Step
    <3>2. [req[r] EXCEPT !.at = "insert", !.entry = k] \in Handler
      BY <3>a, <3>b DEF Handler
    <3>3. req' = [req EXCEPT ![r] = [req[r] EXCEPT !.at = "insert", !.entry = k]]
      BY <3>1
    <3>4. req' \in [Request -> Handler]
      BY <3>2, <3>3
    <3>5. entry' \in [Entry -> {"absent", "pending"} \cup Settled]
      BY <3>1
    <3>6. sent' \in [Entry -> Experiment \cup {Null}]
      BY <3>1 DEF Handler
    <3> QED
      BY <1>4, <3>4, <3>5, <3>6 DEF Submit
  <2>2. VerdictsFirst'
    BY <1>4 DEF Submit, VerdictsFirst, HandlerKnows, Entered
  <2>3. ASSUME NEW q \in Request PROVE HandlerKnows(q)'
    BY <1>4, <2>1 DEF Submit, HandlerKnows, RowKnows, Entered
  <2>4. ASSUME NEW t \in Submission PROVE RowKnows(t)'
    BY <1>4, <2>1 DEF Submit, RowKnows, Entered
  <2>5. ScoresBelongToTheRun'
    BY <1>4 DEF Submit, ScoresBelongToTheRun, RowKnows
  <2>6. ClientReturnsRef => EntriesAreRecorded'
    BY <1>4 DEF Submit, EntriesAreRecorded
  <2>7. RunningRowsArePolled'
    BY <1>4 DEF Submit, RunningRowsArePolled
  <2>8. RunsAreClosed'
    BY <1>4 DEF Submit, NoRequest, Handler, RunsAreClosed, VerdictsFirst,
       HandlerKnows
  <2> QED
    BY <2>1, <2>2, <2>3, <2>4, <2>5, <2>6, <2>7, <2>8
<1>5. ASSUME NEW r \in Request, Insert(r) PROVE IInv'
  <2>1. TypeOK'
    <3>1. PICK s \in Submission :
            /\ status' = [status EXCEPT ![s] = "running"]
            /\ experiment_id' = [experiment_id EXCEPT ![s] = req[r].experiment]
            /\ kaggle_ref' = [kaggle_ref EXCEPT ![s] = ReturnedRef(req[r].entry)]
            /\ req' = [req EXCEPT ![r].at = "schedule", ![r].row = s]
      BY <1>5 DEF Insert
    <3>a. req[r] \in Handler
      OBVIOUS
    <3>b. "schedule" \in Step
      BY DEF Step
    <3>2. [req[r] EXCEPT !.at = "schedule", !.row = s] \in Handler
      BY <3>a, <3>b DEF Handler
    <3>3. req' = [req EXCEPT ![r] = [req[r] EXCEPT !.at = "schedule", !.row = s]]
      BY <3>1
    <3>4. req' \in [Request -> Handler]
      BY <3>2, <3>3
    <3>5. /\ status' \in [Submission -> {"absent", "running", "scored", "failed"}]
          /\ experiment_id' \in [Submission -> Experiment \cup {Null}]
          /\ kaggle_ref' \in [Submission -> Entry \cup {EmptyRef, Null}]
      BY <3>1, <3>a DEF Handler, ReturnedRef
    <3> QED
      BY <1>5, <3>4, <3>5 DEF Insert
  <2>2. VerdictsFirst'
    BY <1>5 DEF Insert, VerdictsFirst, Entered
  <2>3. ASSUME NEW q \in Request PROVE HandlerKnows(q)'
    BY <1>5, <2>1 DEF Insert, ReturnedRef, HandlerKnows, Entered
  <2>4. ASSUME NEW t \in Submission PROVE RowKnows(t)'
    BY <1>5, <2>1 DEF Insert, ReturnedRef, HandlerKnows, RowKnows, Entered
  <2>5. ScoresBelongToTheRun'
    BY <1>5 DEF Insert, ReturnedRef, NoRequest, Handler, ScoresBelongToTheRun,
       RowKnows, Entered
  <2>6. ClientReturnsRef => EntriesAreRecorded'
    <3> HAVE ClientReturnsRef
    <3>1. PICK s \in Submission :
            /\ status[s] = "absent"
            /\ kaggle_ref' = [kaggle_ref EXCEPT ![s] = req[r].entry]
      BY <1>5 DEF Insert, ReturnedRef
    <3>2. kaggle_ref[s] = Null
      BY <3>1 DEF RowKnows
    <3>3. \A p \in Request \ {r} : req'[p] = req[p]
      BY <1>5 DEF Insert
    <3>4. kaggle_ref'[s] = req[r].entry
          /\ \A t \in Submission \ {s} : kaggle_ref'[t] = kaggle_ref[t]
      BY <3>1
    <3> QED
      BY <1>5, <3>2, <3>3, <3>4 DEF Insert, kaggle, EntriesAreRecorded
  <2>7. RunningRowsArePolled'
    BY <1>5 DEF Insert, RunningRowsArePolled
  <2>8. RunsAreClosed'
    BY <1>5 DEF Insert, ReturnedRef, NoRequest, Handler, RunsAreClosed,
       VerdictsFirst, HandlerKnows
  <2> QED
    BY <2>1, <2>2, <2>3, <2>4, <2>5, <2>6, <2>7, <2>8
<1>6. ASSUME NEW r \in Request, Schedule(r) PROVE IInv'
  <2>1. TypeOK'
    BY <1>6 DEF Schedule, NoRequest, Handler, Step
  <2>2. VerdictsFirst'
    BY <1>6 DEF Schedule, VerdictsFirst, Entered
  <2>3. ASSUME NEW q \in Request PROVE HandlerKnows(q)'
    BY <1>6, <2>1 DEF Schedule, NoRequest, HandlerKnows, Entered
  <2>4. ASSUME NEW t \in Submission PROVE RowKnows(t)'
    BY <1>6, <2>1 DEF Schedule, HandlerKnows, RowKnows, Entered
  <2>5. ScoresBelongToTheRun'
    BY <1>6 DEF Schedule, ScoresBelongToTheRun
  <2>6. ClientReturnsRef => EntriesAreRecorded'
    BY <1>6 DEF Schedule, EntriesAreRecorded
  <2>7. RunningRowsArePolled'
    BY <1>6 DEF Schedule, RunningRowsArePolled
  <2>8. RunsAreClosed'
    BY <1>6 DEF Schedule, NoRequest, Handler, RunsAreClosed, VerdictsFirst,
       HandlerKnows
  <2> QED
    BY <2>1, <2>2, <2>3, <2>4, <2>5, <2>6, <2>7, <2>8
<1>7. ASSUME NEW r \in Request, Fail(r) PROVE IInv'
  <2>1. TypeOK'
    <3>a. req[r] \in Handler /\ "fail_run" \in Step
      BY DEF Step
    <3>1. [req[r] EXCEPT !.at = "fail_run"] \in Handler
      BY <3>a DEF Handler
    <3>2. req' = [req EXCEPT ![r] = [req[r] EXCEPT !.at = "fail_run"]]
      BY <1>7 DEF Fail, Mark
    <3>3. req' \in [Request -> Handler]
      BY <3>1, <3>2
    <3> QED
      BY <1>7, <3>3 DEF Fail, Mark
  <2>2. VerdictsFirst'
    BY <1>7 DEF Fail, Mark, VerdictsFirst, Entered
  <2>3. ASSUME NEW q \in Request PROVE HandlerKnows(q)'
    BY <1>7, <2>1 DEF Fail, Mark, HandlerKnows, Entered
  <2>4. ASSUME NEW t \in Submission PROVE RowKnows(t)'
    BY <1>7, <2>1 DEF Fail, Mark, RowKnows, Entered
  <2>5. ScoresBelongToTheRun'
    BY <1>7 DEF Fail, Mark, ScoresBelongToTheRun
  <2>6. ClientReturnsRef => EntriesAreRecorded'
    BY <1>7 DEF Fail, Mark, EntriesAreRecorded
  <2>7. RunningRowsArePolled'
    BY <1>7 DEF Fail, Mark, RunningRowsArePolled
  <2>8. RunsAreClosed'
    BY <1>7 DEF Fail, Mark, NoRequest, Handler, RunsAreClosed, VerdictsFirst,
       HandlerKnows
  <2> QED
    BY <2>1, <2>2, <2>3, <2>4, <2>5, <2>6, <2>7, <2>8
<1>8. ASSUME NEW r \in Request, FailRun(r) PROVE IInv'
  <2>a. req' = [req EXCEPT ![r] = NoRequest] /\ UNCHANGED services
    BY <1>8 DEF FailRun
  <2>b. /\ req[r].at = "fail_run" /\ req[r].experiment \in Experiment
        /\ job[req[r].experiment] # "running"
        /\ Terminate(req[r].experiment, "FAILED")
    BY <1>8 DEF FailRun, HandlerKnows
  <2>c. /\ \A e \in Experiment : e # req[r].experiment => run'[e] = run[e]
        /\ req[r].experiment \in Tracked =>
             run'[req[r].experiment] # "RUNNING" \/ req[r].experiment \in lost'
        /\ run'[req[r].experiment] = run[req[r].experiment]
             \/ req[r].experiment \in Tracked
        /\ lost \subseteq lost'
    <3> DEFINE e == req[r].experiment
    <3>1. TypeOK /\ e \in Experiment
      BY <2>b
    <3> HIDE DEF e, TypeOK
    <3>2. Terminate(e, "FAILED")
      BY <2>b DEF e
    <3>3. /\ \A d \in Experiment \ {e} : run'[d] = run[d]
          /\ run'[e] = run[e] \/ e \in Tracked
          /\ e \in Tracked => run'[e] # "RUNNING" \/ e \in lost'
          /\ lost \subseteq lost'
      BY <3>1, <3>2, ClosedOrLost
    <3> QED
      BY <3>3 DEF e
  <2>1. TypeOK'
    <3>1. req' \in [Request -> Handler]
      BY <2>a DEF NoRequest, Handler, Step
    <3> QED
      BY <1>8, <2>b, <3>1, ClosedOrLost DEF FailRun
  <2>2. VerdictsFirst'
    BY <1>8, <2>b, ClosedOrLost DEF FailRun, VerdictsFirst, Entered
  <2>3. ASSUME NEW q \in Request PROVE HandlerKnows(q)'
    BY <1>8, <2>1 DEF FailRun, NoRequest, HandlerKnows, Entered
  <2>4. ASSUME NEW t \in Submission PROVE RowKnows(t)'
    BY <1>8, <2>1 DEF FailRun, RowKnows, Entered
  <2>5. ScoresBelongToTheRun'
    BY <1>8 DEF FailRun, ScoresBelongToTheRun
  <2>6. ClientReturnsRef => EntriesAreRecorded'
    BY <1>8, <2>c DEF FailRun, NoRequest, EntriesAreRecorded
  <2>7. RunningRowsArePolled'
    BY <1>8, <2>b, <2>c DEF FailRun, RunningRowsArePolled
  <2>8. RunsAreClosed'
    <3>1. ASSUME NEW e \in Experiment, job[e] # "running", run'[e] = "RUNNING"
          PROVE  \/ \E q \in Request : /\ req'[q].experiment = e
                                       /\ req'[q].at \in {"finish_run", "fail_run"}
                 \/ e \in lost'
      <4>1. CASE e = req[r].experiment
        BY <2>b, <2>c, <3>1, <4>1, ClosedOrLost DEF VerdictsFirst
      <4>2. CASE e # req[r].experiment
        BY <2>a, <2>c, <3>1, <4>2 DEF RunsAreClosed
      <4> QED
        BY <4>1, <4>2
    <3> QED
      BY <1>8, <3>1 DEF FailRun, RunsAreClosed
  <2> QED
    BY <2>1, <2>2, <2>3, <2>4, <2>5, <2>6, <2>7, <2>8
<1>9. ASSUME NEW r \in Request, RequestFails(r) PROVE IInv'
  <2>1. TypeOK'
    BY <1>9 DEF RequestFails, Orphans, NoRequest, Handler, Step
  <2>2. VerdictsFirst'
    BY <1>9 DEF RequestFails, VerdictsFirst, Entered
  <2>3. ASSUME NEW q \in Request PROVE HandlerKnows(q)'
    BY <1>9, <2>1 DEF RequestFails, NoRequest, HandlerKnows, Entered
  <2>4. ASSUME NEW t \in Submission PROVE RowKnows(t)'
    BY <1>9, <2>1 DEF RequestFails, RowKnows, Entered
  <2>5. ScoresBelongToTheRun'
    BY <1>9 DEF RequestFails, ScoresBelongToTheRun
  <2>6. ClientReturnsRef => EntriesAreRecorded'
    BY <1>9 DEF RequestFails, Orphans, EntriesAreRecorded
  <2>7. RunningRowsArePolled'
    BY <1>9 DEF RequestFails, Orphans, RunningRowsArePolled
  <2>8. RunsAreClosed'
    BY <1>9 DEF RequestFails, Orphans, NoRequest, Handler, RunsAreClosed,
       VerdictsFirst, HandlerKnows
  <2> QED
    BY <2>1, <2>2, <2>3, <2>4, <2>5, <2>6, <2>7, <2>8
<1>10. ASSUME NEW s \in Submission, Poll(s) PROVE IInv'
  <2>1. TypeOK'
    BY <1>10 DEF Poll, Matches, Listed
  <2>2. VerdictsFirst'
    BY <1>10 DEF Poll, VerdictsFirst, Entered
  <2>3. ASSUME NEW q \in Request PROVE HandlerKnows(q)'
    BY <1>10, <2>1 DEF Poll, HandlerKnows, Entered
  <2>4. ASSUME NEW t \in Submission PROVE RowKnows(t)'
    BY <1>10, <2>1 DEF Poll, Matches, Listed, RowKnows, Entered
  <2>5. ScoresBelongToTheRun'
    BY <1>10 DEF Poll, ScoresBelongToTheRun
  <2>6. ClientReturnsRef => EntriesAreRecorded'
    BY <1>10 DEF Poll, EntriesAreRecorded
  <2>7. RunningRowsArePolled'
    BY <1>10 DEF Poll, RunningRowsArePolled
  <2>8. RunsAreClosed'
    BY <1>10 DEF Poll, Matches, Listed, NoRequest, Handler, RunsAreClosed,
       VerdictsFirst, HandlerKnows
  <2> QED
    BY <2>1, <2>2, <2>3, <2>4, <2>5, <2>6, <2>7, <2>8
<1>11. ASSUME NEW s \in Submission, Update(s) PROVE IInv'
  <2>1. TypeOK'
    BY <1>11 DEF Update
  <2>2. VerdictsFirst'
    BY <1>11 DEF Update, VerdictsFirst, Entered
  <2>3. ASSUME NEW q \in Request PROVE HandlerKnows(q)'
    BY <1>11, <2>1 DEF Update, HandlerKnows, Entered
  <2>4. ASSUME NEW t \in Submission PROVE RowKnows(t)'
    BY <1>11, <2>1 DEF Update, RowKnows, Entered
  <2>5. ScoresBelongToTheRun'
    BY <1>11 DEF Update, ScoresBelongToTheRun, RowKnows
  <2>6. ClientReturnsRef => EntriesAreRecorded'
    BY <1>11 DEF Update, EntriesAreRecorded
  <2>7. RunningRowsArePolled'
    BY <1>11 DEF Update, RunningRowsArePolled
  <2>8. RunsAreClosed'
    BY <1>11 DEF Update, NoRequest, Handler, RunsAreClosed, VerdictsFirst,
       HandlerKnows
  <2> QED
    BY <2>1, <2>2, <2>3, <2>4, <2>5, <2>6, <2>7, <2>8
<1>12. ASSUME NEW s \in Submission, Tag(s) PROVE IInv'
  <2>1. TypeOK'
    BY <1>12 DEF Tag
  <2>2. VerdictsFirst'
    BY <1>12 DEF Tag, VerdictsFirst, Entered
  <2>3. ASSUME NEW q \in Request PROVE HandlerKnows(q)'
    BY <1>12, <2>1 DEF Tag, HandlerKnows, Entered
  <2>4. ASSUME NEW t \in Submission PROVE RowKnows(t)'
    BY <1>12, <2>1 DEF Tag, RowKnows, Entered
  <2>5. ScoresBelongToTheRun'
    BY <1>12 DEF Tag, ScoresBelongToTheRun, RowKnows
  <2>6. ClientReturnsRef => EntriesAreRecorded'
    BY <1>12 DEF Tag, EntriesAreRecorded
  <2>7. RunningRowsArePolled'
    BY <1>12 DEF Tag, RunningRowsArePolled, RowKnows
  <2>8. RunsAreClosed'
    BY <1>12 DEF Tag, NoRequest, Handler, RunsAreClosed, VerdictsFirst,
       HandlerKnows
  <2> QED
    BY <2>1, <2>2, <2>3, <2>4, <2>5, <2>6, <2>7, <2>8
<1>13. ASSUME NEW s \in Submission, PollFails(s) PROVE IInv'
  <2>1. TypeOK'
    BY <1>13 DEF PollFails
  <2>2. VerdictsFirst'
    BY <1>13 DEF PollFails, VerdictsFirst, Entered
  <2>3. ASSUME NEW q \in Request PROVE HandlerKnows(q)'
    BY <1>13, <2>1 DEF PollFails, HandlerKnows, Entered
  <2>4. ASSUME NEW t \in Submission PROVE RowKnows(t)'
    BY <1>13, <2>1 DEF PollFails, RowKnows, Entered
  <2>5. ScoresBelongToTheRun'
    BY <1>13 DEF PollFails, ScoresBelongToTheRun
  <2>6. ClientReturnsRef => EntriesAreRecorded'
    BY <1>13 DEF PollFails, EntriesAreRecorded
  <2>7. RunningRowsArePolled'
    BY <1>13 DEF PollFails, RunningRowsArePolled
  <2>8. RunsAreClosed'
    BY <1>13 DEF PollFails, NoRequest, Handler, RunsAreClosed, VerdictsFirst,
       HandlerKnows
  <2> QED
    BY <2>1, <2>2, <2>3, <2>4, <2>5, <2>6, <2>7, <2>8
<1>14. ASSUME NEW k \in Entry, Grade(k) PROVE IInv'
  <2>1. TypeOK'
    BY <1>14 DEF Grade
  <2>2. VerdictsFirst'
    BY <1>14 DEF Grade, VerdictsFirst, Entered
  <2>3. ASSUME NEW q \in Request PROVE HandlerKnows(q)'
    BY <1>14, <2>1 DEF Grade, HandlerKnows, Entered
  <2>4. ASSUME NEW t \in Submission PROVE RowKnows(t)'
    BY <1>14, <2>1 DEF Grade, RowKnows, Entered
  <2>5. ScoresBelongToTheRun'
    BY <1>14 DEF Grade, ScoresBelongToTheRun
  <2>6. ClientReturnsRef => EntriesAreRecorded'
    BY <1>14 DEF Grade, EntriesAreRecorded
  <2>7. RunningRowsArePolled'
    BY <1>14 DEF Grade, RunningRowsArePolled
  <2>8. RunsAreClosed'
    BY <1>14 DEF Grade, NoRequest, Handler, RunsAreClosed, VerdictsFirst,
       HandlerKnows
  <2> QED
    BY <2>1, <2>2, <2>3, <2>4, <2>5, <2>6, <2>7, <2>8
<1>15. ASSUME Restart PROVE IInv'
  <2>a. /\ lost \subseteq lost'
        /\ lost' \subseteq Entry \cup Submission \cup Tracked
        /\ \A s \in Submission : poller[s] # "none" => s \in lost'
        /\ \A r \in Request : Orphans(r) \subseteq lost'
    BY <1>15, LostWithTheGateway
  <2>1. TypeOK'
    <3>1. req' \in [Request -> Handler]
      BY <1>15 DEF Restart, NoRequest, Handler, Step
    <3> QED
      BY <1>15, <2>a, <3>1 DEF Restart
  <2>2. VerdictsFirst'
    BY <1>15 DEF Restart, VerdictsFirst, Entered
  <2>3. ASSUME NEW q \in Request PROVE HandlerKnows(q)'
    BY <1>15, <2>1 DEF Restart, NoRequest, HandlerKnows
  <2>4. ASSUME NEW t \in Submission PROVE RowKnows(t)'
    BY <1>15, <2>1 DEF Restart, RowKnows, Entered
  <2>5. ScoresBelongToTheRun'
    BY <1>15 DEF Restart, ScoresBelongToTheRun
  <2>6. ClientReturnsRef => EntriesAreRecorded'
    <3>1. \A r \in Request, k \in Entry :
            req[r].at = "insert" /\ req[r].entry = k => k \in lost'
      BY <2>a DEF Orphans
    <3> QED
      BY <1>15, <2>a, <3>1 DEF Restart, EntriesAreRecorded
  <2>7. RunningRowsArePolled'
    <3>1. \A r \in Request, s \in Submission :
            req[r].at = "schedule" /\ req[r].row = s => s \in lost'
      BY <2>a DEF Orphans
    <3>2. \A s \in Submission : poller[s] # "none" => s \in lost'
      BY <2>a
    <3> QED
      BY <1>15, <2>a, <3>1, <3>2 DEF Restart, RunningRowsArePolled
  <2>8. RunsAreClosed'
    <3>1. \A r \in Request, e \in Tracked :
            req[r].at \in {"finish_run", "fail_run"} /\ req[r].experiment = e
              => e \in lost'
      BY <2>a DEF Orphans
    <3> QED
      BY <1>15, <2>a, <3>1 DEF Restart, VerdictsFirst, RunsAreClosed
  <2> QED
    BY <2>1, <2>2, <2>3, <2>4, <2>5, <2>6, <2>7, <2>8
<1>16. CASE UNCHANGED vars
  BY <1>16 DEF vars, VerdictsFirst, Entered, HandlerKnows,
     RowKnows, ScoresBelongToTheRun, EntriesAreRecorded, RunningRowsArePolled,
     RunsAreClosed
<1> QED
  BY <1>1, <1>2, <1>3, <1>4, <1>5, <1>6, <1>7, <1>8,
     <1>9, <1>10, <1>11, <1>12, <1>13, <1>14, <1>15, <1>16 DEF Next, HandlerStep

\* So it always holds.
LEMMA SpecHasIInv == Spec => []IInv
<1>1. Init => IInv
  BY InitIInv
<1>2. IInv /\ [Next]_vars => IInv'
  BY StepKeepsIInv
<1> QED
  BY <1>1, <1>2, PTL DEF Spec

-----------------------------------------------------------------------------
(* The theorems.                                                           *)

\* The tables, the handlers and the tasks are what their declarations say.
THEOREM SubmissionsTypeCorrect == Spec => []TypeOK
<1>1. IInv => TypeOK
  BY DEF IInv, Knowledge
<1> QED
  BY SpecHasIInv, <1>1, PTL

\* A settled row tells what Kaggle decided about the entry made from the output
\* of its own experiment, and it is the only row of it.
THEOREM RowsTell == Spec => []RowsTellKagglesVerdict
<1>1. IInv => RowsTellKagglesVerdict
  BY DEF IInv, Knowledge, RowKnows, RowsTellKagglesVerdict, TypeOK
<1> QED
  BY SpecHasIInv, <1>1, PTL

\* A score on an MLflow run is of an entry of that experiment, and recorded.
THEOREM ScoresBelong == Spec => []ScoresBelongToTheRun
<1>1. IInv => ScoresBelongToTheRun
  BY DEF IInv
<1> QED
  BY SpecHasIInv, <1>1, PTL

\* Before the job has a verdict nothing is sent and its run stays open.
THEOREM VerdictComesFirst == Spec => []NothingBeforeTheVerdict
<1>1. IInv => NothingBeforeTheVerdict
  BY SubmissionsAssumption DEF SubmissionsAssumption, IInv, Knowledge,
     VerdictsFirst, Entered, NothingBeforeTheVerdict, TypeOK
<1> QED
  BY SpecHasIInv, <1>1, PTL

\* The run of a job with a verdict is closed, is being closed, or is among what
\* was lost: with its handler, or because there was no tracker to close it.
THEOREM RunsGetClosed == Spec => []RunsAreClosed
<1>1. IInv => RunsAreClosed
  BY DEF IInv
<1> QED
  BY SpecHasIInv, <1>1, PTL

\* With a client that returns references, an entry in the leaderboard has a
\* row, is about to get one, or lost its handler.
THEOREM EntriesHaveRows == ClientReturnsRef => (Spec => []EntriesAreRecorded)
<1> SUFFICES ASSUME ClientReturnsRef PROVE Spec => []EntriesAreRecorded
  OBVIOUS
<1>1. IInv => EntriesAreRecorded
  BY DEF IInv
<1> QED
  BY SpecHasIInv, <1>1, PTL

\* A running row is polled, about to be, or was orphaned by a restart.
THEOREM RowsArePolled == Spec => []RunningRowsArePolled
<1>1. IInv => RunningRowsArePolled
  BY DEF IInv
<1> QED
  BY SpecHasIInv, <1>1, PTL

\* A row is settled once, however often its last round is repeated.
THEOREM VerdictsAreFinal == Spec => VerdictIsFinal
<1>1. IInv /\ [Next]_vars =>
        [\A s \in Submission : status[s] \in {"scored", "failed"} =>
           status'[s] = status[s]]_vars
  <2> SUFFICES ASSUME IInv, [Next]_vars, NEW s \in Submission,
                      status[s] \in {"scored", "failed"}
               PROVE  status'[s] = status[s]
    OBVIOUS
  <2>1. CASE \E r \in Request : Insert(r)
    BY <2>1 DEF Insert
  <2>2. CASE \E t \in Submission : Update(t)
    BY <2>2 DEF IInv, Knowledge, TypeOK, RowKnows, Update, Settled
  <2>3. CASE UNCHANGED status
    BY <2>3
  <2> QED
    BY <2>1, <2>2, <2>3 DEF Next, HandlerStep, vars, table, Report, Complete,
       Fail, Mark, FinishRun, Submit, Schedule, FailRun, RequestFails, Poll,
       Tag, PollFails, Grade, Restart
<1> QED
  BY SpecHasIInv, <1>1, PTL DEF Spec, VerdictIsFinal

\* With a client that returns references, the handlers, the tasks and what is
\* lost with them carry out the ledger: the rows are its lines.
THEOREM LedgerIsImplemented == ClientReturnsRef => (Spec => ImplementsLedger)
<1> SUFFICES ASSUME ClientReturnsRef PROVE Spec => ImplementsLedger
  OBVIOUS
<1>1. Init => Ledger!Init
  BY DEF Init, Ledger!Init, Ledger!Blank
<1>2. IInv /\ [Next]_vars => [Ledger!Next]_Ledger!vars
  <2> DEFINE book == [s \in Submission |-> [of |-> kaggle_ref[s], says |-> status[s]]]
  <2> SUFFICES ASSUME IInv, [Next]_vars PROVE [Ledger!Next]_Ledger!vars
    OBVIOUS
  <2> USE SubmissionsAssumption DEF SubmissionsAssumption, IInv, Knowledge,
      TypeOK, kaggle, table, tracker
  <2>1. ASSUME NEW r \in Request, Submit(r) PROVE Ledger!Next
    <3>1. PICK k \in Entry :
            /\ entry[k] = "absent"
            /\ entry' = [entry EXCEPT ![k] = "pending"]
            /\ sent' = [sent EXCEPT ![k] = req[r].experiment]
      BY <2>1 DEF Submit
    <3>2. req[r].experiment \in Experiment
      BY <2>1 DEF Submit, HandlerKnows
    <3>3. Ledger!Send(req[r].experiment, k)
      BY <2>1, <3>1 DEF Submit, Ledger!Send
    <3> QED
      BY <3>2, <3>3 DEF Ledger!Next
  <2>2. ASSUME NEW r \in Request, Insert(r) PROVE Ledger!Next
    <3>1. PICK s \in Submission :
            /\ status[s] = "absent"
            /\ status' = [status EXCEPT ![s] = "running"]
            /\ kaggle_ref' = [kaggle_ref EXCEPT ![s] = req[r].entry]
      BY <2>2 DEF Insert, ReturnedRef
    <3>2. PICK k \in Entry :
            /\ k = req[r].entry /\ entry[k] # "absent"
            /\ \A t \in Submission : kaggle_ref[t] # k
      BY <2>2 DEF Insert, HandlerKnows, Entered
    <3>3. book[s] = Ledger!Blank
      BY <3>1 DEF RowKnows, Ledger!Blank
    <3>4. book' = [book EXCEPT ![s] = [of |-> k, says |-> "running"]]
      BY <3>1, <3>2
    <3>5. \A t \in Submission : book[t].of # k
      BY <3>2
    <3>6. Ledger!Record(s, k)
      BY <2>2, <3>2, <3>3, <3>4, <3>5 DEF Insert, Ledger!Record
    <3> QED
      BY <3>6 DEF Ledger!Next
  <2>3. ASSUME NEW s \in Submission, Update(s) PROVE [Ledger!Next]_Ledger!vars
    <3>1. /\ kaggle_ref[s] \in Entry /\ match[s] = kaggle_ref[s]
          /\ status[s] \in {"running", "scored", "failed"}
          /\ status[s] = "scored" => entry[kaggle_ref[s]] = "complete"
          /\ status[s] = "failed" => entry[kaggle_ref[s]] = "error"
      BY <2>3 DEF Update, RowKnows
    <3>2. CASE status[s] = "running"
      <4>1. book[s].says = "running" /\ book[s].of = kaggle_ref[s]
        BY <3>2
      <4>2. \/ /\ entry[kaggle_ref[s]] = "complete"
               /\ book' = [book EXCEPT ![s].says = "scored"]
            \/ /\ entry[kaggle_ref[s]] = "error"
               /\ book' = [book EXCEPT ![s].says = "failed"]
        BY <2>3, <3>1 DEF Update
      <4>3. Ledger!Settle(s)
        BY <2>3, <3>1, <4>1, <4>2 DEF Update, Ledger!Settle
      <4> QED
        BY <4>3 DEF Ledger!Next
    <3>3. CASE status[s] # "running"
      <4>1. status' = status
        BY <2>3, <3>1, <3>3 DEF Update
      <4> QED
        BY <2>3, <4>1 DEF Update, Ledger!vars
    <3> QED
      BY <3>2, <3>3
  <2>4. ASSUME NEW s \in Submission, Tag(s) PROVE [Ledger!Next]_Ledger!vars
    <3>1. /\ kaggle_ref[s] \in Entry /\ match[s] = kaggle_ref[s]
          /\ status[s] = "scored" /\ sent[kaggle_ref[s]] = experiment_id[s]
      BY <2>4 DEF Tag, RowKnows
    <3>2. CASE experiment_id[s] \in Tracked
      <4>1. book[s] = [of |-> kaggle_ref[s], says |-> "scored"]
        BY <3>1
      <4>2. Ledger!Show(s, kaggle_ref[s])
        BY <2>4, <3>1, <3>2, <4>1 DEF Tag, Ledger!Show
      <4> QED
        BY <3>1, <4>2 DEF Ledger!Next
    <3>3. CASE experiment_id[s] \notin Tracked
      BY <2>4, <3>3 DEF Tag, Ledger!vars
    <3> QED
      BY <3>2, <3>3
  <2>5. ASSUME NEW k \in Entry, Grade(k) PROVE Ledger!Next
    <3>1. Ledger!Grade(k, "complete") \/ Ledger!Grade(k, "error")
      BY <2>5 DEF Grade, Settled, Ledger!Grade
    <3> QED
      BY <3>1 DEF Ledger!Next
  <2>6. CASE UNCHANGED <<entry, sent, score, status, kaggle_ref>>
    BY <2>6 DEF Ledger!vars
  <2> QED
    BY <2>1, <2>2, <2>3, <2>4, <2>5, <2>6 DEF Next, HandlerStep, vars, Report,
       Complete, Fail, Mark, FinishRun, Schedule, FailRun, RequestFails, Poll,
       PollFails, Restart
<1> QED
  BY SpecHasIInv, <1>1, <1>2, PTL DEF Spec, ImplementsLedger, Ledger!Spec

\* With a client that returns references, a round lists the entry of its row and
\* takes no other one for it: once Kaggle has settled it, the next round does.
THEOREM RoundsFindTheEntry ==
  ClientReturnsRef =>
    (Spec => [](\A s \in Submission :
                  poller[s] # "none" => Matches(s) = {kaggle_ref[s]}))
<1> SUFFICES ASSUME ClientReturnsRef
             PROVE  Spec => [](\A s \in Submission :
                                 poller[s] # "none" => Matches(s) = {kaggle_ref[s]})
  OBVIOUS
<1>1. IInv => \A s \in Submission :
                poller[s] # "none" => Matches(s) = {kaggle_ref[s]}
  BY DEF IInv, Knowledge, RowKnows, Entered, Matches, Listed
<1> QED
  BY SpecHasIInv, <1>1, PTL

\* With a client that returns no references, as KaggleApiClient, no row is ever
\* settled and no run gets a score, whatever Kaggle decides: no PolledUntilScored
\* for any number of entries, rows and rounds.
THEOREM NothingIsSettled ==
  ~ClientReturnsRef =>
    (Spec => []((\A s \in Submission : status[s] \in {"absent", "running"})
                /\ \A e \in Experiment : score[e] = Null))
<1> SUFFICES ASSUME ~ClientReturnsRef
             PROVE  Spec =>
                      []((\A s \in Submission : status[s] \in {"absent", "running"})
                         /\ \A e \in Experiment : score[e] = Null)
  OBVIOUS
<1> DEFINE Empty ==
             \A s \in Submission : status[s] # "absent" => kaggle_ref[s] = EmptyRef
           Nothing ==
             /\ \A s \in Submission : status[s] \in {"absent", "running"}
             /\ \A e \in Experiment : score[e] = Null
<1>1. Init => Empty
  BY DEF Init
<1>2. IInv /\ Empty /\ [Next]_vars => Empty'
  <2> SUFFICES ASSUME IInv, Empty, [Next]_vars PROVE Empty'
    OBVIOUS
  <2> USE DEF IInv, Knowledge, TypeOK
  <2>1. CASE \E r \in Request : Insert(r)
    BY <2>1 DEF Insert, ReturnedRef
  <2>2. CASE \E s \in Submission : Update(s)
    BY <2>2, SubmissionsAssumption DEF SubmissionsAssumption, Update, RowKnows
  <2>3. CASE UNCHANGED <<status, kaggle_ref>>
    BY <2>3
  <2> QED
    BY <2>1, <2>2, <2>3, Zenon DEF Next, HandlerStep, vars, table, Report,
       Complete, Fail, Mark, FinishRun, Submit, Schedule, FailRun, RequestFails,
       Poll, Tag, PollFails, Grade, Restart
<1>3. IInv /\ Empty => Nothing
  <2> SUFFICES ASSUME IInv, Empty PROVE Nothing
    OBVIOUS
  <2>1. \A s \in Submission : status[s] \in {"absent", "running"}
    BY SubmissionsAssumption DEF SubmissionsAssumption, IInv, Knowledge,
       RowKnows
  <2>2. \A e \in Experiment : score[e] = Null
    BY <2>1 DEF IInv, ScoresBelongToTheRun
  <2> QED
    BY <2>1, <2>2
<1> QED
  BY SpecHasIInv, <1>1, <1>2, <1>3, PTL DEF Spec
=============================================================================
