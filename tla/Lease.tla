-------------------------------- MODULE Lease --------------------------------
(***************************************************************************)
(* The clock of the job queue.  A running job is a lease of its worker:    *)
(* the claim starts it, each heartbeat that is committed renews it, and    *)
(* the requeue loop takes the job away when heartbeat_at is older than the *)
(* timeout.  Nobody tells the worker, so that two agents do not run one    *)
(* job is a matter of times only: of how long the claim, the bundle's URL  *)
(* and a heartbeat take, and of how many heartbeats in a row are lost.     *)
(*                                                                         *)
(* JobQueue lets a heartbeat get stale at any time; here, for one job, it  *)
(* gets stale when it does.  A tick is a unit of time; the steps of the    *)
(* program take none, and a tick waits for the steps that are due.         *)
(***************************************************************************)
EXTENDS Naturals

CONSTANTS
  Worker,       \* agent processes
  Id,           \* values of worker_id
  ClaimTime,    \* from the claim's UPDATE to its answer, at most
  UrlTime,      \* for the URL of the bundle, at most
  Interval,     \* worker_heartbeat_interval
  RequestTime,  \* from sending a heartbeat to its answer or failure, at most
  MaxMissed,    \* heartbeats of a worker that fail in a row, at most
  Timeout,      \* worker_heartbeat_timeout_seconds
  SweepPeriod,  \* from one round of the requeue loop to the next, at most
  Null

\* The age of heartbeat_at when the heartbeat task starts to sleep, at most.
SleepAge ==
  IF ClaimTime + UrlTime < RequestTime THEN RequestTime ELSE ClaimTime + UrlTime

\* How much older it gets by m heartbeats that fail.
Room(m) == m * (Interval + RequestTime)

\* How long after an execution its lease lasts, if its last m heartbeats
\* failed and one more was due.
Grace(m) == Timeout - (SleepAge + Room(m + 1))

\* The times leave room for the heartbeats that may be missed and for the one
\* that lands after them.
ASSUME LeaseAssumption ==
  /\ {ClaimTime, UrlTime, Interval, RequestTime, MaxMissed, Timeout, SweepPeriod}
       \subseteq Nat
  /\ SleepAge + Room(MaxMissed + 1) <= Timeout
  /\ Null \notin Worker \cup Id

VARIABLES
  status, worker_id,  \* the row of the job
  holder,             \* history: the agent whose claim set worker_id
  id,                 \* worker_id in the settings of an agent, not always
                      \* its own: the setting has a default
  age,                \* now() - heartbeat_at, while the job is running
  since,              \* the time since the last round of the requeue loop
  pc, timer,          \* the agents: where they are and for how long (not
                      \* counted without a job, nor past the grace)
  missed,             \* the heartbeats of an agent that failed since the last
  late                \* the agents whose failed heartbeat may still land

row == <<status, worker_id, holder>>
agents == <<pc, timer, missed, late>>
vars == <<row, age, since, id, agents>>

\* idle: without the job.  assign, bundle: waiting for the answer.  sleep,
\* beat, landed: the heartbeat task beside the executor.  ending: the task is
\* cancelled, and the log, the outputs and the report are under way.
Holding == {"assign", "bundle", "sleep", "beat", "landed"}

TypeOK ==
  /\ status \in {"queued", "running", "settled"}
  /\ worker_id \in Id \cup {Null}
  /\ holder \in Worker \cup {Null}
  /\ id \in [Worker -> Id]
  /\ age \in 0..(Timeout + SweepPeriod)
  /\ since \in 0..SweepPeriod
  /\ pc \in [Worker -> Holding \cup {"idle", "ending"}]
  /\ timer \in [Worker -> Nat]
  /\ missed \in [Worker -> 0..MaxMissed]
  /\ late \subseteq Worker

Init ==
  /\ status = "queued" /\ worker_id = Null /\ holder = Null
  /\ id \in [Worker -> Id]
  /\ age = 0 /\ since = 0
  /\ pc = [w \in Worker |-> "idle"]
  /\ timer = [w \in Worker |-> 0]
  /\ missed = [w \in Worker |-> 0]
  /\ late = {}

\* The agent goes on to stage s.
Enter(w, s) ==
  /\ pc' = [pc EXCEPT ![w] = s]
  /\ timer' = [timer EXCEPT ![w] = 0]

-----------------------------------------------------------------------------
\* The claim's UPDATE sets heartbeat_at to now().
Claim(w) ==
  /\ pc[w] = "idle"
  /\ status = "queued"
  /\ status' = "running" /\ worker_id' = id[w] /\ holder' = w /\ age' = 0
  /\ Enter(w, "assign")
  /\ missed' = [missed EXCEPT ![w] = 0]
  /\ UNCHANGED <<since, late, id>>

ClaimReply(w) ==
  /\ pc[w] = "assign"
  /\ Enter(w, "bundle")
  /\ UNCHANGED <<row, age, since, missed, late, id>>

\* The client's timeout comes before the assignment, or the answer is lost.
GiveUp(w) ==
  /\ pc[w] = "assign"
  /\ Enter(w, "idle")
  /\ UNCHANGED <<row, age, since, missed, late, id>>

\* With the URL the executor and the heartbeat task start; the loop sleeps
\* first.  Without it the agent reports a failure.
FetchBundle(w) ==
  /\ pc[w] = "bundle"
  /\ \E s \in {"sleep", "ending"} : Enter(w, s)
  /\ UNCHANGED <<row, age, since, missed, late, id>>

Beat(w) ==
  /\ pc[w] = "sleep" /\ timer[w] = Interval
  /\ Enter(w, "beat")
  /\ UNCHANGED <<row, age, since, missed, late, id>>

\* Defective: the UPDATE is not committed.
LandUncommitted(w) ==
  /\ pc[w] = "beat"
  /\ pc' = [pc EXCEPT ![w] = "landed"]
  /\ missed' = [missed EXCEPT ![w] = 0]
  /\ UNCHANGED <<row, age, since, timer, late, id>>

\* UPDATE ... WHERE id AND worker_id, as of the age of the row.
Renewed(w) == IF worker_id = id[w] THEN 0 ELSE age

Land(w) ==
  /\ pc[w] = "beat"
  /\ age' = Renewed(w)
  /\ pc' = [pc EXCEPT ![w] = "landed"]
  /\ missed' = [missed EXCEPT ![w] = 0]
  /\ UNCHANGED <<row, since, timer, late, id>>

\* The answer arrives, or does not: the loop sleeps again.
Answer(w) ==
  /\ pc[w] = "landed"
  /\ Enter(w, "sleep")
  /\ UNCHANGED <<row, age, since, missed, late, id>>

\* The handler of a heartbeat that w stops to wait for may go on.
Abandon(w) ==
  late' \in IF pc[w] = "beat" THEN {late, late \cup {w}} ELSE {late}

\* The heartbeat raises before it landed; its handler may still be running.
Miss(w) ==
  /\ pc[w] = "beat" /\ missed[w] < MaxMissed
  /\ Enter(w, "sleep")
  /\ missed' = [missed EXCEPT ![w] = @ + 1]
  /\ Abandon(w)
  /\ UNCHANGED <<row, age, since, id>>

LandLate(w) ==
  /\ w \in late
  /\ age' = Renewed(w)
  /\ late' = late \ {w}
  /\ UNCHANGED <<row, since, pc, timer, missed, id>>

\* The executor is over and the heartbeat task is cancelled, whatever its
\* request has come to.
Finish(w) ==
  /\ pc[w] \in {"sleep", "beat", "landed"}
  /\ Enter(w, "ending")
  /\ Abandon(w)
  /\ UNCHANGED <<row, age, since, missed, id>>

\* The report is committed: mark_succeeded and mark_failed look at the id
\* alone, so it counts although the job may be somebody else's by now.
Report(w) ==
  /\ pc[w] = "ending"
  /\ status' = "settled"
  /\ Enter(w, "idle")
  /\ UNCHANGED <<worker_id, holder, age, since, missed, late, id>>

\* The process stops, or the report raises and ends it.
Die(w) ==
  /\ pc[w] # "idle"
  /\ Enter(w, "idle")
  /\ Abandon(w)
  /\ UNCHANGED <<row, age, since, missed, id>>

\* Defective: the interval is granted on top of the timeout.
StaleAfterGrace == age > Timeout + Interval

\* Defective: three intervals without a heartbeat are enough.
StaleAfterThreeBeats == age > 3 * Interval

\* heartbeat_at < now() - the timeout
Stale == age > Timeout

Sweep ==
  /\ IF status = "running" /\ Stale
     THEN status' = "queued" /\ worker_id' = Null /\ holder' = Null
     ELSE UNCHANGED row
  /\ since' = 0
  /\ UNCHANGED <<age, id, agents>>

-----------------------------------------------------------------------------
\* How long an agent stays where it is, if it may not stay for ever.
Limit == [assign |-> ClaimTime, bundle |-> UrlTime, sleep |-> Interval,
          beat |-> RequestTime, landed |-> RequestTime]

\* The agents whose time counts.
Timed ==
  {w \in Worker : \/ pc[w] \in Holding
                  \/ pc[w] = "ending" /\ timer[w] <= Grace(missed[w])}

\* Time passes; nothing is due.
Tick ==
  /\ since < SweepPeriod
  /\ \A w \in Worker : pc[w] \in Holding => timer[w] < Limit[pc[w]]
  /\ since' = since + 1
  /\ age' = IF status = "running" THEN age + 1 ELSE age
  /\ timer' = [w \in Worker |->
                 IF w \in Timed THEN timer[w] + 1 ELSE timer[w]]
  /\ UNCHANGED <<row, pc, missed, late, id>>

Next ==
  \/ \E w \in Worker :
       \/ Claim(w) \/ ClaimReply(w) \/ GiveUp(w) \/ FetchBundle(w) \/ Beat(w)
       \/ Land(w) \/ Answer(w) \/ Miss(w) \/ LandLate(w) \/ Finish(w)
       \/ Report(w) \/ Die(w)
  \/ Sweep
  \/ Tick

Spec == Init /\ [][Next]_vars

-----------------------------------------------------------------------------
(* Properties.                                                             *)

\* No two agents run the job at a time, whoever dies, gives up or reports
\* late, though up to MaxMissed heartbeats of either are lost in a row.
OneHolder ==
  \A v, w \in Worker : pc[v] \in Holding /\ pc[w] \in Holding => v = w

\* Nobody waits for an abandoned job longer than the timeout and a round of
\* the requeue loop after its last heartbeat.
RecoveredInTime == status = "running" => age <= Timeout + since

\* Nothing renews the lease after the execution: the last lines of the log, the
\* uploads and the report come without heartbeats.  Within the grace the job
\* is still the agent's, so that what it reports is its own.
EndingIsCovered ==
  \A w \in Worker :
    pc[w] = "ending" /\ timer[w] <= Grace(missed[w]) =>
      \/ status = "settled"
      \/ /\ status = "running" /\ holder = w /\ worker_id = id[w]
         /\ age <= SleepAge + Room(missed[w] + 1) + timer[w]

\* Lemma of all: an agent that runs the job has the lease, and the next
\* heartbeat lands before it runs out.
LeaseCovers(w) ==
  /\ pc[w] = "assign" => age <= timer[w]
  /\ pc[w] = "bundle" => age <= ClaimTime + timer[w]
  /\ pc[w] = "sleep" => age <= SleepAge + Room(missed[w]) + timer[w]
  /\ pc[w] = "beat" => age <= SleepAge + Room(missed[w]) + Interval + timer[w]
  /\ pc[w] = "landed" => age <= timer[w]
  /\ timer[w] <= Limit[pc[w]]

HoldersHaveTheLease ==
  \A w \in Worker : pc[w] \in Holding =>
    \/ status = "settled"
    \/ /\ status = "running" /\ holder = w /\ worker_id = id[w]
       /\ LeaseCovers(w)
=============================================================================
