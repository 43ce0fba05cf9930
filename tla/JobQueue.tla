------------------------------ MODULE JobQueue ------------------------------
(***************************************************************************)
(* The job queue of the gateway: the Postgres table `jobs`, the HTTP       *)
(* handlers of the worker protocol that read and write it (claim,          *)
(* heartbeat, report), the sweeper that requeues stale jobs, and the main  *)
(* loop of the worker agents on the other end of the protocol.             *)
(*                                                                         *)
(* Every SQL statement of PostgresJobRepository is one transaction.  The   *)
(* claim is the only one whose effect is seen by the others before it      *)
(* commits (FOR UPDATE SKIP LOCKED), so it takes two steps here: select    *)
(* and lock the row, then commit.  The other statements take one step and  *)
(* wait while the row they address is locked.                              *)
(***************************************************************************)
EXTENDS Naturals

CONSTANTS
  Job,          \* rows that may ever be inserted in the table
  Worker,       \* worker ids
  Request,      \* slots for HTTP requests the gateway is handling at a time
  Feature,      \* "gpu" and the labels of the pool
  Requires,     \* Requires[j]: what j's manifest asks for, jobs.requires
  CreatedAt,    \* CreatedAt[j]: jobs.created_at, set by the gateway process
  CancelRouted, \* whether something calls ExperimentService.cancel
  Null

ASSUME QueueAssumption ==
  /\ Requires \in [Job -> SUBSET Feature]
  /\ CreatedAt \in [Job -> Nat]
  /\ CancelRouted \in BOOLEAN
  /\ Null \notin Job \cup Worker

VARIABLES
  \* the table; started_at is null exactly when worker_id is
  status, worker_id, heartbeat_at,
  \* the handlers running in the gateway
  req,
  \* the agents: where each one is in Agent.run, its assignment, its settings
  pc, task, caps,
  \* history: the grants <<job, worker>> that claims have committed
  granted

table == <<status, worker_id, heartbeat_at, granted>>
agents == <<pc, task, caps>>
vars == <<table, req, agents>>

Terminal == {"succeeded", "failed", "cancelled"}
Status == {"absent", "queued", "running"} \cup Terminal

\* What a handler does next.  A claim goes claim_next, update, assign; a
\* report goes complete or fail, then finish.
ClaimSteps == {"claim_next", "update", "assign"}
ReportSteps == {"complete", "fail", "finish"}
Step == ClaimSteps \cup ReportSteps \cup {"free", "heartbeat"}

\* Where an agent is: claim is the top of the loop, uploading and failing
\* are between the end of the container and the report.
AgentPc == {"down", "claim", "claiming", "bundle", "executing",
            "uploading", "failing", "reporting"}

\* A handler: `worker` and `caps` come from the request, `open` is whether
\* the client still waits for the response.
Handler == [at: Step, worker: Worker \cup {Null}, caps: SUBSET Feature,
            job: Job \cup {Null}, open: BOOLEAN]

NoRequest ==
  [at |-> "free", worker |-> Null, caps |-> {}, job |-> Null, open |-> FALSE]

\* A claim has no job until its UPDATE returns one; the heartbeat task is the
\* client that never acts on a response.
WellFormed(h) ==
  /\ h.at = "free" <=> h.worker = Null
  /\ h.at \in {"free", "claim_next"} <=> h.job = Null
  /\ h.open => h.at \in ClaimSteps \cup ReportSteps

Idle == {"down", "claim", "claiming"}

TypeOK ==
  /\ status \in [Job -> Status]
  /\ worker_id \in [Job -> Worker \cup {Null}]
  /\ heartbeat_at \in [Job -> {"null", "fresh", "stale"}]
  /\ req \in [Request -> Handler]
  /\ \A r \in Request : WellFormed(req[r])
  /\ pc \in [Worker -> AgentPc]
  /\ task \in [Worker -> Job \cup {Null}]
  /\ \A w \in Worker : task[w] = Null <=> pc[w] \in Idle
  /\ caps \in [Worker -> SUBSET Feature]
  /\ granted \subseteq Job \X Worker

Init ==
  /\ status = [j \in Job |-> "absent"]
  /\ worker_id = [j \in Job |-> Null]
  /\ heartbeat_at = [j \in Job |-> "null"]
  /\ req = [r \in Request |-> NoRequest]
  /\ pc = [w \in Worker |-> "down"]
  /\ task = [w \in Worker |-> Null]
  /\ caps = [w \in Worker |-> {}]
  /\ granted = {}

-----------------------------------------------------------------------------
(* The agent's side of the protocol.                                       *)

\* The worker process starts with the capabilities of its settings and
\* registers them; when registration raises, it is still down.
Start(w) ==
  /\ pc[w] = "down"
  /\ \E c \in SUBSET Feature : caps' = [caps EXCEPT ![w] = c]
  /\ pc' = [pc EXCEPT ![w] = "claim"]
  /\ UNCHANGED <<table, req, task>>

\* Opens a request in a free slot.
Send(at, w, j, open) ==
  \E r \in Request :
    /\ req[r].at = "free"
    /\ req' = [req EXCEPT ![r] = [at |-> at, worker |-> w, caps |-> caps[w],
                                  job |-> j, open |-> open]]

\* POST /workers/claim.
Claim(w) ==
  /\ pc[w] = "claim"
  /\ Send("claim_next", w, Null, TRUE)
  /\ pc' = [pc EXCEPT ![w] = "claiming"]
  /\ UNCHANGED <<table, task, caps>>

\* Defective: without the URL the agent goes on to its next claim.
FetchBundleWithoutReport(w) ==
  /\ pc[w] = "bundle"
  /\ \/ pc' = [pc EXCEPT ![w] = "executing"] /\ UNCHANGED task
     \/ pc' = [pc EXCEPT ![w] = "claim"] /\ task' = [task EXCEPT ![w] = Null]
  /\ UNCHANGED <<table, req, caps>>

\* The presigned URL of the bundle; when that raises, the agent reports the
\* job as failed without running it.
FetchBundle(w) ==
  /\ pc[w] = "bundle"
  /\ \E next \in {"executing", "failing"} : pc' = [pc EXCEPT ![w] = next]
  /\ UNCHANGED <<table, req, task, caps>>

\* One round of the heartbeat task.  Its outcome does not reach the agent.
Heartbeat(w) ==
  /\ pc[w] = "executing"
  /\ \A r \in Request : ~(req[r].at = "heartbeat" /\ req[r].worker = w)
  /\ Send("heartbeat", w, task[w], FALSE)
  /\ UNCHANGED <<table, agents>>

\* The container exits or the executor raises.  The heartbeat task is
\* cancelled here, before the log is drained and the artifacts uploaded.
Finish(w) ==
  /\ pc[w] = "executing"
  /\ \E next \in {"uploading", "failing"} : pc' = [pc EXCEPT ![w] = next]
  /\ UNCHANGED <<table, req, task, caps>>

\* POST /workers/jobs/{id}/report, with the outcome of the execution.
Report(w) ==
  /\ \/ pc[w] = "uploading" /\ Send("complete", w, task[w], TRUE)
     \/ pc[w] = "failing" /\ Send("fail", w, task[w], TRUE)
  /\ pc' = [pc EXCEPT ![w] = "reporting"]
  /\ UNCHANGED <<table, task, caps>>

\* Defective: a restarted process still takes itself to hold the old job.
DieKeepingTask(w) ==
  /\ pc[w] # "down"
  /\ pc' = [pc EXCEPT ![w] = "down"]
  /\ req' = [r \in Request |->
               IF req[r].worker = w THEN [req[r] EXCEPT !.open = FALSE]
                                    ELSE req[r]]
  /\ UNCHANGED <<table, task, caps>>

\* Defective: the answer to the old process reaches the restarted one.
DieLeavingRequestsOpen(w) ==
  /\ pc[w] # "down"
  /\ pc' = [pc EXCEPT ![w] = "down"]
  /\ task' = [task EXCEPT ![w] = Null]
  /\ UNCHANGED <<table, req, caps>>

\* The worker process or its machine stops.  The gateway does not cancel the
\* handlers of a client that is gone.
Die(w) ==
  /\ pc[w] # "down"
  /\ pc' = [pc EXCEPT ![w] = "down"]
  /\ task' = [task EXCEPT ![w] = Null]
  /\ req' = [r \in Request |->
               IF req[r].worker = w THEN [req[r] EXCEPT !.open = FALSE]
                                    ELSE req[r]]
  /\ UNCHANGED <<table, caps>>

\* What the agent does when its request r raises: a claim is tried again; an
\* exception from a report leaves Agent.run and ends the process.
Raise(r) ==
  IF ~req[r].open
  THEN UNCHANGED <<pc, task>>
  ELSE IF req[r].at \in ClaimSteps
  THEN /\ pc' = [pc EXCEPT ![req[r].worker] = "claim"]
       /\ UNCHANGED task
  ELSE /\ pc' = [pc EXCEPT ![req[r].worker] = "down"]
       /\ task' = [task EXCEPT ![req[r].worker] = Null]

\* Defective: an answer that comes after the timeout is still taken.
GiveUpListening(r) ==
  /\ req[r].open
  /\ Raise(r)
  /\ UNCHANGED <<table, req, caps>>

\* The client's timeout expires while the handler goes on.
GiveUp(r) ==
  /\ req[r].open
  /\ req' = [req EXCEPT ![r].open = FALSE]
  /\ Raise(r)
  /\ UNCHANGED <<table, caps>>

-----------------------------------------------------------------------------
(* The gateway's side.                                                     *)

\* The request is lost, the handler raises, the response is lost, or the
\* gateway stops: an uncommitted claim is rolled back and releases its row.
RequestFails(r) ==
  /\ req[r].at # "free"
  /\ req' = [req EXCEPT ![r] = NoRequest]
  /\ Raise(r)
  /\ UNCHANGED <<table, caps>>

Locked(j) == \E r \in Request : req[r].at = "update" /\ req[r].job = j

\* Defective: the SELECT does not skip locked rows, nor wait for them.
ClaimableOrLocked(c) ==
  {j \in Job : status[j] = "queued" /\ Requires[j] \subseteq c}

\* The rows the claim's SELECT returns to a worker with capabilities c.
Claimable(c) ==
  {j \in Job : status[j] = "queued" /\ Requires[j] \subseteq c /\ ~Locked(j)}

\* ORDER BY created_at LIMIT 1; no code sets a priority.
Oldest(S) == {j \in S : \A k \in S : CreatedAt[j] <= CreatedAt[k]}

\* claim_next executes its UPDATE: a row is locked, nobody sees it changed.
ClaimUpdate(r) ==
  /\ req[r].at = "claim_next"
  /\ \E j \in Oldest(Claimable(req[r].caps)) :
       req' = [req EXCEPT ![r] = [@ EXCEPT !.at = "update", !.job = j]]
  /\ UNCHANGED <<table, agents>>

\* Defective: the claim does not set heartbeat_at.
ClaimCommitWithoutHeartbeat(r) ==
  /\ req[r].at = "update"
  /\ LET j == req[r].job
         w == req[r].worker
     IN /\ status' = [status EXCEPT ![j] = "running"]
        /\ worker_id' = [worker_id EXCEPT ![j] = w]
        /\ granted' = granted \cup {<<j, w>>}
  /\ req' = [req EXCEPT ![r].at = "assign"]
  /\ UNCHANGED <<heartbeat_at, agents>>

\* claim_next commits.
ClaimCommit(r) ==
  /\ req[r].at = "update"
  /\ LET j == req[r].job
         w == req[r].worker
     IN /\ status' = [status EXCEPT ![j] = "running"]
        /\ worker_id' = [worker_id EXCEPT ![j] = w]
        /\ heartbeat_at' = [heartbeat_at EXCEPT ![j] = "fresh"]
        /\ granted' = granted \cup {<<j, w>>}
  /\ req' = [req EXCEPT ![r].at = "assign"]
  /\ UNCHANGED agents

\* The long poll ends with nothing to claim.
ClaimEmpty(r) ==
  /\ req[r].at = "claim_next"
  /\ Claimable(req[r].caps) = {}
  /\ req' = [req EXCEPT ![r] = NoRequest]
  /\ pc' = IF req[r].open THEN [pc EXCEPT ![req[r].worker] = "claim"] ELSE pc
  /\ UNCHANGED <<table, task, caps>>

\* Defective: the assignment may be sent before the claim commits.
ClaimReplyBeforeCommit(r) ==
  /\ req[r].at \in {"update", "assign"}
  /\ req' = [req EXCEPT ![r] = NoRequest]
  /\ IF req[r].open
     THEN /\ pc' = [pc EXCEPT ![req[r].worker] = "bundle"]
          /\ task' = [task EXCEPT ![req[r].worker] = req[r].job]
     ELSE UNCHANGED <<pc, task>>
  /\ UNCHANGED <<table, caps>>

\* The JobAssignment reaches the worker, if it still waits for it.
ClaimReply(r) ==
  /\ req[r].at = "assign"
  /\ req' = [req EXCEPT ![r] = NoRequest]
  /\ IF req[r].open
     THEN /\ pc' = [pc EXCEPT ![req[r].worker] = "bundle"]
          /\ task' = [task EXCEPT ![req[r].worker] = req[r].job]
     ELSE UNCHANGED <<pc, task>>
  /\ UNCHANGED <<table, caps>>

\* Defective: UPDATE ... WHERE id, as mark_succeeded and mark_failed have it.
HeartbeatUpdateByAnyone(r) ==
  /\ req[r].at = "heartbeat"
  /\ heartbeat_at' = IF worker_id[req[r].job] # Null
                     THEN [heartbeat_at EXCEPT ![req[r].job] = "fresh"]
                     ELSE heartbeat_at
  /\ req' = [req EXCEPT ![r] = NoRequest]
  /\ UNCHANGED <<status, worker_id, granted, agents>>

\* UPDATE ... WHERE id AND worker_id, whatever the status.
HeartbeatUpdate(r) ==
  /\ req[r].at = "heartbeat"
  /\ heartbeat_at' = IF worker_id[req[r].job] = req[r].worker
                     THEN [heartbeat_at EXCEPT ![req[r].job] = "fresh"]
                     ELSE heartbeat_at
  /\ req' = [req EXCEPT ![r] = NoRequest]
  /\ UNCHANGED <<status, worker_id, granted, agents>>

\* mark_succeeded and mark_failed address the row by id alone.
Mark(r, at, s) ==
  /\ req[r].at = at
  /\ ~Locked(req[r].job)
  /\ status' = [status EXCEPT ![req[r].job] = s]
  /\ req' = [req EXCEPT ![r].at = "finish"]
  /\ UNCHANGED <<worker_id, heartbeat_at, granted, agents>>

MarkSucceeded(r) == Mark(r, "complete", "succeeded")
MarkFailed(r) == Mark(r, "fail", "failed")

\* The report handler is through with the tracker and the submission.
ReportReply(r) ==
  /\ req[r].at = "finish"
  /\ req' = [req EXCEPT ![r] = NoRequest]
  /\ IF req[r].open
     THEN /\ pc' = [pc EXCEPT ![req[r].worker] = "claim"]
          /\ task' = [task EXCEPT ![req[r].worker] = Null]
     ELSE UNCHANGED <<pc, task>>
  /\ UNCHANGED <<table, caps>>

\* The last heartbeat of a running job becomes older than the timeout.
Age(j) ==
  /\ status[j] = "running"
  /\ heartbeat_at[j] = "fresh"
  /\ heartbeat_at' = [heartbeat_at EXCEPT ![j] = "stale"]
  /\ UNCHANGED <<status, worker_id, granted, req, agents>>

\* Defective: the sweep does not ask for status = 'running'.
SweepOfAnyStatus ==
  LET Stale == {j \in Job : heartbeat_at[j] = "stale"}
  IN /\ Stale # {}
     /\ status' = [j \in Job |-> IF j \in Stale THEN "queued" ELSE status[j]]
     /\ worker_id' = [j \in Job |-> IF j \in Stale THEN Null ELSE worker_id[j]]
     /\ heartbeat_at' =
          [j \in Job |-> IF j \in Stale THEN "null" ELSE heartbeat_at[j]]
     /\ UNCHANGED <<granted, req, agents>>

\* One UPDATE of the requeue loop, over every stale row at once.
Sweep ==
  LET Stale == {j \in Job : status[j] = "running" /\ heartbeat_at[j] = "stale"}
  IN /\ Stale # {}
     /\ status' = [j \in Job |-> IF j \in Stale THEN "queued" ELSE status[j]]
     /\ worker_id' = [j \in Job |-> IF j \in Stale THEN Null ELSE worker_id[j]]
     /\ heartbeat_at' =
          [j \in Job |-> IF j \in Stale THEN "null" ELSE heartbeat_at[j]]
     /\ UNCHANGED <<granted, req, agents>>

\* ExperimentService.submit inserts the job of an experiment.
Enqueue(j) ==
  /\ status[j] = "absent"
  /\ status' = [status EXCEPT ![j] = "queued"]
  /\ UNCHANGED <<worker_id, heartbeat_at, granted, req, agents>>

\* ExperimentService.cancel; an experiment has one job.
Cancel(j) ==
  /\ CancelRouted
  /\ status[j] \in {"queued", "running"}
  /\ ~Locked(j)
  /\ status' = [status EXCEPT ![j] = "cancelled"]
  /\ UNCHANGED <<worker_id, heartbeat_at, granted, req, agents>>

-----------------------------------------------------------------------------
AgentStep(w) ==
  \/ Claim(w) \/ FetchBundle(w) \/ Heartbeat(w) \/ Report(w)

HandlerStep(r) ==
  \/ ClaimUpdate(r) \/ ClaimCommit(r) \/ ClaimEmpty(r) \/ ClaimReply(r)
  \/ HeartbeatUpdate(r) \/ MarkSucceeded(r) \/ MarkFailed(r) \/ ReportReply(r)

\* Steps of the program, of its users and of the clock.
Work ==
  \/ \E w \in Worker : Start(w) \/ AgentStep(w) \/ Finish(w)
  \/ \E r \in Request : HandlerStep(r)
  \/ \E j \in Job : Enqueue(j) \/ Cancel(j) \/ Age(j)
  \/ Sweep

\* Crashes, lost requests and responses, client timeouts.
Fault ==
  \/ \E w \in Worker : Die(w)
  \/ \E r \in Request : GiveUp(r) \/ RequestFails(r)

Next == Work \/ Fault

Spec == Init /\ [][Next]_vars

\* The sweeper runs every 30 seconds for as long as the gateway is up, and a
\* heartbeat that nobody renews gets older than the timeout.
SweepFairness ==
  /\ WF_vars(Sweep)
  /\ \A j \in Job : WF_vars(Age(j))

SweepSpec == Spec /\ SweepFairness

\* Agents and handlers go on, and scripts end.  Strong fairness where there is
\* contention: for a free slot, which only the model runs out of, and for a
\* row, whose lock Postgres gives to the statement that waits for it.
ServiceFairness ==
  /\ \A w \in Worker :
       /\ WF_vars(FetchBundle(w)) /\ WF_vars(Finish(w))
       /\ SF_vars(Claim(w) \/ Report(w))
  /\ \A r \in Request : SF_vars(HandlerStep(r))

-----------------------------------------------------------------------------
(* Properties.                                                             *)

\* A running row names its worker and has a heartbeat, a queued row has
\* neither.  The sweeper's WHERE is never true of a NULL heartbeat, so a
\* running row without one would stay running for good.
RowShape ==
  \A j \in Job :
    /\ status[j] = "running" => worker_id[j] # Null /\ heartbeat_at[j] # "null"
    /\ status[j] \in {"absent", "queued"} =>
         worker_id[j] = Null /\ heartbeat_at[j] = "null"

\* No two claims hold the same row, and no statement changes a row between
\* a claim's select and its commit.
LockedRowIsQueued ==
  \A r \in Request : req[r].at = "update" =>
    /\ status[req[r].job] = "queued"
    /\ \A q \in Request : req[q].at = "update" /\ req[q].job = req[r].job => q = r

\* An agent waits for one response at most, the one for the request it is in,
\* whatever handlers of its earlier requests or earlier lives are still
\* running: nobody else's answer is ever taken for it.
OneConversation ==
  \A r \in Request : req[r].open =>
    /\ req[r].at \in ClaimSteps =>
         pc[req[r].worker] = "claiming" /\ req[r].caps = caps[req[r].worker]
    /\ req[r].at \in ReportSteps =>
         pc[req[r].worker] = "reporting" /\ req[r].job = task[req[r].worker]
    /\ \A q \in Request :
         req[q].open /\ req[q].worker = req[r].worker => q = r

\* Only a worker that a committed claim named ever holds a job or settles it:
\* a late, repeated or misdirected report or assignment never makes a result
\* out of nothing.
HoldersWereGranted ==
  \A w \in Worker : task[w] # Null => <<task[w], w>> \in granted

HandlersActForGrantees ==
  \A r \in Request :
    req[r].at \in ReportSteps \cup {"assign", "heartbeat"} =>
      <<req[r].job, req[r].worker>> \in granted

ResultsAreOfGrantees ==
  \A j \in Job : status[j] \in {"succeeded", "failed"} =>
    \E w \in Worker : <<j, w>> \in granted

OnlyGranteesReport ==
  HoldersWereGranted /\ HandlersActForGrantees /\ ResultsAreOfGrantees

\* An agent holds a job only if the capabilities it runs with now cover it,
\* although the claim was decided for the capabilities of the request and
\* the process may have been restarted with others since.
HoldsOnlyWhatItCanRun ==
  /\ \A w \in Worker : task[w] # Null => Requires[task[w]] \subseteq caps[w]
  /\ \A r \in Request : req[r].at \in {"update", "assign"} =>
       Requires[req[r].job] \subseteq req[r].caps

\* A running job gets another worker only by way of the queue: two claims
\* never take the same row.
OwnerChangesThroughQueue ==
  [][\A j \in Job : status[j] = "running" /\ status'[j] = "running" =>
       worker_id'[j] = worker_id[j]]_vars

\* A job that was reported or cancelled is never queued or claimed again.
FinishedStaysFinished ==
  [][\A j \in Job : status[j] \in Terminal => status'[j] \in Terminal]_vars

\* A running job that its worker does not hold, because the worker died,
\* gave up or never got the assignment, is taken from it by the sweeper or
\* the worker gets it after all.
LeftBehind(j) == status[j] = "running" /\ task[worker_id[j]] # j

LeftBehindIsRequeued == \A j \in Job : LeftBehind(j) ~> ~LeftBehind(j)

\* Nothing gets stuck for good: when crashes, lost answers and timeouts come to
\* an end and a worker that can run the job stays up, a queued job is settled,
\* whatever the faults before that have left behind and however often it was
\* claimed for nobody, requeued, and run twice.
FaultsEnd == <>[][Work]_vars

SomeWorkerCan(j) ==
  \E w \in Worker : pc[w] # "down" /\ Requires[j] \subseteq caps[w]

EveryJobSettles ==
  ServiceFairness /\ FaultsEnd =>
    \A j \in Job : <>[]SomeWorkerCan(j) =>
      (status[j] = "queued" ~> status[j] \in Terminal)

\* The queue is a board: whatever requests, agents and heartbeats do, the
\* table changes only by posting, granting a queued job to one worker, taking
\* running jobs back, withdrawing, and settling on behalf of a grantee.
Board == INSTANCE JobBoard WITH owner <- worker_id
ImplementsBoard == Board!Spec

\* docs/implementation.md calls the report of a worker the terminal report
\* of the job: once a job is reported, its outcome does not change.
ReportIsTerminal ==
  [][\A j \in Job : status[j] \in {"succeeded", "failed"} =>
       status'[j] = status[j]]_vars
=============================================================================
