--------------------------- MODULE JobQueueProofs ---------------------------
(***************************************************************************)
(* The safety properties of JobQueue, and that it implements JobBoard, for *)
(* every value of the constants.                                           *)
(*                                                                         *)
(* IInv, the conjunction of the invariants, is inductive.  None of them is *)
(* without the others: an agent holds only what it was granted because the *)
(* answer it takes is its own; its capabilities suffice because an open    *)
(* request carries those it has now; and a claim commits a queued row      *)
(* because the other statements look at its status or wait for its lock.   *)
(*                                                                         *)
(* The lemmas ...KeepsIInv take the actions in groups, one step for each   *)
(* action, and under it one for each conjunct the action can disturb and   *)
(* one for those it cannot.                                                *)
(***************************************************************************)
EXTENDS JobQueue, TLAPS

\* The inductive invariant.
IInv ==
  /\ TypeOK
  /\ RowShape
  /\ LockedRowIsQueued
  /\ OneConversation
  /\ OnlyGranteesReport
  /\ HoldsOnlyWhatItCanRun

-----------------------------------------------------------------------------
(* Every action keeps IInv.                                                *)

\* Agent.run: what the agent does on its own, dying included, leaves the
\* table alone and opens at most one request, for the job it was granted.
LEMMA AgentKeepsIInv ==
  ASSUME IInv, NEW w \in Worker,
         \/ Start(w)
         \/ Claim(w)
         \/ FetchBundle(w)
         \/ Heartbeat(w)
         \/ Finish(w)
         \/ Report(w)
         \/ Die(w)
  PROVE  IInv'
<1>1. CASE Start(w)
  <2>1. TypeOK'
    BY <1>1, QueueAssumption
    DEF IInv, TypeOK, AgentPc, Idle, Start, table
  <2>2. OneConversation'
    BY <1>1
    DEF IInv, OneConversation, Start
  <2>3. HoldsOnlyWhatItCanRun'
    BY <1>1, QueueAssumption
    DEF IInv, HoldsOnlyWhatItCanRun, TypeOK, Start, Idle
  <2>4. /\ RowShape'
        /\ LockedRowIsQueued'
        /\ HoldersWereGranted'
        /\ HandlersActForGrantees'
        /\ ResultsAreOfGrantees'
    BY <1>1
    DEF IInv, OnlyGranteesReport, RowShape, LockedRowIsQueued,
        HoldersWereGranted, HandlersActForGrantees, ResultsAreOfGrantees,
        Start, table
  <2> QED
    BY <2>1, <2>2, <2>3, <2>4 DEF IInv, OnlyGranteesReport
<1>2. CASE Claim(w)
  <2>1. TypeOK'
    BY <1>2, QueueAssumption
    DEF IInv, TypeOK, Handler, WellFormed, Step, ClaimSteps, AgentPc, Idle,
        Claim, Send, table
  <2>2. LockedRowIsQueued'
    BY <1>2
    DEF IInv, LockedRowIsQueued, Claim, Send, table
  <2>3. OneConversation'
    BY <1>2
    DEF IInv, OneConversation, TypeOK, WellFormed, ReportSteps, Claim, Send
  <2>4. HandlersActForGrantees'
    BY <1>2
    DEF IInv, OnlyGranteesReport, HandlersActForGrantees, ReportSteps, Claim,
        Send, table
  <2>5. HoldsOnlyWhatItCanRun'
    BY <1>2, QueueAssumption
    DEF IInv, HoldsOnlyWhatItCanRun, Claim, Send
  <2>6. RowShape' /\ HoldersWereGranted' /\ ResultsAreOfGrantees'
    BY <1>2
    DEF IInv, OnlyGranteesReport, RowShape, HoldersWereGranted,
        ResultsAreOfGrantees, Claim, table
  <2> QED
    BY <2>1, <2>2, <2>3, <2>4, <2>5, <2>6 DEF IInv, OnlyGranteesReport
<1>3. CASE FetchBundle(w)
  <2>1. TypeOK'
    BY <1>3, QueueAssumption
    DEF IInv, TypeOK, AgentPc, Idle, FetchBundle, table
  <2>2. OneConversation'
    BY <1>3
    DEF IInv, OneConversation, FetchBundle
  <2>3. /\ RowShape'
        /\ LockedRowIsQueued'
        /\ HoldersWereGranted'
        /\ HandlersActForGrantees'
        /\ ResultsAreOfGrantees'
        /\ HoldsOnlyWhatItCanRun'
    BY <1>3
    DEF IInv, OnlyGranteesReport, RowShape, LockedRowIsQueued,
        HoldersWereGranted, HandlersActForGrantees, ResultsAreOfGrantees,
        HoldsOnlyWhatItCanRun, FetchBundle, table
  <2> QED
    BY <2>1, <2>2, <2>3 DEF IInv, OnlyGranteesReport
<1>4. CASE Heartbeat(w)
  <2>1. TypeOK'
    BY <1>4, QueueAssumption
    DEF IInv, TypeOK, Handler, WellFormed, Step, Idle, Heartbeat, Send, table,
        agents
  <2>2. LockedRowIsQueued'
    BY <1>4
    DEF IInv, LockedRowIsQueued, Heartbeat, Send, table
  <2>3. OneConversation'
    BY <1>4
    DEF IInv, OneConversation, Heartbeat, Send, agents
  <2>4. HandlersActForGrantees'
    BY <1>4
    DEF IInv, OnlyGranteesReport, HandlersActForGrantees, TypeOK,
        HoldersWereGranted, Heartbeat, Send, table, Idle
  <2>5. HoldsOnlyWhatItCanRun'
    BY <1>4, QueueAssumption
    DEF IInv, HoldsOnlyWhatItCanRun, Heartbeat, Send, agents
  <2>6. RowShape' /\ HoldersWereGranted' /\ ResultsAreOfGrantees'
    BY <1>4
    DEF IInv, OnlyGranteesReport, RowShape, HoldersWereGranted,
        ResultsAreOfGrantees, Heartbeat, table, agents
  <2> QED
    BY <2>1, <2>2, <2>3, <2>4, <2>5, <2>6 DEF IInv, OnlyGranteesReport
<1>5. CASE Finish(w)
  <2>1. TypeOK'
    BY <1>5, QueueAssumption
    DEF IInv, TypeOK, AgentPc, Idle, Finish, table
  <2>2. OneConversation'
    BY <1>5
    DEF IInv, OneConversation, Finish
  <2>3. /\ RowShape'
        /\ LockedRowIsQueued'
        /\ HoldersWereGranted'
        /\ HandlersActForGrantees'
        /\ ResultsAreOfGrantees'
        /\ HoldsOnlyWhatItCanRun'
    BY <1>5
    DEF IInv, OnlyGranteesReport, RowShape, LockedRowIsQueued,
        HoldersWereGranted, HandlersActForGrantees, ResultsAreOfGrantees,
        HoldsOnlyWhatItCanRun, Finish, table
  <2> QED
    BY <2>1, <2>2, <2>3 DEF IInv, OnlyGranteesReport
<1>6. CASE Report(w)
  <2>1. TypeOK'
    <3>1. PICK r \in Request, at \in {"complete", "fail"} :
            /\ req[r].at = "free"
            /\ req' = [req EXCEPT ![r] =
                  [at |-> at, worker |-> w, caps |-> caps[w],
                   job |-> task[w], open |-> TRUE]]
      BY <1>6 DEF Report, Send
    <3>2. task[w] \in Job
      BY <1>6 DEF IInv, TypeOK, Idle, Report
    <3>3. req' \in [Request -> Handler] /\ \A q \in Request : WellFormed(req'[q])
      BY <3>1, <3>2, QueueAssumption
      DEF IInv, TypeOK, Handler, WellFormed, Step, ReportSteps
    <3> QED
      BY <1>6, <3>3
      DEF IInv, TypeOK, AgentPc, Idle, Report, table
  <2>2. LockedRowIsQueued'
    BY <1>6
    DEF IInv, LockedRowIsQueued, TypeOK, Report, Send, table
  <2>3. OneConversation'
    BY <1>6
    DEF IInv, OneConversation, TypeOK, WellFormed, ClaimSteps, Report, Send
  <2>4. HandlersActForGrantees'
    BY <1>6
    DEF IInv, OnlyGranteesReport, HandlersActForGrantees, TypeOK,
        HoldersWereGranted, Report, Send, table, Idle
  <2>5. HoldsOnlyWhatItCanRun'
    BY <1>6, QueueAssumption
    DEF IInv, HoldsOnlyWhatItCanRun, TypeOK, Report, Send
  <2>6. RowShape' /\ HoldersWereGranted' /\ ResultsAreOfGrantees'
    BY <1>6
    DEF IInv, OnlyGranteesReport, RowShape, HoldersWereGranted,
        ResultsAreOfGrantees, Report, table
  <2> QED
    BY <2>1, <2>2, <2>3, <2>4, <2>5, <2>6 DEF IInv, OnlyGranteesReport
<1>7. CASE Die(w)
  <2>1. TypeOK'
    <3>1. req' \in [Request -> Handler]
      <4>1. \A r \in Request : req[r] \in Handler
        BY DEF IInv, TypeOK
      <4>2. \A r \in Request : [req[r] EXCEPT !.open = FALSE] \in Handler
        BY <4>1 DEF Handler
      <4> QED
        BY <1>7, <4>1, <4>2 DEF Die
    <3>2. \A r \in Request : WellFormed(req'[r])
      BY <1>7 DEF IInv, TypeOK, WellFormed, Die
    <3> QED
      BY <1>7, <3>1, <3>2 DEF IInv, TypeOK, AgentPc, Idle, Die, table
  <2>2. LockedRowIsQueued'
    BY <1>7
    DEF IInv, LockedRowIsQueued, Die, table
  <2>3. OneConversation'
    BY <1>7
    DEF IInv, OneConversation, Die
  <2>4. HoldersWereGranted'
    BY <1>7
    DEF IInv, OnlyGranteesReport, HoldersWereGranted, Die, table
  <2>5. HandlersActForGrantees'
    BY <1>7
    DEF IInv, OnlyGranteesReport, HandlersActForGrantees, TypeOK, Die, table
  <2>6. HoldsOnlyWhatItCanRun'
    BY <1>7, QueueAssumption
    DEF IInv, HoldsOnlyWhatItCanRun, Die
  <2>7. RowShape' /\ ResultsAreOfGrantees'
    BY <1>7
    DEF IInv, OnlyGranteesReport, RowShape, ResultsAreOfGrantees, Die, table
  <2> QED
    BY <2>1, <2>2, <2>3, <2>4, <2>5, <2>6, <2>7 DEF IInv, OnlyGranteesReport
<1> QED
  BY <1>1, <1>2, <1>3, <1>4, <1>5, <1>6, <1>7

\* claim_job: the lock excludes other claims until the commit, the commit
\* records the grant, and the assignment reaches the agent that asked.
LEMMA ClaimKeepsIInv ==
  ASSUME IInv, NEW r \in Request,
         \/ ClaimUpdate(r)
         \/ ClaimCommit(r)
         \/ ClaimEmpty(r)
         \/ ClaimReply(r)
  PROVE  IInv'
<1>1. CASE ClaimUpdate(r)
  <2>a. PICK j \in Claimable(req[r].caps) :
          req' = [req EXCEPT ![r] = [@ EXCEPT !.at = "update", !.job = j]]
    BY <1>1 DEF ClaimUpdate, Oldest
  <2>b. /\ j \in Job
        /\ status[j] = "queued"
        /\ Requires[j] \subseteq req[r].caps
        /\ \A q \in Request : ~(req[q].at = "update" /\ req[q].job = j)
    BY DEF Claimable, Locked
  <2>c. /\ req[r] \in Handler /\ req[r].at = "claim_next"
        /\ UNCHANGED <<table, agents>>
    BY <1>1 DEF IInv, TypeOK, ClaimUpdate
  <2>d. /\ req'[r] \in Handler
        /\ req'[r].at = "update"
        /\ req'[r].job = j
        /\ req'[r].worker = req[r].worker
        /\ req'[r].caps = req[r].caps
        /\ req'[r].open = req[r].open
    BY <2>a, <2>b, <2>c DEF IInv, TypeOK, Handler, Step, ClaimSteps
  <2>e. \A q \in Request : q # r => req'[q] = req[q]
    BY <2>a DEF IInv, TypeOK
  <2>f. req' \in [Request -> Handler]
    BY <2>a, <2>d, <2>e DEF IInv, TypeOK
  <2>1. TypeOK'
    BY <2>b, <2>c, <2>d, <2>e, <2>f, QueueAssumption
    DEF IInv, TypeOK, WellFormed, ClaimSteps, table, agents
  <2>2. LockedRowIsQueued'
    BY <2>b, <2>c, <2>d, <2>e DEF IInv, LockedRowIsQueued, table
  <2>3. OneConversation'
    BY <2>c, <2>d, <2>e
    DEF IInv, OneConversation, ClaimSteps, ReportSteps, agents
  <2>4. HandlersActForGrantees'
    BY <2>c, <2>d, <2>e
    DEF IInv, OnlyGranteesReport, HandlersActForGrantees, ReportSteps, table
  <2>5. HoldsOnlyWhatItCanRun'
    BY <2>b, <2>c, <2>d, <2>e DEF IInv, HoldsOnlyWhatItCanRun, agents
  <2>6. RowShape' /\ HoldersWereGranted' /\ ResultsAreOfGrantees'
    BY <2>c
    DEF IInv, OnlyGranteesReport, RowShape, HoldersWereGranted,
        ResultsAreOfGrantees, table, agents
  <2> QED
    BY <2>1, <2>2, <2>3, <2>4, <2>5, <2>6 DEF IInv, OnlyGranteesReport
<1>2. CASE ClaimCommit(r)
  <2>1. TypeOK'
    BY <1>2, QueueAssumption
    DEF IInv, TypeOK, OneConversation, Handler, WellFormed, Step, ClaimSteps,
        ReportSteps, Status, ClaimCommit, agents
  <2>2. RowShape'
    BY <1>2
    DEF IInv, RowShape, TypeOK, WellFormed, ClaimCommit
  <2>3. LockedRowIsQueued'
    BY <1>2
    DEF IInv, LockedRowIsQueued, TypeOK, ClaimCommit
  <2>4. OneConversation'
    BY <1>2
    DEF IInv, OneConversation, ClaimSteps, ReportSteps, ClaimCommit, agents
  <2>5. HoldersWereGranted'
    BY <1>2
    DEF IInv, OnlyGranteesReport, HoldersWereGranted, ClaimCommit, agents
  <2>6. HandlersActForGrantees'
    BY <1>2
    DEF IInv, OnlyGranteesReport, HandlersActForGrantees, ClaimCommit
  <2>7. ResultsAreOfGrantees'
    BY <1>2
    DEF IInv, OnlyGranteesReport, ResultsAreOfGrantees, ClaimCommit
  <2>8. HoldsOnlyWhatItCanRun'
    BY <1>2, QueueAssumption
    DEF IInv, HoldsOnlyWhatItCanRun, ClaimCommit, agents
  <2> QED
    BY <2>1, <2>2, <2>3, <2>4, <2>5, <2>6, <2>7, <2>8
    DEF IInv, OnlyGranteesReport
<1>3. CASE ClaimEmpty(r)
  <2>1. TypeOK'
    BY <1>3, QueueAssumption
    DEF IInv, TypeOK, OneConversation, Handler, WellFormed, Step, AgentPc,
        Idle, ClaimEmpty, NoRequest, table
  <2>2. LockedRowIsQueued'
    BY <1>3
    DEF IInv, LockedRowIsQueued, ClaimEmpty, NoRequest, table
  <2>3. OneConversation'
    BY <1>3
    DEF IInv, OneConversation, TypeOK, ClaimEmpty, NoRequest
  <2>4. HandlersActForGrantees'
    BY <1>3
    DEF IInv, OnlyGranteesReport, HandlersActForGrantees, ReportSteps,
        ClaimEmpty, NoRequest, table
  <2>5. HoldsOnlyWhatItCanRun'
    BY <1>3, QueueAssumption
    DEF IInv, HoldsOnlyWhatItCanRun, ClaimEmpty, NoRequest
  <2>6. RowShape' /\ HoldersWereGranted' /\ ResultsAreOfGrantees'
    BY <1>3
    DEF IInv, OnlyGranteesReport, RowShape, HoldersWereGranted,
        ResultsAreOfGrantees, ClaimEmpty, table
  <2> QED
    BY <2>1, <2>2, <2>3, <2>4, <2>5, <2>6 DEF IInv, OnlyGranteesReport
<1>4. CASE ClaimReply(r)
  <2>1. TypeOK'
    BY <1>4, QueueAssumption
    DEF IInv, TypeOK, OneConversation, Handler, WellFormed, Step, AgentPc,
        Idle, ClaimReply, NoRequest, table
  <2>2. LockedRowIsQueued'
    BY <1>4
    DEF IInv, LockedRowIsQueued, ClaimReply, NoRequest, table
  <2>3. OneConversation'
    BY <1>4
    DEF IInv, OneConversation, TypeOK, Handler, WellFormed, ClaimSteps,
        ReportSteps, ClaimReply, NoRequest
  <2>4. HoldersWereGranted'
    BY <1>4
    DEF IInv, OnlyGranteesReport, HoldersWereGranted, TypeOK,
        HandlersActForGrantees, ClaimReply, table
  <2>5. HandlersActForGrantees'
    BY <1>4
    DEF IInv, OnlyGranteesReport, HandlersActForGrantees, ReportSteps,
        ClaimReply, NoRequest, table
  <2>6. HoldsOnlyWhatItCanRun'
    BY <1>4, QueueAssumption
    DEF IInv, HoldsOnlyWhatItCanRun, TypeOK, OneConversation, WellFormed,
        ClaimReply, NoRequest
  <2>7. RowShape' /\ ResultsAreOfGrantees'
    BY <1>4
    DEF IInv, OnlyGranteesReport, RowShape, ResultsAreOfGrantees, ClaimReply,
        table
  <2> QED
    BY <2>1, <2>2, <2>3, <2>4, <2>5, <2>6, <2>7 DEF IInv, OnlyGranteesReport
<1> QED
  BY <1>1, <1>2, <1>3, <1>4

\* heartbeat and report_job: the row of a job is marked on behalf of a worker
\* it was granted to, never while a claim has it locked.
LEMMA ReportKeepsIInv ==
  ASSUME IInv, NEW r \in Request,
         \/ HeartbeatUpdate(r)
         \/ MarkSucceeded(r)
         \/ MarkFailed(r)
         \/ ReportReply(r)
  PROVE  IInv'
<1>1. CASE HeartbeatUpdate(r)
  <2>1. TypeOK'
    BY <1>1, QueueAssumption
    DEF IInv, TypeOK, Handler, WellFormed, Step, HeartbeatUpdate, NoRequest,
        agents
  <2>2. RowShape'
    BY <1>1
    DEF IInv, RowShape, TypeOK, WellFormed, HeartbeatUpdate
  <2>3. LockedRowIsQueued'
    BY <1>1
    DEF IInv, LockedRowIsQueued, HeartbeatUpdate, NoRequest
  <2>4. OneConversation'
    BY <1>1
    DEF IInv, OneConversation, HeartbeatUpdate, NoRequest, agents
  <2>5. HandlersActForGrantees'
    BY <1>1
    DEF IInv, OnlyGranteesReport, HandlersActForGrantees, ReportSteps,
        HeartbeatUpdate, NoRequest
  <2>6. HoldsOnlyWhatItCanRun'
    BY <1>1, QueueAssumption
    DEF IInv, HoldsOnlyWhatItCanRun, HeartbeatUpdate, NoRequest, agents
  <2>7. HoldersWereGranted' /\ ResultsAreOfGrantees'
    BY <1>1
    DEF IInv, OnlyGranteesReport, HoldersWereGranted, ResultsAreOfGrantees,
        HeartbeatUpdate, agents
  <2> QED
    BY <2>1, <2>2, <2>3, <2>4, <2>5, <2>6, <2>7 DEF IInv, OnlyGranteesReport
<1>2. CASE MarkSucceeded(r)
  <2>1. TypeOK'
    BY <1>2, QueueAssumption
    DEF IInv, TypeOK, Handler, WellFormed, Step, ReportSteps, Status,
        Terminal, MarkSucceeded, Mark, Locked, agents
  <2>2. RowShape'
    BY <1>2
    DEF IInv, RowShape, MarkSucceeded, Mark
  <2>3. LockedRowIsQueued'
    BY <1>2
    DEF IInv, LockedRowIsQueued, MarkSucceeded, Mark, Locked
  <2>4. OneConversation'
    BY <1>2
    DEF IInv, OneConversation, ClaimSteps, ReportSteps, MarkSucceeded, Mark,
        agents
  <2>5. HandlersActForGrantees'
    BY <1>2
    DEF IInv, OnlyGranteesReport, HandlersActForGrantees, ReportSteps,
        MarkSucceeded, Mark
  <2>6. ResultsAreOfGrantees'
    BY <1>2
    DEF IInv, OnlyGranteesReport, ResultsAreOfGrantees, TypeOK,
        HandlersActForGrantees, ReportSteps, MarkSucceeded, Mark
  <2>7. HoldsOnlyWhatItCanRun'
    BY <1>2, QueueAssumption
    DEF IInv, HoldsOnlyWhatItCanRun, MarkSucceeded, Mark, agents
  <2>8. HoldersWereGranted'
    BY <1>2
    DEF IInv, OnlyGranteesReport, HoldersWereGranted, MarkSucceeded, Mark,
        agents
  <2> QED
    BY <2>1, <2>2, <2>3, <2>4, <2>5, <2>6, <2>7, <2>8
    DEF IInv, OnlyGranteesReport
<1>3. CASE MarkFailed(r)
  <2>1. TypeOK'
    BY <1>3, QueueAssumption
    DEF IInv, TypeOK, Handler, WellFormed, Step, ReportSteps, Status,
        Terminal, MarkFailed, Mark, Locked, agents
  <2>2. RowShape'
    BY <1>3
    DEF IInv, RowShape, MarkFailed, Mark
  <2>3. LockedRowIsQueued'
    BY <1>3
    DEF IInv, LockedRowIsQueued, MarkFailed, Mark, Locked
  <2>4. OneConversation'
    BY <1>3
    DEF IInv, OneConversation, ClaimSteps, ReportSteps, MarkFailed, Mark,
        agents
  <2>5. HandlersActForGrantees'
    BY <1>3
    DEF IInv, OnlyGranteesReport, HandlersActForGrantees, ReportSteps,
        MarkFailed, Mark
  <2>6. ResultsAreOfGrantees'
    BY <1>3
    DEF IInv, OnlyGranteesReport, ResultsAreOfGrantees, TypeOK,
        HandlersActForGrantees, ReportSteps, MarkFailed, Mark
  <2>7. HoldsOnlyWhatItCanRun'
    BY <1>3, QueueAssumption
    DEF IInv, HoldsOnlyWhatItCanRun, MarkFailed, Mark, agents
  <2>8. HoldersWereGranted'
    BY <1>3
    DEF IInv, OnlyGranteesReport, HoldersWereGranted, MarkFailed, Mark, agents
  <2> QED
    BY <2>1, <2>2, <2>3, <2>4, <2>5, <2>6, <2>7, <2>8
    DEF IInv, OnlyGranteesReport
<1>4. CASE ReportReply(r)
  <2>1. TypeOK'
    BY <1>4, QueueAssumption
    DEF IInv, TypeOK, Handler, WellFormed, Step, ReportSteps, AgentPc, Idle,
        ReportReply, NoRequest, table
  <2>2. LockedRowIsQueued'
    BY <1>4
    DEF IInv, LockedRowIsQueued, ReportReply, NoRequest, table
  <2>3. OneConversation'
    BY <1>4
    DEF IInv, OneConversation, TypeOK, Handler, WellFormed, ClaimSteps,
        ReportSteps, ReportReply, NoRequest
  <2>4. HoldersWereGranted'
    BY <1>4
    DEF IInv, OnlyGranteesReport, HoldersWereGranted, TypeOK, ReportReply,
        table
  <2>5. HandlersActForGrantees'
    BY <1>4
    DEF IInv, OnlyGranteesReport, HandlersActForGrantees, ReportSteps,
        ReportReply, NoRequest, table
  <2>6. HoldsOnlyWhatItCanRun'
    BY <1>4, QueueAssumption
    DEF IInv, HoldsOnlyWhatItCanRun, TypeOK, ReportReply, NoRequest
  <2>7. RowShape' /\ ResultsAreOfGrantees'
    BY <1>4
    DEF IInv, OnlyGranteesReport, RowShape, ResultsAreOfGrantees, ReportReply,
        table
  <2> QED
    BY <2>1, <2>2, <2>3, <2>4, <2>5, <2>6, <2>7 DEF IInv, OnlyGranteesReport
<1> QED
  BY <1>1, <1>2, <1>3, <1>4

\* Client timeouts and failing handlers: the agent stops listening before it
\* goes on, and an uncommitted claim leaves no trace.
LEMMA FailureKeepsIInv ==
  ASSUME IInv, NEW r \in Request,
         \/ GiveUp(r)
         \/ RequestFails(r)
  PROVE  IInv'
<1>1. CASE GiveUp(r)
  <2>1. TypeOK'
    <3>1. req' \in [Request -> Handler]
      BY <1>1 DEF IInv, TypeOK, Handler, GiveUp
    <3>2. \A q \in Request : WellFormed(req'[q])
      BY <1>1 DEF IInv, TypeOK, WellFormed, GiveUp
    <3>3. req[r].worker \in Worker
      BY <1>1
      DEF IInv, TypeOK, WellFormed, Handler, ClaimSteps, ReportSteps, GiveUp
    <3>4. /\ pc' \in [Worker -> AgentPc]
          /\ task' \in [Worker -> Job \cup {Null}]
          /\ \A w \in Worker : task'[w] = Null <=> pc'[w] \in Idle
      BY <1>1, <3>3
      DEF IInv, TypeOK, OneConversation, AgentPc, Idle, GiveUp, Raise
    <3> QED
      BY <1>1, <3>1, <3>2, <3>4 DEF IInv, TypeOK, GiveUp, table
  <2>2. LockedRowIsQueued'
    BY <1>1
    DEF IInv, LockedRowIsQueued, GiveUp, table
  <2>3. OneConversation'
    BY <1>1
    DEF IInv, OneConversation, TypeOK, Handler, WellFormed, ClaimSteps,
        ReportSteps, GiveUp, Raise
  <2>4. HoldersWereGranted'
    BY <1>1
    DEF IInv, OnlyGranteesReport, HoldersWereGranted, TypeOK, GiveUp, Raise,
        table
  <2>5. HandlersActForGrantees'
    BY <1>1
    DEF IInv, OnlyGranteesReport, HandlersActForGrantees, GiveUp, table
  <2>6. HoldsOnlyWhatItCanRun'
    BY <1>1, QueueAssumption
    DEF IInv, HoldsOnlyWhatItCanRun, TypeOK, GiveUp, Raise
  <2>7. RowShape' /\ ResultsAreOfGrantees'
    BY <1>1
    DEF IInv, OnlyGranteesReport, RowShape, ResultsAreOfGrantees, GiveUp,
        table
  <2> QED
    BY <2>1, <2>2, <2>3, <2>4, <2>5, <2>6, <2>7 DEF IInv, OnlyGranteesReport
<1>2. CASE RequestFails(r)
  <2>1. TypeOK'
    BY <1>2, QueueAssumption
    DEF IInv, TypeOK, OneConversation, Handler, WellFormed, Step, AgentPc,
        Idle, RequestFails, Raise, NoRequest, table
  <2>2. LockedRowIsQueued'
    BY <1>2
    DEF IInv, LockedRowIsQueued, RequestFails, NoRequest, table
  <2>3. OneConversation'
    BY <1>2
    DEF IInv, OneConversation, TypeOK, Handler, WellFormed, ClaimSteps,
        ReportSteps, RequestFails, Raise, NoRequest
  <2>4. HoldersWereGranted'
    BY <1>2
    DEF IInv, OnlyGranteesReport, HoldersWereGranted, TypeOK, RequestFails,
        Raise, table
  <2>5. HandlersActForGrantees'
    BY <1>2
    DEF IInv, OnlyGranteesReport, HandlersActForGrantees, ReportSteps,
        RequestFails, NoRequest, table
  <2>6. HoldsOnlyWhatItCanRun'
    BY <1>2, QueueAssumption
    DEF IInv, HoldsOnlyWhatItCanRun, TypeOK, RequestFails, Raise, NoRequest
  <2>7. RowShape' /\ ResultsAreOfGrantees'
    BY <1>2
    DEF IInv, OnlyGranteesReport, RowShape, ResultsAreOfGrantees,
        RequestFails, table
  <2> QED
    BY <2>1, <2>2, <2>3, <2>4, <2>5, <2>6, <2>7 DEF IInv, OnlyGranteesReport
<1> QED
  BY <1>1, <1>2

\* The clock, ExperimentService.submit and cancel: neither touches a row that
\* a claim has locked.
LEMMA TableKeepsIInv ==
  ASSUME IInv, NEW j \in Job,
         \/ Age(j)
         \/ Enqueue(j)
         \/ Cancel(j)
  PROVE  IInv'
<1>1. CASE Age(j)
  <2>1. TypeOK'
    BY <1>1, QueueAssumption
    DEF IInv, TypeOK, Age, agents
  <2>2. RowShape'
    BY <1>1
    DEF IInv, RowShape, Age
  <2>3. /\ LockedRowIsQueued'
        /\ OneConversation'
        /\ HoldersWereGranted'
        /\ HandlersActForGrantees'
        /\ ResultsAreOfGrantees'
        /\ HoldsOnlyWhatItCanRun'
    BY <1>1
    DEF IInv, OnlyGranteesReport, LockedRowIsQueued, OneConversation,
        HoldersWereGranted, HandlersActForGrantees, ResultsAreOfGrantees,
        HoldsOnlyWhatItCanRun, Age, agents
  <2> QED
    BY <2>1, <2>2, <2>3 DEF IInv, OnlyGranteesReport
<1>2. CASE Enqueue(j)
  <2>1. TypeOK'
    BY <1>2, QueueAssumption
    DEF IInv, TypeOK, Status, Enqueue, agents
  <2>2. RowShape'
    BY <1>2
    DEF IInv, RowShape, Enqueue
  <2>3. LockedRowIsQueued'
    BY <1>2
    DEF IInv, LockedRowIsQueued, Enqueue
  <2>4. ResultsAreOfGrantees'
    BY <1>2
    DEF IInv, OnlyGranteesReport, ResultsAreOfGrantees, Enqueue
  <2>5. /\ OneConversation'
        /\ HoldersWereGranted'
        /\ HandlersActForGrantees'
        /\ HoldsOnlyWhatItCanRun'
    BY <1>2
    DEF IInv, OnlyGranteesReport, OneConversation, HoldersWereGranted,
        HandlersActForGrantees, HoldsOnlyWhatItCanRun, Enqueue, agents
  <2> QED
    BY <2>1, <2>2, <2>3, <2>4, <2>5 DEF IInv, OnlyGranteesReport
<1>3. CASE Cancel(j)
  <2>1. TypeOK'
    BY <1>3, QueueAssumption
    DEF IInv, TypeOK, Status, Terminal, Cancel, agents
  <2>2. RowShape'
    BY <1>3
    DEF IInv, RowShape, Cancel
  <2>3. LockedRowIsQueued'
    BY <1>3
    DEF IInv, LockedRowIsQueued, Cancel, Locked
  <2>4. ResultsAreOfGrantees'
    BY <1>3
    DEF IInv, OnlyGranteesReport, ResultsAreOfGrantees, Cancel
  <2>5. /\ OneConversation'
        /\ HoldersWereGranted'
        /\ HandlersActForGrantees'
        /\ HoldsOnlyWhatItCanRun'
    BY <1>3
    DEF IInv, OnlyGranteesReport, OneConversation, HoldersWereGranted,
        HandlersActForGrantees, HoldsOnlyWhatItCanRun, Cancel, agents
  <2> QED
    BY <2>1, <2>2, <2>3, <2>4, <2>5 DEF IInv, OnlyGranteesReport
<1> QED
  BY <1>1, <1>2, <1>3

\* requeue_stale: the rows it takes are running, so none of them is locked.
LEMMA SweepKeepsIInv ==
  ASSUME IInv, Sweep
  PROVE  IInv'
<1>1. TypeOK'
  BY QueueAssumption
  DEF IInv, TypeOK, Status, Sweep, agents
<1>2. RowShape'
  BY DEF IInv, RowShape, Sweep
<1>3. LockedRowIsQueued'
  BY DEF IInv, LockedRowIsQueued, TypeOK, Handler, WellFormed, Sweep
<1>4. ResultsAreOfGrantees'
  BY DEF IInv, OnlyGranteesReport, ResultsAreOfGrantees, Sweep
<1>5. /\ OneConversation'
      /\ HoldersWereGranted'
      /\ HandlersActForGrantees'
      /\ HoldsOnlyWhatItCanRun'
  BY DEF IInv, OnlyGranteesReport, OneConversation, HoldersWereGranted,
      HandlersActForGrantees, HoldsOnlyWhatItCanRun, Sweep, agents
<1> QED
  BY <1>1, <1>2, <1>3, <1>4, <1>5 DEF IInv, OnlyGranteesReport

\* The empty table, no handler and no agent: the state at start satisfies IInv.
LEMMA InitIInv == Init => IInv
  BY QueueAssumption
  DEF Init, IInv, TypeOK, RowShape, LockedRowIsQueued, OneConversation,
      OnlyGranteesReport, HoldersWereGranted, HandlersActForGrantees,
      ResultsAreOfGrantees, HoldsOnlyWhatItCanRun, Handler, NoRequest,
      WellFormed, Step, ClaimSteps, ReportSteps, AgentPc, Idle, Status, Terminal

\* Every step of the queue, a fault or a stutter included, keeps IInv.
LEMMA StepIInv == IInv /\ [Next]_vars => IInv'
<1> SUFFICES ASSUME IInv, [Next]_vars PROVE IInv'
  OBVIOUS
<1>1. CASE UNCHANGED vars
  BY <1>1
  DEF IInv, TypeOK, RowShape, LockedRowIsQueued, OneConversation,
      OnlyGranteesReport, HoldersWereGranted, HandlersActForGrantees,
      ResultsAreOfGrantees, HoldsOnlyWhatItCanRun, vars, table, agents
<1>2. ASSUME NEW w \in Worker, Start(w) \/ AgentStep(w) \/ Finish(w) \/ Die(w)
      PROVE  IInv'
  BY <1>2, AgentKeepsIInv DEF AgentStep
<1>3. ASSUME NEW r \in Request, HandlerStep(r)
      PROVE  IInv'
  BY <1>3, ClaimKeepsIInv, ReportKeepsIInv DEF HandlerStep
<1>4. ASSUME NEW r \in Request, GiveUp(r) \/ RequestFails(r)
      PROVE  IInv'
  BY <1>4, FailureKeepsIInv
<1>5. ASSUME NEW j \in Job, Enqueue(j) \/ Cancel(j) \/ Age(j)
      PROVE  IInv'
  BY <1>5, TableKeepsIInv
<1>6. CASE Sweep
  BY <1>6, SweepKeepsIInv
<1> QED
  BY <1>1, <1>2, <1>3, <1>4, <1>5, <1>6 DEF Next, Work, Fault

\* IInv holds in every reachable state.
THEOREM Invariance == Spec => []IInv
  BY InitIInv, StepIInv, PTL DEF Spec

\* Every state of the queue has the types and shapes TypeOK lists.
THEOREM TypeCorrect == Spec => []TypeOK
<1>1. IInv => TypeOK
  BY DEF IInv
<1> QED
  BY Invariance, <1>1, PTL

\* Running rows have an owner and a heartbeat, queued rows have neither.
THEOREM TableIsSound == Spec => []RowShape
<1>1. IInv => RowShape
  BY DEF IInv
<1> QED
  BY Invariance, <1>1, PTL

\* A row that a claim has locked is queued, and locked by no other claim.
THEOREM LocksAreExclusive == Spec => []LockedRowIsQueued
<1>1. IInv => LockedRowIsQueued
  BY DEF IInv
<1> QED
  BY Invariance, <1>1, PTL

\* An agent acts on no answer but the one to the request it waits for.
THEOREM AgentsAreNotConfused == Spec => []OneConversation
<1>1. IInv => OneConversation
  BY DEF IInv
<1> QED
  BY Invariance, <1>1, PTL

\* Jobs are held, reported and settled by workers they were granted to only.
THEOREM GrantsAreHonoured == Spec => []OnlyGranteesReport
<1>1. IInv => OnlyGranteesReport
  BY DEF IInv
<1> QED
  BY Invariance, <1>1, PTL

\* No agent holds a job beyond the capabilities it runs with.
THEOREM CapabilitiesSuffice == Spec => []HoldsOnlyWhatItCanRun
<1>1. IInv => HoldsOnlyWhatItCanRun
  BY DEF IInv
<1> QED
  BY Invariance, <1>1, PTL

-----------------------------------------------------------------------------
(* What a step may do to the table: the same for each kind of step.         *)

\* A step that is none of the actions named here leaves the columns of the
\* board alone.
LEMMA QuietStep ==
  ASSUME [Next]_vars
  PROVE  \/ UNCHANGED <<status, worker_id, granted>>
         \/ \E r \in Request : ClaimCommit(r) \/ MarkSucceeded(r) \/ MarkFailed(r)
         \/ \E j \in Job : Enqueue(j) \/ Cancel(j)
         \/ Sweep
  BY DEF Next, Work, Fault, AgentStep, HandlerStep, Start, Claim, FetchBundle,
         Heartbeat, Finish, Report, Die, GiveUp, RequestFails, ClaimUpdate,
         ClaimEmpty, ClaimReply, HeartbeatUpdate, ReportReply, Age, table, vars

\* The empty table is the empty board.
LEMMA InitOfBoard == Init => Board!Init
  BY DEF Init, Board!Init

\* Every step of the queue is a step of the board or a stutter: a committed
\* claim grants, a mark settles for the worker whose report it is, a sweep
\* takes back the stale jobs.
LEMMA StepOfBoard ==
  ASSUME IInv, [Next]_vars
  PROVE  [Board!Next]_<<status, worker_id, granted>>
<1>1. CASE UNCHANGED <<status, worker_id, granted>>
  BY <1>1
<1>2. ASSUME NEW r \in Request, ClaimCommit(r)
      PROVE  Board!Next
  <2>1. /\ req[r].job \in Job /\ req[r].worker \in Worker
        /\ status[req[r].job] = "queued"
    BY <1>2
    DEF IInv, TypeOK, Handler, WellFormed, LockedRowIsQueued, ClaimCommit
  <2>2. Board!Grant(req[r].job, req[r].worker)
    BY <1>2, <2>1 DEF ClaimCommit, Board!Grant
  <2> QED
    BY <2>1, <2>2 DEF Board!Next
<1>3. ASSUME NEW r \in Request, MarkSucceeded(r) \/ MarkFailed(r)
      PROVE  Board!Next
  <2> PICK s \in Board!Settled : Mark(r, "complete", s) \/ Mark(r, "fail", s)
    BY <1>3 DEF MarkSucceeded, MarkFailed, Board!Settled
  <2>1. /\ req[r].job \in Job /\ req[r].worker \in Worker
        /\ <<req[r].job, req[r].worker>> \in granted
    BY <1>3
    DEF IInv, TypeOK, Handler, WellFormed, OnlyGranteesReport,
        HandlersActForGrantees, ReportSteps, Mark
  <2>2. Board!Settle(req[r].job, req[r].worker, s)
    BY <2>1 DEF Mark, Board!Settle
  <2> QED
    BY <2>1, <2>2 DEF Board!Next
<1>4. ASSUME NEW j \in Job, Enqueue(j) \/ Cancel(j)
      PROVE  Board!Next
  BY <1>4 DEF Enqueue, Cancel, Board!Next, Board!Post, Board!Withdraw
<1>5. CASE Sweep
  <2> DEFINE S == {j \in Job : status[j] = "running" /\ heartbeat_at[j] = "stale"}
  <2>1. Board!Revoke(S)
    BY <1>5 DEF Sweep, Board!Revoke
  <2> QED
    BY <2>1 DEF Board!Next
<1> QED
  BY QuietStep, <1>1, <1>2, <1>3, <1>4, <1>5

\* The queue implements the board, for any jobs, workers and requests.
THEOREM QueueImplementsBoard == Spec => ImplementsBoard
  BY Invariance, InitOfBoard, StepOfBoard, PTL
  DEF Spec, ImplementsBoard, Board!Spec, Board!vars

\* A running row changes hands by way of the queue only.
THEOREM OwnershipIsExclusive == Spec => OwnerChangesThroughQueue
<1>1. IInv /\ [Next]_vars =>
        [\A j \in Job : status[j] = "running" /\ status'[j] = "running" =>
           worker_id'[j] = worker_id[j]]_vars
  <2> SUFFICES ASSUME IInv, [Next]_vars, NEW j \in Job,
                      status[j] = "running", status'[j] = "running"
               PROVE  worker_id'[j] = worker_id[j]
    OBVIOUS
  <2>1. CASE \E r \in Request : ClaimCommit(r)
    BY <2>1
    DEF IInv, TypeOK, Handler, WellFormed, LockedRowIsQueued, ClaimCommit
  <2>2. CASE Sweep
    BY <2>2 DEF IInv, TypeOK, Sweep
  <2> QED
    BY QuietStep, <2>1, <2>2
    DEF MarkSucceeded, MarkFailed, Mark, Enqueue, Cancel
<1> QED
  BY Invariance, <1>1, PTL DEF Spec, OwnerChangesThroughQueue

\* A job that was reported or cancelled is out of the queue for good.
THEOREM FinishedIsFinal == Spec => FinishedStaysFinished
<1>1. IInv /\ [Next]_vars =>
        [\A j \in Job : status[j] \in Terminal => status'[j] \in Terminal]_vars
  <2> SUFFICES ASSUME IInv, [Next]_vars, NEW j \in Job, status[j] \in Terminal
               PROVE  status'[j] \in Terminal
    OBVIOUS
  <2>1. CASE \E r \in Request : ClaimCommit(r)
    BY <2>1
    DEF IInv, TypeOK, Terminal, LockedRowIsQueued, ClaimCommit
  <2>2. CASE Sweep
    BY <2>2 DEF IInv, TypeOK, Terminal, Sweep
  <2>3. CASE \E r \in Request : MarkSucceeded(r) \/ MarkFailed(r)
    BY <2>3 DEF IInv, TypeOK, Terminal, MarkSucceeded, MarkFailed, Mark
  <2>4. CASE \E k \in Job : Enqueue(k) \/ Cancel(k)
    BY <2>4 DEF IInv, TypeOK, Terminal, Enqueue, Cancel
  <2> QED
    BY QuietStep, <2>1, <2>2, <2>3, <2>4
<1> QED
  BY Invariance, <1>1, PTL DEF Spec, FinishedStaysFinished

-----------------------------------------------------------------------------
(* ReportIsTerminal is violated, but only by way of a requeue.  Until a    *)
(* running job is taken back it is in the hands of one agent or of one     *)
(* handler, and goes from one to the other with the assignment and with    *)
(* the report.                                                             *)

\* The agent w is to run the job, runs it or has yet to report it.
Runs(w, j) ==
  task[w] = j /\ pc[w] \in {"bundle", "executing", "uploading", "failing"}

\* The handler r is to assign the job, or to mark it.
Speaks(r, j) ==
  req[r].job = j /\ req[r].at \in {"assign", "complete", "fail"}

\* A job is in the hands of one of them at most, and only while it is running,
\* or was cancelled meanwhile.
OneRun ==
  \A j \in Job :
    /\ \A v, w \in Worker : Runs(v, j) /\ Runs(w, j) => v = w
    /\ \A q, r \in Request : Speaks(q, j) /\ Speaks(r, j) => q = r
    /\ \A w \in Worker, r \in Request : ~(Runs(w, j) /\ Speaks(r, j))
    /\ (\E w \in Worker : Runs(w, j)) \/ (\E r \in Request : Speaks(r, j)) =>
         status[j] \in {"running", "cancelled"}

\* The step takes a running job back.
Requeues == \E j \in Job : status[j] = "running" /\ status'[j] = "queued"

\* These steps put a job in nobody's hands.
LEMMA NobodyIsHandedAJob ==
  ASSUME IInv,
         \/ \E w \in Worker : \/ Start(w) \/ Claim(w) \/ FetchBundle(w)
                              \/ Heartbeat(w) \/ Finish(w) \/ Die(w)
         \/ \E r \in Request : \/ GiveUp(r) \/ RequestFails(r) \/ ClaimUpdate(r)
                               \/ ClaimEmpty(r) \/ HeartbeatUpdate(r)
                               \/ ReportReply(r)
         \/ \E j \in Job : Age(j)
         \/ UNCHANGED vars
  PROVE  /\ status' = status
         /\ \A j \in Job : /\ \A w \in Worker : Runs(w, j)' => Runs(w, j)
                           /\ \A r \in Request : Speaks(r, j)' => Speaks(r, j)
<1> USE DEF IInv, TypeOK, Runs, Speaks
<1>1. ASSUME NEW w \in Worker, Start(w) \/ FetchBundle(w) \/ Finish(w)
      PROVE  /\ status' = status
             /\ \A j \in Job : /\ \A v \in Worker : Runs(v, j)' => Runs(v, j)
                               /\ \A r \in Request : Speaks(r, j)' => Speaks(r, j)
  BY <1>1 DEF Start, FetchBundle, Finish, table, Idle
<1>2. ASSUME NEW w \in Worker, Claim(w) \/ Heartbeat(w)
      PROVE  /\ status' = status
             /\ \A j \in Job : /\ \A v \in Worker : Runs(v, j)' => Runs(v, j)
                               /\ \A r \in Request : Speaks(r, j)' => Speaks(r, j)
  BY <1>2 DEF Claim, Heartbeat, Send, table, agents
<1>3. ASSUME NEW w \in Worker, Die(w)
      PROVE  /\ status' = status
             /\ \A j \in Job : /\ \A v \in Worker : Runs(v, j)' => Runs(v, j)
                               /\ \A r \in Request : Speaks(r, j)' => Speaks(r, j)
  BY <1>3 DEF Die, table
<1>4. ASSUME NEW q \in Request, GiveUp(q) \/ RequestFails(q)
      PROVE  /\ status' = status
             /\ \A j \in Job : /\ \A v \in Worker : Runs(v, j)' => Runs(v, j)
                               /\ \A r \in Request : Speaks(r, j)' => Speaks(r, j)
  <2>1. /\ status' = status
        /\ \A r \in Request :
             req'[r].at \in {"assign", "complete", "fail"} =>
               req'[r].at = req[r].at /\ req'[r].job = req[r].job
    BY <1>4 DEF GiveUp, RequestFails, NoRequest, Handler, table
  <2>2. \A w \in Worker :
          \/ pc'[w] = pc[w] /\ task'[w] = task[w]
          \/ pc'[w] \in {"claim", "down"}
    BY <1>4 DEF GiveUp, RequestFails, Raise
  <2> QED
    BY <2>1, <2>2
<1>5. ASSUME NEW q \in Request,
             ClaimUpdate(q) \/ ClaimEmpty(q) \/ HeartbeatUpdate(q) \/ ReportReply(q)
      PROVE  /\ status' = status
             /\ \A j \in Job : /\ \A v \in Worker : Runs(v, j)' => Runs(v, j)
                               /\ \A r \in Request : Speaks(r, j)' => Speaks(r, j)
  <2>1. /\ status' = status
        /\ \A r \in Request :
             req'[r].at \in {"assign", "complete", "fail"} => req'[r] = req[r]
    <3>1. /\ status' = status /\ req'[q].at \in {"update", "free"}
          /\ \A r \in Request \ {q} : req'[r] = req[r]
      <4>1. CASE ClaimUpdate(q)
        BY <4>1 DEF ClaimUpdate, Handler, table
      <4>2. CASE ClaimEmpty(q) \/ HeartbeatUpdate(q) \/ ReportReply(q)
        BY <4>2 DEF ClaimEmpty, HeartbeatUpdate, ReportReply, NoRequest, table
      <4> QED
        BY <1>5, <4>1, <4>2
    <3> QED
      BY <3>1
  <2>2. \A w \in Worker :
          \/ pc'[w] = pc[w] /\ task'[w] = task[w]
          \/ pc'[w] = "claim"
    BY <1>5 DEF ClaimUpdate, ClaimEmpty, HeartbeatUpdate, ReportReply, agents
  <2> QED
    BY <2>1, <2>2
<1>6. CASE (\E j \in Job : Age(j)) \/ UNCHANGED vars
  BY <1>6 DEF Age, vars, table, agents
<1> QED
  BY <1>1, <1>2, <1>3, <1>4, <1>5, <1>6

\* The others hand a job on, or settle it; a sweep that requeues is excluded.
LEMMA StepKeepsOneRun ==
  ASSUME IInv, OneRun, [Next]_vars, ~Requeues
  PROVE  OneRun'
<1> USE DEF IInv, TypeOK, Runs, Speaks
<1>1. CASE /\ status' = status
           /\ \A j \in Job : /\ \A w \in Worker : Runs(w, j)' => Runs(w, j)
                             /\ \A r \in Request : Speaks(r, j)' => Speaks(r, j)
  BY ONLY <1>1, OneRun DEF OneRun
<1>2. ASSUME NEW r \in Request, ClaimCommit(r) PROVE OneRun'
  BY <1>2 DEF ClaimCommit, LockedRowIsQueued, Handler, WellFormed, OneRun, agents
<1>3. ASSUME NEW r \in Request, ClaimReply(r) PROVE OneRun'
  <2> DEFINE w == req[r].worker
  <2>1. /\ req[r].at = "assign" /\ w \in Worker /\ req[r].job \in Job
        /\ status' = status
    BY <1>3 DEF ClaimReply, Handler, WellFormed, table
  <2>2. \A q \in Request, j \in Job : Speaks(q, j)' => Speaks(q, j) /\ q # r
    BY <1>3 DEF ClaimReply, NoRequest
  <2>3. \A v \in Worker, j \in Job :
          Runs(v, j)' => Runs(v, j) \/ (v = w /\ j = req[r].job)
    BY <1>3 DEF ClaimReply
  <2>4. Speaks(r, req[r].job)
    BY <2>1
  <2> QED
    BY ONLY <2>1, <2>2, <2>3, <2>4, OneRun DEF OneRun
<1>4. ASSUME NEW w \in Worker, Report(w) PROVE OneRun'
  <2>1. PICK q \in Request :
          /\ req[q].at = "free"
          /\ \E at \in {"complete", "fail"} :
               req' = [req EXCEPT ![q] =
                         [at |-> at, worker |-> w, caps |-> caps[w],
                          job |-> task[w], open |-> TRUE]]
    BY <1>4 DEF Report, Send
  <2>2. \A r \in Request, j \in Job :
          Speaks(r, j)' => Speaks(r, j) \/ (r = q /\ j = task[w])
    BY <2>1
  <2>3. \A v \in Worker, j \in Job : Runs(v, j)' => Runs(v, j) /\ v # w
    BY <1>4 DEF Report
  <2>4. task[w] \in Job /\ Runs(w, task[w]) /\ status' = status
    BY <1>4 DEF Report, Idle, table
  <2> QED
    BY ONLY <2>2, <2>3, <2>4, OneRun DEF OneRun
<1>5. ASSUME NEW r \in Request, MarkSucceeded(r) \/ MarkFailed(r) PROVE OneRun'
  <2> DEFINE k == req[r].job
  <2>1. Speaks(r, k) /\ k \in Job
    BY <1>5 DEF MarkSucceeded, MarkFailed, Mark, Handler, WellFormed
  <2>2. \A q \in Request, j \in Job : Speaks(q, j)' => Speaks(q, j) /\ q # r
    <3>1. req'[r].at = "finish" /\ \A q \in Request \ {r} : req'[q] = req[q]
      BY <1>5 DEF MarkSucceeded, MarkFailed, Mark, Handler
    <3> QED
      BY <3>1
  <2>3. \A v \in Worker, j \in Job : Runs(v, j)' => Runs(v, j)
    BY <1>5 DEF MarkSucceeded, MarkFailed, Mark, agents
  <2>4. \A j \in Job : j # k => status'[j] = status[j]
    BY <1>5 DEF MarkSucceeded, MarkFailed, Mark
  <2> QED
    BY ONLY <2>1, <2>2, <2>3, <2>4, OneRun DEF OneRun
<1>6. ASSUME NEW j \in Job, Enqueue(j) \/ Cancel(j) PROVE OneRun'
  BY <1>6 DEF Enqueue, Cancel, OneRun, agents
<1>7. CASE Sweep
  BY <1>7 DEF Sweep, Requeues
<1> QED
  BY NobodyIsHandedAJob, <1>1, <1>2, <1>3, <1>4, <1>5, <1>6, <1>7
  DEF Next, Work, Fault, AgentStep, HandlerStep

\* While no running job is requeued, a job is run once: no two agents work on
\* it, nor does one while its report is being handled.
THEOREM RunsOnceUntilRequeued == Spec /\ [][~Requeues]_vars => []OneRun
<1>1. Init => OneRun
  <2> SUFFICES ASSUME Init PROVE OneRun
    OBVIOUS
  <2>1. \A j \in Job, w \in Worker : ~Runs(w, j)
    BY DEF Init, Runs
  <2>2. \A j \in Job, r \in Request : ~Speaks(r, j)
    BY DEF Init, NoRequest, Speaks
  <2> QED
    BY <2>1, <2>2 DEF OneRun
<1>2. IInv /\ OneRun /\ [Next]_vars /\ [~Requeues]_vars => OneRun'
  BY StepKeepsOneRun DEF Requeues, vars, table
<1> QED
  BY Invariance, <1>1, <1>2, PTL DEF Spec

\* And its report is final, whatever else is lost, late or repeated: only a
\* requeue lets one outcome replace another.
THEOREM ReportsAreFinalUntilRequeued ==
  Spec /\ [][~Requeues]_vars => ReportIsTerminal
<1>1. IInv /\ OneRun /\ [Next]_vars =>
        [\A j \in Job : status[j] \in {"succeeded", "failed"} =>
           status'[j] = status[j]]_vars
  <2> SUFFICES ASSUME IInv, OneRun, [Next]_vars, NEW j \in Job,
                      status[j] \in {"succeeded", "failed"}
               PROVE  status'[j] = status[j]
    OBVIOUS
  <2>1. CASE \E r \in Request : ClaimCommit(r)
    BY <2>1 DEF IInv, TypeOK, LockedRowIsQueued, ClaimCommit
  <2>2. CASE Sweep
    BY <2>2 DEF IInv, TypeOK, Sweep
  <2>3. CASE \E r \in Request : MarkSucceeded(r) \/ MarkFailed(r)
    BY <2>3 DEF IInv, TypeOK, OneRun, Speaks, MarkSucceeded, MarkFailed, Mark
  <2>4. CASE \E k \in Job : Enqueue(k) \/ Cancel(k)
    BY <2>4 DEF IInv, TypeOK, Enqueue, Cancel
  <2> QED
    BY QuietStep, <2>1, <2>2, <2>3, <2>4
<1> QED
  BY Invariance, RunsOnceUntilRequeued, <1>1, PTL DEF Spec, ReportIsTerminal
=============================================================================
