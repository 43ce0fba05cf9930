------------------------------ MODULE JobBoard ------------------------------
(***************************************************************************)
(* What the job queue promises to the rest of the harness: a board on      *)
(* which jobs are posted, granted to one worker at a time, taken back, and *)
(* settled.  There are no requests, no agents and no heartbeats here: a    *)
(* grant is one step, a board takes back what it likes of what is running, *)
(* and a settlement comes from some worker the job was granted to, however *)
(* long ago.                                                               *)
(***************************************************************************)

CONSTANTS Job, Worker, Null

VARIABLES
  status,   \* where each job stands
  owner,    \* the worker it was last granted to, unless it was taken back
  granted   \* every grant there ever was

vars == <<status, owner, granted>>

Settled == {"succeeded", "failed"}

Init ==
  /\ status = [j \in Job |-> "absent"]
  /\ owner = [j \in Job |-> Null]
  /\ granted = {}

Post(j) ==
  /\ status[j] = "absent"
  /\ status' = [status EXCEPT ![j] = "queued"]
  /\ UNCHANGED <<owner, granted>>

Grant(j, w) ==
  /\ status[j] = "queued"
  /\ status' = [status EXCEPT ![j] = "running"]
  /\ owner' = [owner EXCEPT ![j] = w]
  /\ granted' = granted \cup {<<j, w>>}

\* Takes several running jobs back at once.
Revoke(S) ==
  /\ \A j \in S : status[j] = "running"
  /\ status' = [j \in Job |-> IF j \in S THEN "queued" ELSE status[j]]
  /\ owner' = [j \in Job |-> IF j \in S THEN Null ELSE owner[j]]
  /\ UNCHANGED granted

\* A worker that had the job settles it, though the board may have taken it
\* back, granted it to another worker or seen it settled or withdrawn.
Settle(j, w, s) ==
  /\ <<j, w>> \in granted
  /\ status' = [status EXCEPT ![j] = s]
  /\ UNCHANGED <<owner, granted>>

Withdraw(j) ==
  /\ status[j] \in {"queued", "running"}
  /\ status' = [status EXCEPT ![j] = "cancelled"]
  /\ UNCHANGED <<owner, granted>>

Next ==
  \/ \E j \in Job : Post(j) \/ Withdraw(j)
  \/ \E j \in Job, w \in Worker :
       Grant(j, w) \/ \E s \in Settled : Settle(j, w, s)
  \/ \E S \in SUBSET Job : Revoke(S)

Spec == Init /\ [][Next]_vars
=============================================================================
