-------------------------- MODULE SubmissionLedger --------------------------
(***************************************************************************)
(* What the harness promises about its Kaggle submissions: a ledger with a *)
(* line for an entry in the leaderboard at most, each of which is settled  *)
(* once, with Kaggle's verdict on that entry, and only then shown on the   *)
(* MLflow run of the experiment.  There are no handlers and no poll tasks  *)
(* here, and nothing that can be lost with them.                           *)
(***************************************************************************)
CONSTANTS Experiment, Entry, Submission, Null

VARIABLES
  entry,  \* Kaggle: the state of each entry
  sent,   \* Kaggle: the experiment an entry is of
  line,   \* line[s]: the entry a line is for, and what it says of it
  score   \* the entry an experiment's run shows the score of

vars == <<entry, sent, line, score>>

Blank == [of |-> Null, says |-> "absent"]

Init ==
  /\ entry = [k \in Entry |-> "absent"]
  /\ sent = [k \in Entry |-> Null]
  /\ line = [s \in Submission |-> Blank]
  /\ score = [e \in Experiment |-> Null]

Send(e, k) ==
  /\ entry[k] = "absent"
  /\ entry' = [entry EXCEPT ![k] = "pending"]
  /\ sent' = [sent EXCEPT ![k] = e]
  /\ UNCHANGED <<line, score>>

Grade(k, v) ==
  /\ entry[k] = "pending"
  /\ entry' = [entry EXCEPT ![k] = v]
  /\ UNCHANGED <<sent, line, score>>

Record(s, k) ==
  /\ entry[k] # "absent"
  /\ line[s] = Blank
  /\ \A t \in Submission : line[t].of # k
  /\ line' = [line EXCEPT ![s] = [of |-> k, says |-> "running"]]
  /\ UNCHANGED <<entry, sent, score>>

Settle(s) ==
  /\ line[s].says = "running"
  /\ \E k \in Entry :
       /\ line[s].of = k
       /\ \/ entry[k] = "complete" /\ line' = [line EXCEPT ![s].says = "scored"]
          \/ entry[k] = "error" /\ line' = [line EXCEPT ![s].says = "failed"]
  /\ UNCHANGED <<entry, sent, score>>

Show(s, k) ==
  /\ line[s] = [of |-> k, says |-> "scored"]
  /\ score' = [score EXCEPT ![sent[k]] = k]
  /\ UNCHANGED <<entry, sent, line>>

Next ==
  \/ \E k \in Entry :
       (\E e \in Experiment : Send(e, k)) \/ Grade(k, "complete") \/ Grade(k, "error")
  \/ \E s \in Submission :
       Settle(s) \/ \E k \in Entry : Record(s, k) \/ Show(s, k)

Spec == Init /\ [][Next]_vars
=============================================================================
