----------------------------- MODULE LogStream ------------------------------
(***************************************************************************)
(* What a worker promises about the log of its job: the lines are passed   *)
(* on in turn, each arrives at once, or later, or not at all, and never    *)
(* twice, and the stream is closed, for the report, when no line is left   *)
(* to pass on.  There is no thread here, no queue and no task that waits.  *)
(***************************************************************************)
EXTENDS Naturals, Sequences

VARIABLES
  logged,    \* how many lines the script has logged
  passed,    \* how many of them were passed on
  adrift,    \* those that were passed on and may still arrive
  received,  \* the lines the gateway has
  closed     \* whether the worker went on to its report

vars == <<logged, passed, adrift, received, closed>>

Init ==
  logged = 0 /\ passed = 0 /\ adrift = {} /\ received = <<>> /\ closed = FALSE

Log ==
  /\ ~closed
  /\ logged' = logged + 1
  /\ UNCHANGED <<passed, adrift, received, closed>>

\* The next line is passed on: it arrives, or is on its way.
Pass ==
  /\ passed < logged
  /\ passed' = passed + 1
  /\ \/ received' = Append(received, passed + 1) /\ UNCHANGED adrift
     \/ adrift' = adrift \cup {passed + 1} /\ UNCHANGED received
  /\ UNCHANGED <<logged, closed>>

Arrive(n) ==
  /\ n \in adrift
  /\ adrift' = adrift \ {n}
  /\ received' = Append(received, n)
  /\ UNCHANGED <<logged, passed, closed>>

Close ==
  /\ ~closed /\ passed = logged
  /\ closed' = TRUE
  /\ UNCHANGED <<logged, passed, adrift, received>>

Next == Log \/ Pass \/ (\E n \in adrift : Arrive(n)) \/ Close

Spec == Init /\ [][Next]_vars
=============================================================================
