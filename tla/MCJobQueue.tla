----------------------------- MODULE MCJobQueue -----------------------------
(* Instances of JobQueue for TLC.                                         *)
EXTENDS JobQueue, TLC

\* Jobs that need the only feature; all were created at the same time.
GpuJob == [j \in Job |-> {"gpu"}]
\* Jobs that any worker can run.
PlainJob == [j \in Job |-> {}]
SameTime == [j \in Job |-> 0]

SlotsAndWorkers == Permutations(Request) \cup Permutations(Worker)
AllAlike == SlotsAndWorkers \cup Permutations(Job)
=============================================================================
