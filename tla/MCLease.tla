------------------------------- MODULE MCLease -------------------------------
(* Instances of Lease for TLC; a tick is five seconds.                     *)
EXTENDS Lease, TLC

Alike == Permutations(Worker) \cup Permutations(Id)
=============================================================================
