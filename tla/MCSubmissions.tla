--------------------------- MODULE MCSubmissions ---------------------------
(* Instances of Submissions for TLC.                                       *)
EXTENDS Submissions, TLC

Alike == Permutations(Entry) \cup Permutations(Submission)
           \cup Permutations(Request)
=============================================================================
