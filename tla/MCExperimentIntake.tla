------------------------- MODULE MCExperimentIntake -------------------------
(* Instances of ExperimentIntake for TLC: every upload asks for every slug. *)
EXTENDS ExperimentIntake, TLC

AllInputs == [u \in Upload |-> Slug]

Slugs == Permutations(Slug)
=============================================================================
