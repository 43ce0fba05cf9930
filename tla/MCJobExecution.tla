--------------------------- MODULE MCJobExecution ---------------------------
(* Instances of JobExecution for TLC.                                      *)
EXTENDS JobExecution

\* inputs: competitions: [titanic], datasets: [uciml/iris]
Inputs == {<<"competitions", "titanic">>, <<"datasets", "uciml__iris">>}
=============================================================================
