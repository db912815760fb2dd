------------------------- MODULE MCGovernedExecution -------------------------
(* Instances of GovernedExecution for TLC. *)
EXTENDS GovernedExecution

\* Calls are interchangeable: no constant of the runs that use this names one
\* of them, and Cancellable is all of them or none.
TaskSymmetry == Permutations(Tasks)
=============================================================================
