--------------------------- MODULE MCLedgerPaging ---------------------------
(* Instances of LedgerPaging for TLC. *)
EXTENDS LedgerPaging, TLC

\* No constant of the runs names an agent.
Symmetry == Permutations(Agents)
=============================================================================
