-------------------------- MODULE MCPolicyVersions --------------------------
(* Instances of PolicyVersions for TLC. *)
EXTENDS PolicyVersions, TLC

\* No constant of the runs names an editor.
Symmetry == Permutations(Editors)
=============================================================================
