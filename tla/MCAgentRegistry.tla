--------------------------- MODULE MCAgentRegistry ---------------------------
(* Three requests for one name: two that ask for the same agent in different *)
(* words, and one with a yellow entry of its own.                            *)
EXTENDS AgentRegistry, TLC
CONSTANTS a, b, svid, team, o1, o2

Symmetry == Permutations({o1, o2})

Want(scope, yellow) == [team |-> team, scope |-> scope, yellow |-> yellow, kinds |-> <<svid>>]

MCWants == {Want(<<a, b>>, <<>>), Want(<<b, a, a>>, <<>>), Want(<<a, b>>, <<a>>)}
==============================================================================
