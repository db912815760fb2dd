---------------------------- MODULE MCExactBinding ----------------------------
(* A single-tool request whose arguments may come back in another order, a   *)
(* batch of two, and one that is not valid.                                  *)
EXTENDS ExactBinding, TLC
CONSTANTS x, y, z, i1, i2, e1, e2

Symmetry == Permutations({i1, i2}) \cup Permutations({e1, e2})

Single(args)   == [method |-> "tool", calls |-> <<[id |-> "", name |-> "read", args |-> args]>>]
Sibling(id)    == [id |-> id, name |-> "write", args |-> <<<<1, x>>>>]
Batch(ids)     == [method |-> "batch", calls |-> [i \in DOMAIN ids |-> Sibling(ids[i])]]

MCDrafts     == {Single(<<<<1, x>>, <<2, y>>>>), Single(<<<<2, y>>, <<1, x>>>>),
                 Batch(<<"a", "b">>), Batch(<<"a", "a">>)}
==============================================================================
