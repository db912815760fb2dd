---------------------------- MODULE MCReviewQueue ----------------------------
(* An administrator behind a shared bearer token and an operator with a      *)
(* session, both of one tenant, and a demo visitor confined to a prefix.     *)
EXTENDS ReviewQueue, TLC
CONSTANTS admin, operator, visitor, t1, demo

MCScope      == admin :> t1 @@ operator :> t1 @@ visitor :> None
MCPrefix     == admin :> None @@ operator :> None @@ visitor :> demo
MCCredential == admin :> "bearer" @@ operator :> "session" @@ visitor :> "demo"
==============================================================================
