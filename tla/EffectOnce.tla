------------------------------ MODULE EffectOnce ------------------------------
(***************************************************************************)
(* What SDK-governed execution promises for each authorization: one        *)
(* admitted attempt, at most one executor invocation, at most one effect,  *)
(* and then completion, ledger record, delivery and success in this order, *)
(* none of them ever undone.  Calls, handles, retries, crashes and the     *)
(* outbox do not appear: GovernedExecution implements this specification.  *)
(***************************************************************************)
EXTENDS Naturals

CONSTANT Requests

VARIABLES
    admitted,      \* attempts that crossed the durable boundary
    invocations,   \* executor invocations of each authorization
    effects,       \* effects of each authorization in the world
    completed,     \* authorizations with a durable completion
    recorded,      \* authorizations with a receipt in the ledger
    delivered,     \* authorizations whose receipt was marked delivered
    reported       \* authorizations whose success was reported

vars == <<admitted, invocations, effects, completed, recorded, delivered, reported>>

Init ==
    /\ admitted = {}
    /\ invocations = [r \in Requests |-> 0]
    /\ effects = [r \in Requests |-> 0]
    /\ completed = {}
    /\ recorded = {}
    /\ delivered = {}
    /\ reported = {}

Admit(r) ==
    /\ r \notin admitted
    /\ admitted' = admitted \cup {r}
    /\ UNCHANGED <<invocations, effects, completed, recorded, delivered, reported>>

Invoke(r) ==
    /\ r \in admitted \ completed
    /\ invocations[r] = 0
    /\ invocations' = [invocations EXCEPT ![r] = 1]
    /\ UNCHANGED <<admitted, effects, completed, recorded, delivered, reported>>

Land(r) ==
    /\ invocations[r] = 1 /\ effects[r] = 0
    /\ effects' = [effects EXCEPT ![r] = 1]
    /\ UNCHANGED <<admitted, invocations, completed, recorded, delivered, reported>>

Complete(r) ==
    /\ effects[r] = 1
    /\ completed' = completed \cup {r}
    /\ UNCHANGED <<admitted, invocations, effects, recorded, delivered, reported>>

Record(r) ==
    /\ r \in completed
    /\ recorded' = recorded \cup {r}
    /\ UNCHANGED <<admitted, invocations, effects, completed, delivered, reported>>

\* Delivery is confirmed, with or without a call waiting to report it.
Deliver(r) ==
    /\ r \in recorded
    /\ delivered' = delivered \cup {r}
    /\ reported' \in {reported, reported \cup {r}}
    /\ UNCHANGED <<admitted, invocations, effects, completed, recorded>>

Next ==
    \E r \in Requests :
        Admit(r) \/ Invoke(r) \/ Land(r) \/ Complete(r) \/ Record(r) \/ Deliver(r)

Spec == Init /\ [][Next]_vars
===============================================================================
