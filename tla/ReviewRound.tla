----------------------------- MODULE ReviewRound -----------------------------
(***************************************************************************)
(* What human review promises to the rest of the system: a round is        *)
(* decided at most once, an approval says whether it modified the request, *)
(* and nothing that was decided is ever undone.  People, clients, retries  *)
(* and quorums do not appear: ReviewQueue implements this specification,   *)
(* and ExactBinding is built on it.                                        *)
(***************************************************************************)
CONSTANT Rounds

VARIABLE review    \* how each round stands

Standings == {"none", "open", "approved", "modified", "denied"}

ReviewInit == review = [n \in Rounds |-> "none"]

\* A request is parked for review, or its approval tier decides it at once.
Open(n) ==
    /\ review[n] = "none"
    /\ \E standing \in {"open", "approved"} : review' = [review EXCEPT ![n] = standing]

\* Approval, approval with a diff, denial; expiry is a denial.
Decide(n) ==
    /\ review[n] = "open"
    /\ \E verdict \in {"approved", "modified", "denied"} :
          review' = [review EXCEPT ![n] = verdict]

ReviewSpec == ReviewInit /\ [][\E n \in Rounds : Open(n) \/ Decide(n)]_review
==============================================================================
