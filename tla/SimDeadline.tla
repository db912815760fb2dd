---------------------------- MODULE SimDeadline ----------------------------
(***************************************************************************)
(* The deadline of the simulator client (src/src/sim.rs): one POST /agents *)
(* in real time, in seconds.  The simulator gives up an agent creation     *)
(* after its own budget; the client's deadline is meant to be so much      *)
(* later that a creation, which is not idempotent, cannot complete after   *)
(* the caller has been told of a timeout and may have tried again.         *)
(*                                                                         *)
(* How long the client connects and how long the request is on its way is  *)
(* the network's choice; so is whether the request, or its answer, is lost.*)
(***************************************************************************)
EXTENDS Naturals

CONSTANTS
    RequestTimeout, \* the client's request_timeout
    ConnectTimeout, \* the longest it takes to connect
    MaxDelay,       \* bound: the longest a request is on its way
    ServerBudget,   \* after which the simulator gives up a creation
    Horizon         \* bound: the clock stops here

\* with_request_timeout refuses a zero deadline.
Durations ==
    /\ RequestTimeout \in Nat \ {0}
    /\ ConnectTimeout \in Nat /\ MaxDelay \in Nat
    /\ ServerBudget \in Nat /\ Horizon \in Nat

\* The deadline leaves room for connecting, the way, and the whole budget.
Slack == ConnectTimeout + MaxDelay + ServerBudget < RequestTimeout

VARIABLES
    now,        \* seconds since the call
    caller,     \* "connecting", "waiting", "returned", "timed_out", "rejected"
    request,    \* "none", "sent", "lost", "arrived"
    sentAt,     \* when the request was sent
    creation,   \* at the simulator: "none", "running", "done", "given_up"
    startedAt,  \* when the creation began
    answer      \* "none", "sent", "lost"
vars == <<now, caller, request, sentAt, creation, startedAt, answer>>

Pending == caller \in {"connecting", "waiting"}

Init ==
    /\ now = 0
    /\ caller = "connecting"
    /\ request = "none" /\ sentAt = 0
    /\ creation = "none" /\ startedAt = 0
    /\ answer = "none"

\* validate_operator refuses the name before anything is sent.
Reject ==
    /\ now = 0 /\ caller = "connecting"
    /\ caller' = "rejected"
    /\ UNCHANGED <<now, request, sentAt, creation, startedAt, answer>>

\* The connection is up (or was, in the pool) and the request goes out.
Send ==
    /\ caller = "connecting"
    /\ caller' = "waiting"
    /\ request' = "sent" /\ sentAt' = now
    /\ UNCHANGED <<now, creation, startedAt, answer>>

\* Connecting fails, and nothing is sent.
FailToConnect ==
    /\ caller = "connecting"
    /\ caller' = "returned"
    /\ UNCHANGED <<now, request, sentAt, creation, startedAt, answer>>

LoseRequest ==
    /\ request = "sent"
    /\ request' = "lost"
    /\ UNCHANGED <<now, caller, sentAt, creation, startedAt, answer>>

\* The simulator starts to create the agents.
Arrive ==
    /\ request = "sent"
    /\ request' = "arrived"
    /\ creation' = "running" /\ startedAt' = now
    /\ UNCHANGED <<now, caller, sentAt, answer>>

Create ==
    /\ creation = "running"
    /\ creation' = "done"
    /\ \E a \in {"sent", "lost"} : answer' = a
    /\ UNCHANGED <<now, caller, request, sentAt, startedAt>>

GiveUp ==
    /\ creation = "running" /\ now = startedAt + ServerBudget
    /\ creation' = "given_up"
    /\ \E a \in {"sent", "lost"} : answer' = a
    /\ UNCHANGED <<now, caller, request, sentAt, startedAt>>

Receive ==
    /\ caller = "waiting" /\ answer = "sent"
    /\ caller' = "returned"
    /\ UNCHANGED <<now, request, sentAt, creation, startedAt, answer>>

\* The deadline that the request carries; it covers connecting, too.
Deadline == RequestTimeout

TimeOut ==
    /\ Pending /\ now >= Deadline
    /\ caller' = "timed_out"
    /\ UNCHANGED <<now, request, sentAt, creation, startedAt, answer>>

(***************************************************************************)
(* Time passes unless something is due: connecting, the way of a request,  *)
(* the simulator's budget and the client's deadline are bounded.           *)
(***************************************************************************)
Due ==
    \/ caller = "connecting" /\ now >= ConnectTimeout
    \/ request = "sent" /\ now >= sentAt + MaxDelay
    \/ creation = "running" /\ now >= startedAt + ServerBudget
    \/ Pending /\ now >= Deadline

Tick ==
    /\ now < Horizon /\ ~Due
    /\ now' = now + 1
    /\ UNCHANGED <<caller, request, sentAt, creation, startedAt, answer>>

Next == Reject \/ FailToConnect \/ Send \/ LoseRequest \/ Arrive
          \/ Create \/ GiveUp \/ Receive \/ TimeOut \/ Tick

Spec == Init /\ [][Next]_vars

-----------------------------------------------------------------------------
\* Every variable stays within its range.
TypeOK ==
    /\ now \in Nat /\ sentAt \in Nat /\ startedAt \in Nat
    /\ caller \in {"connecting", "waiting", "returned", "timed_out", "rejected"}
    /\ request \in {"none", "sent", "lost", "arrived"}
    /\ creation \in {"none", "running", "done", "given_up"}
    /\ answer \in {"none", "sent", "lost"}

(* sim.rs:91-93: "Keep the client deadline above that server budget so a   *)
(* non-idempotent create cannot complete after the caller has already      *)
(* reported a timeout."                                                    *)
NoCompletionAfterTimeout ==
    [][creation' = "done" /\ creation # "done" => caller # "timed_out"]_vars

(* Nor is one still running then: the caller of a timed-out create may     *)
(* look at the roster and try again.                                       *)
TimeoutMeansOver == caller = "timed_out" => creation # "running" /\ request # "sent"
=============================================================================
