--------------------------- MODULE TenantLifecycle ---------------------------
(***************************************************************************)
(* The durable tenant lifecycle, as the clients offer it: AgentsClient     *)
(* starts an operation, claims its next step under a lease, retries and    *)
(* completes steps (src/src/agents.rs:825-957); the step's owner applies   *)
(* its effect (agents.rs offboard_tenant_effect; tenant_lifecycle of       *)
(* ledger.rs, policies.rs and hil.rs).                                     *)
(*                                                                         *)
(* Any number of coordinators do this for one tenant.  Each has at most    *)
(* one request outstanding; it may give up on it (the client's timeout) or *)
(* crash, and the request may still arrive, at any later time.             *)
(***************************************************************************)
EXTENDS Naturals, FiniteSets

CONSTANTS
    Coordinators,
    Operations,     \* operations, each with its idempotency key and UUID
    NumSteps,       \* steps of an operation, in order
    Fences,         \* the steps whose owner checks the lease (authority_fence)
    MaxAttempts,    \* claims of a step before it needs manual recovery
    MaxInFlight,    \* bound: requests under way at a time
    None

ASSUME LifecycleAssumption ==
    /\ NumSteps \in Nat \ {0}
    /\ MaxAttempts \in Nat \ {0}
    /\ MaxInFlight \in Nat
    /\ Fences \subseteq 1..NumSteps
    /\ None \notin Operations

Steps == 1..NumSteps
Outcomes == {"succeeded", "retryable", "manual_recovery"}

(***************************************************************************)
(* Requests: start and retry name the operation; claim names the step too; *)
(* effect and complete carry the lease of the claim they belong to.        *)
(***************************************************************************)
Request(k, o, s, l, out) ==
    [kind |-> k, operation |-> o, step |-> s, lease |-> l, outcome |-> out]

VARIABLES
    operation,  \* of each operation: "absent", "pending", "running",
                \* "waiting_retry", "manual_recovery", "succeeded"
    done,       \* how many of its steps have succeeded
    attempts,   \* claims of its current step
    lease,      \* the latest lease of its current step, 0 if none
    live,       \* whether that lease has neither expired nor been used
    granted,    \* how many leases there have been
    applied,    \* how often each owner has applied each step's effect
    stored,     \* by owner and step: the identities it holds a receipt for
    pc,         \* of each coordinator
    work,       \* the claim it holds: operation, step, lease, outcome
    awaiting,   \* the request it waits for
    network     \* requests on their way

server == <<operation, done, attempts, lease, live, granted>>
owners == <<applied, stored>>
vars == <<operation, done, attempts, lease, live, granted, applied, stored,
          pc, work, awaiting, network>>

NoWork == [operation |-> None, step |-> 0, lease |-> 0, outcome |-> "retryable"]

Init ==
    /\ operation = [o \in Operations |-> "absent"]
    /\ done = [o \in Operations |-> 0]
    /\ attempts = [o \in Operations |-> 0]
    /\ lease = [o \in Operations |-> 0]
    /\ live = [o \in Operations |-> FALSE]
    /\ granted = 0
    /\ applied = [o \in Operations |-> [s \in Steps |-> 0]]
    /\ stored = [o \in Operations |-> [s \in Steps |-> {}]]
    /\ pc = [c \in Coordinators |-> "idle"]
    /\ work = [c \in Coordinators |-> NoWork]
    /\ awaiting = [c \in Coordinators |-> None]
    /\ network = {}

Active(o) == operation[o] \notin {"absent", "succeeded"}
CurrentStep(o) == done[o] + 1

-----------------------------------------------------------------------------
(* Requests of a coordinator *)

Send(c, request, next) ==
    /\ Cardinality(network) < MaxInFlight
    /\ network' = network \cup {request}
    /\ awaiting' = [awaiting EXCEPT ![c] = request]
    /\ pc' = [pc EXCEPT ![c] = next]
    /\ UNCHANGED <<server, owners>>

\* start_tenant_lifecycle
SendStart(c, o) ==
    /\ pc[c] = "idle"
    /\ Send(c, Request("start", o, 0, 0, "retryable"), "starting")
    /\ UNCHANGED work

\* tenant_lifecycle (the read) and claim_tenant_lifecycle_step: the step is
\* the first that is not terminal in the operation as it was read.
SendClaim(c, o) ==
    /\ pc[c] = "idle"
    /\ Active(o) /\ operation[o] # "manual_recovery"
    /\ Send(c, Request("claim", o, CurrentStep(o), 0, "retryable"), "claiming")
    /\ UNCHANGED work

\* retry_tenant_lifecycle_step
SendRetry(c, o) ==
    /\ pc[c] = "idle"
    /\ operation[o] = "waiting_retry"
    /\ Send(c, Request("retry", o, CurrentStep(o), 0, "retryable"), "retrying")
    /\ UNCHANGED work

\* offboard_tenant_effect, or tenant_lifecycle of the ledger, policy or HIL client
SendEffect(c) ==
    /\ pc[c] = "claimed"
    /\ Send(c, Request("effect", work[c].operation, work[c].step, work[c].lease,
                       "retryable"), "effecting")
    /\ UNCHANGED work

\* complete_tenant_lifecycle_step, with the outcome of the effect call
SendComplete(c) ==
    /\ pc[c] = "reporting"
    /\ Send(c, Request("complete", work[c].operation, work[c].step, work[c].lease,
                       work[c].outcome), "completing")
    /\ UNCHANGED work

\* Faulty variant: a timeout is taken for an answer.
AfterTimeout_Succeeded(c) == IF pc[c] = "effecting" THEN "succeeded" ELSE "retryable"

\* Faulty variant: a timeout is reported as an outcome of its own.
AfterTimeout_Unknown(c) == "unknown"

\* What a coordinator reports of an effect call that ended in an error.
AfterTimeout(c) == "retryable"

\* Faulty variant: the client has no deadline.
RequestTimesOut_Never(c) == FALSE /\ UNCHANGED vars

\* The deadline of the HTTP client passes, or the answer is lost: the call
\* returns ClavenarError::Transport, and the request may still be under way.
RequestTimesOut(c) ==
    /\ pc[c] \in {"starting", "claiming", "retrying", "effecting", "completing"}
    /\ IF pc[c] = "effecting"
       THEN /\ pc' = [pc EXCEPT ![c] = "reporting"]
            /\ work' = [work EXCEPT ![c].outcome = AfterTimeout(c)]
       ELSE /\ pc' = [pc EXCEPT ![c] = "idle"]
            /\ work' = [work EXCEPT ![c] = NoWork]
    /\ awaiting' = [awaiting EXCEPT ![c] = None]
    /\ UNCHANGED <<server, owners, network>>

\* The coordinator dies and starts again with no memory of its claim.
Crash(c) ==
    /\ pc[c] # "idle"
    /\ pc' = [pc EXCEPT ![c] = "idle"]
    /\ work' = [work EXCEPT ![c] = NoWork]
    /\ awaiting' = [awaiting EXCEPT ![c] = None]
    /\ UNCHANGED <<server, owners, network>>

-----------------------------------------------------------------------------
(* The services.  A request is handled once; its answer reaches the coordinator *)
(* that still waits for it, or is lost.                                        *)

Answer(request, next, claim) ==
    /\ network' = network \ {request}
    /\ \E waiting \in {{}, {c \in Coordinators : awaiting[c] = request}} :
       /\ pc' = [c \in Coordinators |-> IF c \in waiting THEN next ELSE pc[c]]
       /\ work' = [c \in Coordinators |-> IF c \in waiting THEN claim ELSE work[c]]
       /\ awaiting' = [c \in Coordinators |-> IF c \in waiting THEN None ELSE awaiting[c]]

\* A key that was used returns its operation; another active one is a 409.
HandleStart(request) ==
    LET o == request.operation IN
    /\ request.kind = "start"
    /\ IF operation[o] = "absent" /\ ~\E other \in Operations : Active(other)
       THEN operation' = [operation EXCEPT ![o] = "pending"]
       ELSE UNCHANGED operation
    /\ Answer(request, "idle", NoWork)
    /\ UNCHANGED <<done, attempts, lease, live, granted, owners>>

Claimable(request) ==
    LET o == request.operation IN
    /\ request.step = CurrentStep(o)
    /\ \/ operation[o] = "pending"
       \/ operation[o] = "running" /\ ~live[o]

\* The step becomes running under a new lease; a step that was claimed too often
\* needs manual recovery; everything else is refused.
HandleClaim(request) ==
    LET o == request.operation IN
    /\ request.kind = "claim"
    /\ \/ /\ Claimable(request) /\ attempts[o] < MaxAttempts
          /\ operation' = [operation EXCEPT ![o] = "running"]
          /\ attempts' = [attempts EXCEPT ![o] = @ + 1]
          /\ granted' = granted + 1
          /\ lease' = [lease EXCEPT ![o] = granted + 1]
          /\ live' = [live EXCEPT ![o] = TRUE]
          /\ Answer(request, "claimed", [operation |-> o, step |-> request.step,
                                         lease |-> granted + 1, outcome |-> "retryable"])
          /\ UNCHANGED done
       \/ /\ Claimable(request) /\ attempts[o] >= MaxAttempts
          /\ operation' = [operation EXCEPT ![o] = "manual_recovery"]
          /\ Answer(request, "idle", NoWork)
          /\ UNCHANGED <<done, attempts, lease, live, granted>>
       \/ /\ ~Claimable(request)
          /\ Answer(request, "idle", NoWork)
          /\ UNCHANGED server
    /\ UNCHANGED owners

LeaseExpires(o) ==
    /\ live[o]
    /\ live' = [live EXCEPT ![o] = FALSE]
    /\ UNCHANGED <<operation, done, attempts, lease, granted, owners,
                   pc, work, awaiting, network>>

\* Faulty variant: any live lease will do.
ExactLiveLease_AnyToken(request) == live[request.operation]

ExactLiveLease(request) ==
    live[request.operation] /\ lease[request.operation] = request.lease

\* Faulty variant: every attempt has an identity of its own.
EffectIdentity_Attempt(request) == request.lease

\* What the owner recognises a repeated effect by: the operation's UUID, which
\* the clients send unchanged on every attempt.
EffectIdentity(request) == request.operation

EffectRefused(request) == request.step \in Fences /\ ~ExactLiveLease(request)

\* The owner applies the effect once for an identity, and answers a repetition
\* with the receipt it stored.
HandleEffect(request) ==
    LET o == request.operation
        s == request.step
        id == EffectIdentity(request) IN
    /\ request.kind = "effect"
    /\ \/ /\ ~EffectRefused(request) /\ id \notin stored[o][s]
          /\ applied' = [applied EXCEPT ![o][s] = @ + 1]
          /\ stored' = [stored EXCEPT ![o][s] = @ \cup {id}]
          /\ Answer(request, "reporting", [operation |-> o, step |-> s,
                      lease |-> request.lease, outcome |-> "succeeded"])
       \/ /\ ~EffectRefused(request) /\ id \in stored[o][s]
          /\ Answer(request, "reporting", [operation |-> o, step |-> s,
                      lease |-> request.lease, outcome |-> "succeeded"])
          /\ UNCHANGED owners
       \/ /\ EffectRefused(request)
          /\ Answer(request, "idle", NoWork)
          /\ UNCHANGED owners
    /\ UNCHANGED server

\* A completion counts against the exact live lease only; it ends the lease.
HandleComplete(request) ==
    LET o == request.operation IN
    /\ request.kind = "complete"
    /\ Answer(request, "idle", NoWork)
    /\ IF ~ExactLiveLease(request) THEN UNCHANGED server
       ELSE /\ live' = [live EXCEPT ![o] = FALSE]
            /\ IF request.outcome = "succeeded"
               THEN /\ done' = [done EXCEPT ![o] = @ + 1]
                    /\ attempts' = [attempts EXCEPT ![o] = 0]
                    /\ operation' = [operation EXCEPT ![o] =
                         IF done[o] + 1 = NumSteps THEN "succeeded" ELSE "pending"]
               ELSE /\ operation' = [operation EXCEPT ![o] =
                         IF request.outcome = "retryable" /\ attempts[o] < MaxAttempts
                         THEN "waiting_retry" ELSE "manual_recovery"]
                    /\ UNCHANGED <<done, attempts>>
            /\ UNCHANGED <<lease, granted>>
    /\ UNCHANGED owners

\* A retryable step becomes due, by its timer or on request; attempts stay.
BecomesDue(o) == operation' = [operation EXCEPT ![o] = "pending"]

HandleRetry(request) ==
    LET o == request.operation IN
    /\ request.kind = "retry"
    /\ IF operation[o] = "waiting_retry" /\ request.step = CurrentStep(o)
       THEN BecomesDue(o) ELSE UNCHANGED operation
    /\ Answer(request, "idle", NoWork)
    /\ UNCHANGED <<done, attempts, lease, live, granted, owners>>

RetryTimer(o) ==
    /\ operation[o] = "waiting_retry"
    /\ BecomesDue(o)
    /\ UNCHANGED <<done, attempts, lease, live, granted, owners,
                   pc, work, awaiting, network>>

-----------------------------------------------------------------------------
CoordinatorStep(c) ==
    \/ \E o \in Operations : SendStart(c, o) \/ SendClaim(c, o) \/ SendRetry(c, o)
    \/ SendEffect(c) \/ SendComplete(c) \/ RequestTimesOut(c)

Handle(request) ==
    \/ HandleStart(request) \/ HandleClaim(request) \/ HandleRetry(request)
    \/ HandleEffect(request) \/ HandleComplete(request)

Next ==
    \/ \E c \in Coordinators : CoordinatorStep(c) \/ Crash(c)
    \/ \E request \in network : Handle(request)
    \/ \E o \in Operations : LeaseExpires(o) \/ RetryTimer(o)

Spec == Init /\ [][Next]_vars

(* The coordinators' hosts keep driving an active operation, calls return and *)
(* requests under way arrive, leases expire and retries become due.  Nothing  *)
(* is assumed of crashes.                                                     *)
HandleKind(kind) == \E request \in network : request.kind = kind /\ Handle(request)

FairSpec ==
    /\ Spec
    /\ \A c \in Coordinators, o \in Operations : SF_vars(SendClaim(c, o))
    /\ \A c \in Coordinators :
          WF_vars(SendEffect(c) \/ SendComplete(c) \/ RequestTimesOut(c))
    /\ \A kind \in {"start", "claim", "retry", "effect", "complete"} :
          WF_vars(HandleKind(kind))
    /\ \A o \in Operations : WF_vars(LeaseExpires(o)) /\ WF_vars(RetryTimer(o))

-----------------------------------------------------------------------------
(* Properties *)

Requests ==
    [kind : {"start", "claim", "retry", "effect", "complete"},
     operation : Operations, step : 0..NumSteps, lease : Nat, outcome : Outcomes]

\* Every variable stays within its range; claims of a step never exceed
\* MaxAttempts, and no lease is known that was not granted.
TypeOK ==
    /\ operation \in [Operations -> {"absent", "pending", "running", "waiting_retry",
                                     "manual_recovery", "succeeded"}]
    /\ done \in [Operations -> 0..NumSteps]
    /\ attempts \in [Operations -> 0..MaxAttempts]
    /\ granted \in Nat
    /\ lease \in [Operations -> 0..granted]
    /\ live \in [Operations -> BOOLEAN]
    /\ applied \in [Operations -> [Steps -> Nat]]
    /\ pc \in [Coordinators -> {"idle", "starting", "claiming", "retrying", "claimed",
                                "effecting", "reporting", "completing"}]
    /\ work \in [Coordinators -> [operation : Operations \cup {None}, step : 0..NumSteps,
                                  lease : Nat, outcome : Outcomes]]
    /\ awaiting \in [Coordinators -> Requests \cup {None}]
    /\ network \subseteq Requests

\* An owner applies an effect only for the current step of an active operation,
\* although effect requests outlive the timeouts, leases and crashes of the
\* coordinators that sent them: no effect overtakes an earlier step, and none
\* lands in a tenant that a later operation is already changing (agents.rs:872
\* "Journal the first non-terminal step as running before calling its
\* idempotent owner effect").
EffectsInOrder ==
    [][\A o \in Operations, s \in Steps :
         applied'[o][s] # applied[o][s] => Active(o) /\ s = CurrentStep(o)]_vars

\* However often a step is claimed and its request repeated, its owner applies
\* the effect once (policies.rs:557-559 "Repeating the operation UUID returns
\* its exact stored receipt").
AppliedOnce == \A o \in Operations, s \in Steps : applied[o][s] <= 1

\* A step that counts as succeeded was applied by its owner, so an operation
\* reports success only when every effect took place (README.md:275 "Callers
\* may report success only from TenantLifecycleOperationState::Succeeded").
SuccessMeansApplied ==
    \A o \in Operations :
        /\ \A s \in 1..done[o] : applied[o][s] > 0
        /\ operation[o] = "succeeded" => done[o] = NumSteps

\* An active operation comes to an end, or asks for manual recovery, although
\* coordinators crash and answers are lost.
EventuallySettled ==
    \A o \in Operations :
        Active(o) ~> operation[o] \in {"succeeded", "manual_recovery"}
=============================================================================
