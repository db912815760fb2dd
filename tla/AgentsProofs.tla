---------------------------- MODULE AgentsProofs ----------------------------
(***************************************************************************)
(* What AgentsClient promises, for every value of the constants: of the    *)
(* tenant lifecycle (TenantLifecycle), and of the agent registry           *)
(* (AgentRegistry).                                                        *)
(***************************************************************************)
EXTENDS TenantLifecycle, AgentRegistry, TLAPS

-----------------------------------------------------------------------------
(* The inductive invariant.                                                *)

Conditions == {"absent", "pending", "running", "waiting_retry", "manual_recovery", "succeeded"}
Places == {"idle", "starting", "claiming", "retrying", "claimed",
           "effecting", "reporting", "completing"}
Works  == [operation : Operations \cup {None}, step : 0..NumSteps, lease : Nat, outcome : Outcomes]

\* The names under which owners store their receipts.
StoredOK == stored \in [Operations -> [Steps -> SUBSET Operations]]

\* What holds of a claim for as long as anybody remembers it: its lease was
\* granted for a step that was current then, and is current while the lease lives.
Claimed(o, s, l) ==
    /\ o \in Operations /\ s \in Steps /\ l \in 1..granted
    /\ operation[o] # "absent"
    /\ s <= done[o] + 1
    /\ live[o] /\ lease[o] = l => s = done[o] + 1

Holding == {"claimed", "effecting", "reporting", "completing"}

\* Coordinators and requests act on claims, and report a success only of an
\* effect that took place.
WorkOK ==
    \A c \in Coordinators :
        /\ pc[c] \in Holding => Claimed(work[c].operation, work[c].step, work[c].lease)
        /\ pc[c] = "reporting" /\ work[c].outcome = "succeeded"
              => applied[work[c].operation][work[c].step] > 0

NetworkOK ==
    \A r \in network :
        /\ r.kind \in {"effect", "complete"} => Claimed(r.operation, r.step, r.lease)
        /\ r.kind = "complete" /\ r.outcome = "succeeded" => applied[r.operation][r.step] > 0

\* Only a running operation has a live lease; an operation that has steps left
\* has not succeeded; an owner applied what it holds a receipt for, once.
OperationsOK ==
    \A o \in Operations :
        /\ live[o] => operation[o] = "running"
        /\ operation[o] = "succeeded" <=> done[o] = NumSteps
        /\ \A s \in Steps : /\ applied[o][s] = (IF o \in stored[o][s] THEN 1 ELSE 0)
                            /\ s <= done[o] => o \in stored[o][s]

LifecycleInv == TypeOK /\ StoredOK /\ WorkOK /\ NetworkOK /\ OperationsOK

LEMMA LifecycleInit == Init => LifecycleInv
<1> SUFFICES ASSUME Init PROVE LifecycleInv
  OBVIOUS
<1>1. 0 \in 0..NumSteps /\ 0 \in 0..MaxAttempts /\ NumSteps # 0
  BY LifecycleAssumption
<1>2. NoWork \in Works
  BY <1>1 DEF NoWork, Works, Outcomes
<1>3. TypeOK
  BY <1>1, <1>2 DEF Init, TypeOK, Works, Steps
<1>4. StoredOK
  BY DEF Init, StoredOK
<1>5. WorkOK /\ NetworkOK
  BY DEF Init, WorkOK, NetworkOK, Holding
<1>6. OperationsOK
  BY <1>1 DEF Init, OperationsOK, Steps
<1> QED BY <1>3, <1>4, <1>5, <1>6 DEF LifecycleInv

-----------------------------------------------------------------------------
(* Requests and answers.                                                   *)

LEMMA AnswerFacts ==
    ASSUME TypeOK, NEW request, NEW next \in Places, NEW claim \in Works,
           Answer(request, next, claim)
    PROVE  /\ network' \subseteq network
           /\ pc' \in [Coordinators -> Places] /\ work' \in [Coordinators -> Works]
           /\ awaiting' \in [Coordinators -> Requests \cup {None}]
           /\ \A c \in Coordinators : \/ pc'[c] = pc[c] /\ work'[c] = work[c]
                                      \/ pc'[c] = next /\ work'[c] = claim
<1>1. PICK awaiters :
        /\ pc' = [c \in Coordinators |-> IF c \in awaiters THEN next ELSE pc[c]]
        /\ work' = [c \in Coordinators |-> IF c \in awaiters THEN claim ELSE work[c]]
        /\ awaiting' = [c \in Coordinators |-> IF c \in awaiters THEN None ELSE awaiting[c]]
  BY DEF Answer
<1>2. /\ pc \in [Coordinators -> Places] /\ work \in [Coordinators -> Works]
      /\ awaiting \in [Coordinators -> Requests \cup {None}]
  BY DEF TypeOK, Places, Works
<1>3. network' \subseteq network
  BY DEF Answer
<1> QED BY <1>1, <1>2, <1>3

LEMMA RequestFacts ==
    ASSUME TypeOK, NEW request \in network
    PROVE  /\ request.operation \in Operations /\ request.step \in 0..NumSteps
           /\ request.lease \in Nat /\ request.outcome \in Outcomes
  BY DEF TypeOK, Requests

LEMMA NoWorkFacts == NoWork \in Works /\ "idle" \notin Holding
  BY LifecycleAssumption DEF NoWork, Works, Outcomes, Holding

\* Claims survive what the server does: a lease that is granted is new, a step
\* that ends takes its lease with it, and nothing started becomes absent.
ServerMovesOn ==
    /\ granted' \in Nat /\ granted <= granted'
    /\ \A o \in Operations :
          /\ operation[o] # "absent" => operation'[o] # "absent"
          /\ done'[o] \in {done[o], done[o] + 1}
          /\ live'[o] => \/ live[o] /\ lease'[o] = lease[o] /\ done'[o] = done[o]
                         \/ lease'[o] > granted

LEMMA ClaimsStand ==
    ASSUME TypeOK, ServerMovesOn, NEW o, NEW s, NEW l, Claimed(o, s, l)
    PROVE  Claimed(o, s, l)'
<1>1. /\ granted \in Nat /\ done[o] \in 0..NumSteps /\ lease[o] \in 0..granted
      /\ o \in Operations /\ s \in Steps /\ s \in Nat /\ l \in 1..granted
  BY LifecycleAssumption DEF TypeOK, Claimed, Steps
<1> QED BY <1>1, LifecycleAssumption DEF Claimed, ServerMovesOn

\* The claims that are held and under way, after a step that changes no
\* owner's books and lets coordinators only forget.
LEMMA HeldStand ==
    ASSUME LifecycleInv, ServerMovesOn, network' \subseteq network,
           \A o \in Operations, s \in Steps : applied'[o][s] >= applied[o][s],
           applied' \in [Operations -> [Steps -> Nat]]
    PROVE  /\ NetworkOK'
           /\ \A c \in Coordinators : pc'[c] = pc[c] /\ work'[c] = work[c] =>
                 /\ pc'[c] \in Holding => Claimed(work[c].operation, work[c].step, work[c].lease)'
                 /\ pc'[c] = "reporting" /\ work'[c].outcome = "succeeded"
                       => applied'[work'[c].operation][work'[c].step] > 0
<1> USE DEF LifecycleInv
<1>1. applied \in [Operations -> [Steps -> Nat]]
  BY DEF TypeOK
<1>2. ASSUME NEW r \in network
      PROVE  /\ r.kind \in {"effect", "complete"} => Claimed(r.operation, r.step, r.lease)'
             /\ r.kind = "complete" /\ r.outcome = "succeeded" => applied'[r.operation][r.step] > 0
  <2>1. r.kind \in {"effect", "complete"} => Claimed(r.operation, r.step, r.lease)
    BY DEF NetworkOK
  <2>2. r.kind \in {"effect", "complete"} => r.operation \in Operations /\ r.step \in Steps
    BY <2>1 DEF Claimed
  <2> QED BY <1>1, <2>1, <2>2, ClaimsStand DEF NetworkOK
<1>3. ASSUME NEW c \in Coordinators, pc'[c] = pc[c], work'[c] = work[c]
      PROVE  /\ pc'[c] \in Holding => Claimed(work[c].operation, work[c].step, work[c].lease)'
             /\ pc'[c] = "reporting" /\ work'[c].outcome = "succeeded"
                   => applied'[work'[c].operation][work'[c].step] > 0
  <2>1. PICK o, s, l : o = work[c].operation /\ s = work[c].step /\ l = work[c].lease
    OBVIOUS
  <2>2. pc[c] \in Holding => Claimed(o, s, l)
    BY <2>1 DEF WorkOK
  <2>3. pc[c] \in Holding => Claimed(o, s, l)'
    BY <2>2, ClaimsStand
  <2>4. pc[c] = "reporting" => o \in Operations /\ s \in Steps
    BY <2>2 DEF Claimed, Holding
  <2>5. pc[c] = "reporting" /\ work[c].outcome = "succeeded" => applied[o][s] > 0
    BY <2>1 DEF WorkOK
  <2> QED BY <1>1, <1>3, <2>1, <2>3, <2>4, <2>5 DEF Claimed
<1> QED BY <1>2, <1>3 DEF NetworkOK

-----------------------------------------------------------------------------
(* Coordinators.                                                           *)

\* A request about a claim, or about none.
LEMMA SendStep ==
    ASSUME LifecycleInv, NEW c \in Coordinators, NEW request \in Requests,
           NEW next \in Places, Send(c, request, next), UNCHANGED work,
           request.kind \in {"effect", "complete"} =>
              Claimed(request.operation, request.step, request.lease),
           request.kind = "complete" /\ request.outcome = "succeeded" =>
              applied[request.operation][request.step] > 0,
           next \in Holding => pc[c] \in Holding, next # "reporting"
    PROVE  LifecycleInv'
<1> USE DEF LifecycleInv
<1>1. /\ network' = network \cup {request}
      /\ awaiting' = [awaiting EXCEPT ![c] = request] /\ pc' = [pc EXCEPT ![c] = next]
      /\ UNCHANGED <<operation, done, attempts, lease, live, granted, applied, stored, work>>
  BY DEF Send, server, owners
<1>2. TypeOK'
  BY <1>1 DEF TypeOK, Places
<1>3. StoredOK' /\ OperationsOK'
  BY <1>1 DEF StoredOK, OperationsOK
<1>4. WorkOK'
  BY <1>1 DEF WorkOK, Claimed, TypeOK
<1>5. NetworkOK'
  BY <1>1 DEF NetworkOK, Claimed
<1> QED BY <1>2, <1>3, <1>4, <1>5

LEMMA CoordinatorStepKeeps ==
    ASSUME LifecycleInv, NEW c \in Coordinators, CoordinatorStep(c) \/ Crash(c)
    PROVE  LifecycleInv'
<1> USE DEF LifecycleInv
<1>1. /\ work[c] \in Works /\ pc[c] \in Places
      /\ pc[c] \in Holding => /\ work[c].operation \in Operations /\ work[c].step \in Steps
                              /\ Claimed(work[c].operation, work[c].step, work[c].lease)
  BY DEF TypeOK, Works, Places, WorkOK, Claimed
<1>2. ASSUME NEW o \in Operations, SendStart(c, o) \/ SendClaim(c, o) \/ SendRetry(c, o)
      PROVE  LifecycleInv'
  <2>1. 0 \in 0..NumSteps /\ (Active(o) => CurrentStep(o) \in 0..NumSteps)
    <3>1. done[o] \in 0..NumSteps /\ (Active(o) => done[o] # NumSteps)
      BY DEF TypeOK, OperationsOK, Active
    <3> QED BY <3>1, LifecycleAssumption DEF CurrentStep
  <2>2. PICK k \in {"start", "claim", "retry"}, s \in 0..NumSteps,
             next \in {"starting", "claiming", "retrying"} :
           Send(c, Request(k, o, s, 0, "retryable"), next) /\ UNCHANGED work
    BY <1>2, <2>1 DEF SendStart, SendClaim, SendRetry, Active
  <2>3. /\ Request(k, o, s, 0, "retryable") \in Requests
        /\ Request(k, o, s, 0, "retryable").kind \notin {"effect", "complete"}
        /\ next \in Places /\ next \notin Holding /\ next # "reporting"
    BY DEF Request, Requests, Outcomes, Places, Holding
  <2> QED BY <2>2, <2>3, SendStep
<1>3. CASE SendEffect(c)
  <2> DEFINE request == Request("effect", work[c].operation, work[c].step, work[c].lease, "retryable")
  <2>1. pc[c] \in Holding /\ Send(c, request, "effecting") /\ UNCHANGED work
    BY <1>3 DEF SendEffect, Holding
  <2>2. /\ request \in Requests /\ request.kind = "effect"
        /\ Claimed(request.operation, request.step, request.lease)
    BY <1>1, <2>1, LifecycleAssumption DEF Request, Requests, Outcomes, Works, Steps
  <2> HIDE DEF request
  <2> QED BY <2>1, <2>2, SendStep DEF Places, Holding
<1>4. CASE SendComplete(c)
  <2> DEFINE request == Request("complete", work[c].operation, work[c].step, work[c].lease,
                                work[c].outcome)
  <2>1. pc[c] = "reporting" /\ Send(c, request, "completing") /\ UNCHANGED work
    BY <1>4 DEF SendComplete
  <2>2. /\ request \in Requests /\ request.kind = "complete"
        /\ Claimed(request.operation, request.step, request.lease)
        /\ request.outcome = "succeeded" => applied[request.operation][request.step] > 0
    BY <1>1, <2>1, LifecycleAssumption DEF Request, Requests, Outcomes, Works, Steps, WorkOK, Holding
  <2> HIDE DEF request
  <2> QED BY <2>1, <2>2, SendStep DEF Places, Holding
<1>5. CASE RequestTimesOut(c) \/ Crash(c)
  <2>1. /\ awaiting' = [awaiting EXCEPT ![c] = None]
        /\ UNCHANGED <<operation, done, attempts, lease, live, granted, applied, stored, network>>
        /\ \/ /\ pc' = [pc EXCEPT ![c] = "idle"] /\ work' = [work EXCEPT ![c] = NoWork]
           \/ /\ pc[c] = "effecting" /\ pc' = [pc EXCEPT ![c] = "reporting"]
              /\ work' = [work EXCEPT ![c] = [work[c] EXCEPT !.outcome = "retryable"]]
    BY <1>5 DEF RequestTimesOut, Crash, server, owners, AfterTimeout
  <2>2. StoredOK' /\ OperationsOK' /\ NetworkOK'
    BY <2>1 DEF StoredOK, OperationsOK, NetworkOK, Claimed
  <2>3. CASE pc' = [pc EXCEPT ![c] = "idle"] /\ work' = [work EXCEPT ![c] = NoWork]
    <3>1. TypeOK'
      BY <2>1, <2>3, NoWorkFacts DEF TypeOK, Works
    <3>2. WorkOK'
      BY <2>1, <2>3, NoWorkFacts DEF WorkOK, Claimed, TypeOK
    <3> QED BY <2>2, <3>1, <3>2
  <2>4. CASE /\ pc[c] = "effecting" /\ pc' = [pc EXCEPT ![c] = "reporting"]
             /\ work' = [work EXCEPT ![c] = [work[c] EXCEPT !.outcome = "retryable"]]
    <3> DEFINE w == [work[c] EXCEPT !.outcome = "retryable"]
    <3>1. /\ w \in Works /\ w.operation = work[c].operation /\ w.step = work[c].step
          /\ w.lease = work[c].lease /\ w.outcome = "retryable"
      BY <1>1 DEF Works, Outcomes
    <3>2. /\ work \in [Coordinators -> Works] /\ pc \in [Coordinators -> Places]
          /\ work' = [work EXCEPT ![c] = w]
      BY <2>4 DEF TypeOK, Works, Places
    <3>3. Claimed(w.operation, w.step, w.lease)
      BY <1>1, <2>4, <3>1 DEF Holding
    <3> HIDE DEF w
    <3>4. TypeOK'
      <4>1. work' \in [Coordinators -> Works] /\ pc' \in [Coordinators -> Places]
        BY <2>4, <3>1, <3>2 DEF Places
      <4> QED BY <2>1, <4>1 DEF TypeOK, Works, Places
    <3>5. WorkOK'
      <4>1. ASSUME NEW d \in Coordinators
            PROVE  /\ pc'[d] \in Holding => Claimed(work[d].operation, work[d].step, work[d].lease)'
                   /\ pc'[d] = "reporting" /\ work'[d].outcome = "succeeded"
                         => applied'[work'[d].operation][work'[d].step] > 0
        <5>1. CASE d = c
          BY <2>1, <2>4, <3>1, <3>2, <3>3, <5>1 DEF Claimed
        <5>2. CASE d # c
          BY <2>1, <2>4, <3>2, <5>2 DEF WorkOK, Claimed
        <5> QED BY <5>1, <5>2
      <4> QED BY <4>1 DEF WorkOK
    <3> QED BY <2>2, <3>4, <3>5
  <2> QED BY <2>1, <2>3, <2>4
<1> QED BY <1>2, <1>3, <1>4, <1>5 DEF CoordinatorStep

-----------------------------------------------------------------------------
(* The services.                                                           *)

ServerTypes ==
    /\ operation \in [Operations -> Conditions]
    /\ done \in [Operations -> 0..NumSteps]
    /\ attempts \in [Operations -> 0..MaxAttempts]
    /\ granted \in Nat
    /\ lease \in [Operations -> 0..granted]
    /\ live \in [Operations -> BOOLEAN]
    /\ applied \in [Operations -> [Steps -> Nat]]

\* A request is handled and answered: what is left to show is about the server.
LEMMA HandledStep ==
    ASSUME LifecycleInv, NEW request \in network, NEW next \in Places, NEW claim \in Works,
           Answer(request, next, claim), ServerMovesOn, ServerTypes', StoredOK', OperationsOK',
           \A o \in Operations, s \in Steps : applied'[o][s] >= applied[o][s],
           next \in Holding => Claimed(claim.operation, claim.step, claim.lease)',
           next = "reporting" => applied'[claim.operation][claim.step] > 0
    PROVE  LifecycleInv'
<1> USE DEF LifecycleInv
<1>1. /\ network' \subseteq network
      /\ pc' \in [Coordinators -> Places] /\ work' \in [Coordinators -> Works]
      /\ awaiting' \in [Coordinators -> Requests \cup {None}]
      /\ \A c \in Coordinators : \/ pc'[c] = pc[c] /\ work'[c] = work[c]
                                 \/ pc'[c] = next /\ work'[c] = claim
  BY AnswerFacts
<1>2. TypeOK'
  <2>1. network' \subseteq Requests
    BY <1>1 DEF TypeOK
  <2> QED BY <1>1, <2>1 DEF TypeOK, ServerTypes, Conditions, Places, Works
<1>3. /\ NetworkOK'
      /\ \A c \in Coordinators : pc'[c] = pc[c] /\ work'[c] = work[c] =>
            /\ pc'[c] \in Holding => Claimed(work[c].operation, work[c].step, work[c].lease)'
            /\ pc'[c] = "reporting" /\ work'[c].outcome = "succeeded"
                  => applied'[work'[c].operation][work'[c].step] > 0
  BY <1>1, HeldStand DEF ServerTypes
<1>4. WorkOK'
  BY <1>1, <1>3 DEF WorkOK, Claimed
<1> QED BY <1>2, <1>3, <1>4

\* Where only the states of operations move, and to one that is neither the
\* first nor the last.
LEMMA StateStep ==
    ASSUME LifecycleInv, NEW o \in Operations, NEW state \in {"pending", "manual_recovery"},
           done[o] # NumSteps, ~live[o],
           operation' = [operation EXCEPT ![o] = state],
           UNCHANGED <<done, attempts, lease, live, granted, applied, stored>>
    PROVE  ServerMovesOn /\ ServerTypes' /\ StoredOK' /\ OperationsOK'
<1> USE DEF LifecycleInv
<1>1. ServerTypes'
  BY DEF ServerTypes, TypeOK, Conditions
<1>2. ServerMovesOn
  BY DEF ServerMovesOn, TypeOK
<1>3. OperationsOK'
  BY DEF OperationsOK, TypeOK
<1> QED BY <1>1, <1>2, <1>3 DEF StoredOK

LEMMA QuietServer ==
    ASSUME LifecycleInv, UNCHANGED <<operation, done, attempts, lease, live, granted, applied, stored>>
    PROVE  ServerMovesOn /\ ServerTypes' /\ StoredOK' /\ OperationsOK'
  BY DEF LifecycleInv, TypeOK, ServerMovesOn, ServerTypes, Conditions, StoredOK, OperationsOK

\* A awaiters operation has steps left and no live lease.
LEMMA WaitingFacts ==
    ASSUME LifecycleInv, NEW o \in Operations, operation[o] = "waiting_retry"
    PROVE  done[o] # NumSteps /\ ~live[o]
  BY DEF LifecycleInv, OperationsOK

LEMMA StartKeeps ==
    ASSUME LifecycleInv, NEW request \in network, HandleStart(request)
    PROVE  LifecycleInv'
<1> DEFINE o == request.operation
<1>1. o \in Operations
  BY RequestFacts DEF LifecycleInv
<1>2. /\ Answer(request, "idle", NoWork)
      /\ UNCHANGED <<done, attempts, lease, live, granted, applied, stored>>
      /\ \/ operation[o] = "absent" /\ operation' = [operation EXCEPT ![o] = "pending"]
         \/ UNCHANGED operation
  BY DEF HandleStart, owners
<1>3. operation[o] = "absent" => done[o] # NumSteps /\ ~live[o]
  BY <1>1 DEF LifecycleInv, OperationsOK
<1> HIDE DEF o
<1>4. ServerMovesOn /\ ServerTypes' /\ StoredOK' /\ OperationsOK'
  BY <1>1, <1>2, <1>3, StateStep, QuietServer
<1>5. \A p \in Operations, s \in Steps : applied'[p][s] >= applied[p][s]
  BY <1>2 DEF LifecycleInv, TypeOK
<1> QED BY <1>2, <1>4, <1>5, NoWorkFacts, HandledStep DEF Places, Holding

LEMMA RetryKeeps ==
    ASSUME LifecycleInv, NEW request \in network, HandleRetry(request)
    PROVE  LifecycleInv'
<1> DEFINE o == request.operation
<1>1. o \in Operations
  BY RequestFacts DEF LifecycleInv
<1>2. /\ Answer(request, "idle", NoWork)
      /\ UNCHANGED <<done, attempts, lease, live, granted, applied, stored>>
      /\ \/ operation[o] = "waiting_retry" /\ operation' = [operation EXCEPT ![o] = "pending"]
         \/ UNCHANGED operation
  BY DEF HandleRetry, BecomesDue, owners
<1> HIDE DEF o
<1>4. ServerMovesOn /\ ServerTypes' /\ StoredOK' /\ OperationsOK'
  BY <1>1, <1>2, WaitingFacts, StateStep, QuietServer
<1>5. \A p \in Operations, s \in Steps : applied'[p][s] >= applied[p][s]
  BY <1>2 DEF LifecycleInv, TypeOK
<1> QED BY <1>2, <1>4, <1>5, NoWorkFacts, HandledStep DEF Places, Holding

\* Timers: what coordinators hold and requests carry is left alone.
LEMMA TimersKeep ==
    ASSUME LifecycleInv, NEW o \in Operations, LeaseExpires(o) \/ RetryTimer(o)
    PROVE  LifecycleInv'
<1>1. /\ UNCHANGED <<done, attempts, lease, granted, applied, stored, pc, work, awaiting, network>>
      /\ \/ operation[o] = "waiting_retry" /\ operation' = [operation EXCEPT ![o] = "pending"]
            /\ UNCHANGED live
         \/ UNCHANGED operation /\ live' = [live EXCEPT ![o] = FALSE]
  BY DEF LeaseExpires, RetryTimer, BecomesDue, owners
<1>2. ServerMovesOn /\ ServerTypes' /\ StoredOK' /\ OperationsOK'
  <2>1. CASE operation[o] = "waiting_retry" /\ operation' = [operation EXCEPT ![o] = "pending"]
             /\ UNCHANGED live
    BY <1>1, <2>1, WaitingFacts, StateStep
  <2>2. CASE UNCHANGED operation /\ live' = [live EXCEPT ![o] = FALSE]
    <3>1. \A p \in Operations : live'[p] => live[p]
      BY <2>2 DEF LifecycleInv, TypeOK
    <3>2. live' \in [Operations -> BOOLEAN]
      BY <2>2 DEF LifecycleInv, TypeOK
    <3>3. ServerTypes'
      BY <1>1, <2>2, <3>2 DEF ServerTypes, LifecycleInv, TypeOK, Conditions
    <3>4. ServerMovesOn
      BY <1>1, <2>2, <3>1 DEF ServerMovesOn, LifecycleInv, TypeOK
    <3>5. OperationsOK'
      BY <1>1, <2>2, <3>1 DEF OperationsOK, LifecycleInv
    <3> QED BY <1>1, <3>3, <3>4, <3>5 DEF StoredOK, LifecycleInv
  <2> QED BY <1>1, <2>1, <2>2
<1>3. /\ network' \subseteq network
      /\ \A p \in Operations, s \in Steps : applied'[p][s] >= applied[p][s]
  BY <1>1 DEF LifecycleInv, TypeOK
<1>4. NetworkOK' /\ WorkOK'
  BY <1>1, <1>2, <1>3, HeldStand DEF WorkOK, ServerTypes, Claimed
<1>5. TypeOK'
  BY <1>1, <1>2 DEF TypeOK, ServerTypes, Conditions, LifecycleInv
<1> QED BY <1>2, <1>4, <1>5 DEF LifecycleInv

LEMMA ClaimKeeps ==
    ASSUME LifecycleInv, NEW request \in network, HandleClaim(request)
    PROVE  LifecycleInv'
<1> USE DEF LifecycleInv
<1>1. PICK o \in Operations, s \in 0..NumSteps : o = request.operation /\ s = request.step
  BY RequestFacts
<1>2. /\ done[o] \in 0..NumSteps /\ attempts[o] \in 0..MaxAttempts /\ granted \in Nat
      /\ \A p \in Operations : lease[p] \in 0..granted
      /\ UNCHANGED <<applied, stored>>
  BY DEF TypeOK, HandleClaim, owners
<1>3. Claimable(request) =>
         /\ operation[o] \in {"pending", "running"} /\ ~live[o]
         /\ done[o] # NumSteps /\ s = done[o] + 1 /\ s \in Steps
  <2>1. Claimable(request) => /\ operation[o] \in {"pending", "running"} /\ s = done[o] + 1
                              /\ (operation[o] = "pending" \/ ~live[o])
    BY <1>1 DEF Claimable, CurrentStep
  <2>2. (live[o] => operation[o] = "running") /\ (done[o] = NumSteps => operation[o] = "succeeded")
    BY DEF OperationsOK
  <2> QED BY <1>2, <2>1, <2>2, LifecycleAssumption DEF Steps
<1>4. \A p \in Operations, t \in Steps : applied'[p][t] >= applied[p][t]
  BY <1>2 DEF TypeOK
<1>5. CASE /\ Claimable(request) /\ attempts[o] < MaxAttempts
           /\ operation' = [operation EXCEPT ![o] = "running"]
           /\ attempts' = [attempts EXCEPT ![o] = @ + 1]
           /\ granted' = granted + 1
           /\ lease' = [lease EXCEPT ![o] = granted + 1]
           /\ live' = [live EXCEPT ![o] = TRUE]
           /\ Answer(request, "claimed", [operation |-> o, step |-> s,
                                          lease |-> granted + 1, outcome |-> "retryable"])
           /\ UNCHANGED done
  <2>1. PICK l, claim : /\ l = granted + 1 /\ claim \in Works
                        /\ claim.operation = o /\ claim.step = s /\ claim.lease = l
                        /\ Answer(request, "claimed", claim)
    <3> DEFINE w == [operation |-> o, step |-> s, lease |-> granted + 1, outcome |-> "retryable"]
    <3>1. w \in Works /\ w.operation = o /\ w.step = s /\ w.lease = granted + 1
      BY <1>2 DEF Works, Outcomes
    <3>2. Answer(request, "claimed", w)
      BY <1>5
    <3> HIDE DEF w
    <3> QED BY <3>1, <3>2
  <2>2. live' \in [Operations -> BOOLEAN] /\ \A p \in Operations : live'[p] => p = o \/ live[p]
    BY <1>5 DEF TypeOK
  <2>3. live[o]'
    BY <1>5 DEF TypeOK
  <2>4. /\ granted' = granted + 1 /\ granted' \in Nat /\ lease' \in [Operations -> 0..granted']
        /\ lease'[o] = granted + 1 /\ \A p \in Operations : p # o => lease'[p] = lease[p]
    BY <1>2, <1>5 DEF TypeOK
  <2>5. /\ operation' \in [Operations -> Conditions] /\ operation'[o] = "running"
        /\ \A p \in Operations : p # o => operation'[p] = operation[p]
    BY <1>5 DEF TypeOK, Conditions
  <2>6. attempts' \in [Operations -> 0..MaxAttempts]
    BY <1>2, <1>5, LifecycleAssumption DEF TypeOK
  <2>7. ServerTypes'
    BY <1>2, <1>5, <2>2, <2>4, <2>5, <2>6 DEF ServerTypes, TypeOK
  <2>8. ServerMovesOn
    <3>1. \A p \in Operations : done[p] \in Nat /\ done'[p] = done[p]
      BY <1>5, LifecycleAssumption DEF TypeOK
    <3> QED BY <1>2, <2>2, <2>4, <2>5, <3>1 DEF ServerMovesOn
  <2>9. OperationsOK'
    BY <1>2, <1>3, <1>5, <2>2, <2>5 DEF OperationsOK
  <2>10. Claimed(o, s, l)'
    <3>1. l \in 1..granted'
      BY <1>2, <2>1, <2>4
    <3> QED BY <1>2, <1>3, <1>5, <2>4, <2>5, <3>1 DEF Claimed
  <2>11. Claimed(claim.operation, claim.step, claim.lease)'
    BY <2>1, <2>10 DEF Claimed
  <2> QED BY <1>2, <1>4, <2>1, <2>7, <2>8, <2>9, <2>11, HandledStep DEF Places, StoredOK
<1>6. CASE /\ \/ /\ Claimable(request) /\ operation' = [operation EXCEPT ![o] = "manual_recovery"]
              \/ UNCHANGED operation
           /\ Answer(request, "idle", NoWork)
           /\ UNCHANGED <<done, attempts, lease, live, granted>>
  <2>1. ServerMovesOn /\ ServerTypes' /\ StoredOK' /\ OperationsOK'
    BY <1>2, <1>3, <1>6, StateStep, QuietServer
  <2> QED BY <1>4, <1>6, <2>1, NoWorkFacts, HandledStep DEF Places
<1> QED BY <1>1, <1>5, <1>6 DEF HandleClaim, server

LEMMA EffectKeeps ==
    ASSUME LifecycleInv, NEW request \in network, HandleEffect(request)
    PROVE  /\ LifecycleInv'
           /\ \A o \in Operations, s \in Steps :
                 applied'[o][s] # applied[o][s] => Active(o) /\ s = CurrentStep(o)
<1> USE DEF LifecycleInv
<1>1. PICK o, s, l, claim : /\ o = request.operation /\ s = request.step /\ l = request.lease
                            /\ claim = [operation |-> o, step |-> s, lease |-> l,
                                        outcome |-> "succeeded"]
  OBVIOUS
<1>2. /\ Claimed(o, s, l) /\ o \in Operations /\ s \in Steps /\ s \in 0..NumSteps /\ l \in Nat
      /\ done[o] \in 0..NumSteps
  BY <1>1, RequestFacts DEF HandleEffect, NetworkOK, Claimed, TypeOK
<1>3. /\ claim \in Works /\ claim.operation = o /\ claim.step = s /\ claim.lease = l
  BY <1>1, <1>2 DEF Works, Outcomes
<1>4. /\ UNCHANGED <<operation, done, attempts, lease, live, granted>>
      /\ \/ /\ o \notin stored[o][s]
            /\ applied' = [applied EXCEPT ![o][s] = @ + 1]
            /\ stored' = [stored EXCEPT ![o][s] = @ \cup {o}]
            /\ Answer(request, "reporting", claim)
         \/ /\ o \in stored[o][s] /\ UNCHANGED <<applied, stored>>
            /\ Answer(request, "reporting", claim)
         \/ UNCHANGED <<applied, stored>> /\ Answer(request, "idle", NoWork)
  BY <1>1 DEF HandleEffect, EffectIdentity, server, owners
<1>5. ServerMovesOn /\ Claimed(o, s, l)'
  BY <1>2, <1>4 DEF ServerMovesOn, TypeOK, Claimed
<1>6. Claimed(claim.operation, claim.step, claim.lease)'
  BY <1>3, <1>5 DEF Claimed
<1>7. /\ applied \in [Operations -> [Steps -> Nat]]
      /\ stored \in [Operations -> [Steps -> SUBSET Operations]]
  BY DEF TypeOK, StoredOK
<1>8. CASE /\ o \notin stored[o][s]
           /\ applied' = [applied EXCEPT ![o][s] = @ + 1]
           /\ stored' = [stored EXCEPT ![o][s] = @ \cup {o}]
           /\ Answer(request, "reporting", claim)
  <2>1. /\ applied' \in [Operations -> [Steps -> Nat]]
        /\ applied'[o][s] = applied[o][s] + 1
        /\ \A p \in Operations, t \in Steps : p # o \/ t # s => applied'[p][t] = applied[p][t]
    BY <1>2, <1>7, <1>8
  <2>2. /\ stored' \in [Operations -> [Steps -> SUBSET Operations]]
        /\ stored'[o][s] = stored[o][s] \cup {o}
        /\ \A p \in Operations, t \in Steps : p # o \/ t # s => stored'[p][t] = stored[p][t]
    BY <1>2, <1>7, <1>8
  <2>3. applied[o][s] = 0 /\ applied'[o][s] = 1
    BY <1>2, <1>8, <2>1 DEF OperationsOK
  <2>4. \A p \in Operations, t \in Steps : applied'[p][t] >= applied[p][t]
    BY <1>7, <2>1, <2>3
  <2>5. OperationsOK'
    <3>1. ASSUME NEW p \in Operations, NEW t \in Steps
          PROVE  /\ applied'[p][t] = (IF p \in stored'[p][t] THEN 1 ELSE 0)
                 /\ t <= done[p] => p \in stored'[p][t]
      <4>1. CASE p = o /\ t = s
        BY <2>2, <2>3, <4>1
      <4>2. CASE p # o \/ t # s
        BY <2>1, <2>2, <4>2 DEF OperationsOK
      <4> QED BY <4>1, <4>2
    <3> QED BY <1>4, <3>1 DEF OperationsOK
  <2>6. ServerTypes'
    BY <1>4, <2>1 DEF ServerTypes, TypeOK, Conditions
  <2>7. LifecycleInv'
    BY <1>3, <1>5, <1>6, <1>8, <2>2, <2>3, <2>4, <2>5, <2>6, HandledStep DEF Places, StoredOK
  <2>8. Active(o) /\ s = CurrentStep(o)
    <3>1. ~(s <= done[o])
      BY <1>2, <1>8 DEF OperationsOK
    <3>2. s = done[o] + 1 /\ done[o] # NumSteps
      BY <1>2, <3>1, LifecycleAssumption DEF Claimed, Steps
    <3> QED BY <1>2, <3>2 DEF OperationsOK, Claimed, Active, CurrentStep
  <2> QED BY <2>1, <2>7, <2>8
<1>9. CASE /\ UNCHANGED <<applied, stored>>
           /\ \/ o \in stored[o][s] /\ Answer(request, "reporting", claim)
              \/ Answer(request, "idle", NoWork)
  <2>1. ServerMovesOn /\ ServerTypes' /\ StoredOK' /\ OperationsOK'
    BY <1>4, <1>9, QuietServer
  <2>2. \A p \in Operations, t \in Steps : applied'[p][t] >= applied[p][t]
    BY <1>7, <1>9
  <2>3. CASE o \in stored[o][s] /\ Answer(request, "reporting", claim)
    <3>1. applied'[o][s] > 0
      BY <1>2, <1>9, <2>3 DEF OperationsOK
    <3> QED BY <1>3, <1>6, <1>9, <2>1, <2>2, <2>3, <3>1, HandledStep DEF Places
  <2>4. CASE Answer(request, "idle", NoWork)
    BY <1>9, <2>1, <2>2, <2>4, NoWorkFacts, HandledStep DEF Places
  <2> QED BY <1>9, <2>3, <2>4
<1> QED BY <1>4, <1>8, <1>9

LEMMA CompleteKeeps ==
    ASSUME LifecycleInv, NEW request \in network, HandleComplete(request)
    PROVE  LifecycleInv'
<1> USE DEF LifecycleInv
<1>1. PICK o, s, l : /\ o = request.operation /\ s = request.step /\ l = request.lease
  OBVIOUS
<1>2. /\ Claimed(o, s, l) /\ o \in Operations /\ s \in Steps
      /\ done[o] \in 0..NumSteps /\ attempts[o] \in 0..MaxAttempts
      /\ request.outcome = "succeeded" => applied[o][s] > 0
  BY <1>1, RequestFacts DEF HandleComplete, NetworkOK, Claimed, TypeOK
<1>3. Answer(request, "idle", NoWork) /\ UNCHANGED <<applied, stored>>
  BY DEF HandleComplete, owners
<1>4. \A p \in Operations, t \in Steps : applied'[p][t] >= applied[p][t]
  BY <1>3 DEF TypeOK
<1>5. SUFFICES ServerMovesOn /\ ServerTypes' /\ StoredOK' /\ OperationsOK'
  BY <1>3, <1>4, NoWorkFacts, HandledStep DEF Places
<1>6. CASE ~ExactLiveLease(request)
  BY <1>3, <1>6, QuietServer DEF HandleComplete, server
<1>7. CASE ExactLiveLease(request)
  <2>1. live[o] /\ lease[o] = l
    BY <1>1, <1>7 DEF ExactLiveLease
  <2>2. /\ operation[o] = "running" /\ s = done[o] + 1 /\ done[o] # NumSteps
        /\ done[o] + 1 \in 0..NumSteps
    BY <1>2, <2>1, LifecycleAssumption DEF OperationsOK, Claimed, Steps
  <2>3. /\ live' = [live EXCEPT ![o] = FALSE] /\ UNCHANGED <<lease, granted>>
        /\ \/ /\ request.outcome = "succeeded"
              /\ done' = [done EXCEPT ![o] = @ + 1]
              /\ attempts' = [attempts EXCEPT ![o] = 0]
              /\ operation' = [operation EXCEPT ![o] =
                    IF done[o] + 1 = NumSteps THEN "succeeded" ELSE "pending"]
           \/ /\ operation' = [operation EXCEPT ![o] =
                    IF request.outcome = "retryable" /\ attempts[o] < MaxAttempts
                    THEN "waiting_retry" ELSE "manual_recovery"]
              /\ UNCHANGED <<done, attempts>>
    BY <1>1, <1>7 DEF HandleComplete
  <2>4. /\ live' \in [Operations -> BOOLEAN] /\ ~live[o]'
        /\ \A p \in Operations : p # o => (live'[p] <=> live[p])
    BY <1>2, <2>3 DEF TypeOK
  <2>5. PICK state \in {"pending", "succeeded", "waiting_retry", "manual_recovery"},
             n \in {done[o], done[o] + 1} :
           /\ operation' = [operation EXCEPT ![o] = state]
           /\ done' = [done EXCEPT ![o] = n]
           /\ state = "succeeded" <=> n = NumSteps
           /\ n = done[o] + 1 => request.outcome = "succeeded"
           /\ attempts' \in [Operations -> 0..MaxAttempts]
    <3>1. CASE /\ request.outcome = "succeeded"
               /\ done' = [done EXCEPT ![o] = @ + 1]
               /\ attempts' = [attempts EXCEPT ![o] = 0]
               /\ operation' = [operation EXCEPT ![o] =
                     IF done[o] + 1 = NumSteps THEN "succeeded" ELSE "pending"]
      <4>1. 0 \in 0..MaxAttempts
        BY LifecycleAssumption
      <4>2. attempts' \in [Operations -> 0..MaxAttempts]
        BY <3>1, <4>1 DEF TypeOK
      <4>3. PICK state : state = (IF done[o] + 1 = NumSteps THEN "succeeded" ELSE "pending")
        OBVIOUS
      <4> QED BY <3>1, <4>2, <4>3
    <3>2. CASE /\ operation' = [operation EXCEPT ![o] =
                     IF request.outcome = "retryable" /\ attempts[o] < MaxAttempts
                     THEN "waiting_retry" ELSE "manual_recovery"]
               /\ UNCHANGED <<done, attempts>>
      <4>1. done' = [done EXCEPT ![o] = done[o]] /\ done[o] # done[o] + 1
        BY <1>2, <3>2 DEF TypeOK
      <4> QED BY <2>2, <3>2, <4>1 DEF TypeOK
    <3> QED BY <2>3, <3>1, <3>2
  <2>6. /\ n \in 0..NumSteps /\ done' \in [Operations -> 0..NumSteps] /\ done'[o] = n
        /\ \A p \in Operations : p # o => done'[p] = done[p]
    BY <1>2, <2>2, <2>5 DEF TypeOK
  <2>7. /\ operation' \in [Operations -> Conditions] /\ operation'[o] = state
        /\ \A p \in Operations : p # o => operation'[p] = operation[p]
    BY <1>2, <2>5 DEF TypeOK, Conditions
  <2>8. ServerTypes'
    BY <1>3, <2>3, <2>4, <2>5, <2>6, <2>7 DEF ServerTypes, TypeOK
  <2>9. ServerMovesOn
    BY <1>2, <2>3, <2>4, <2>5, <2>6, <2>7 DEF ServerMovesOn, TypeOK
  <2>10. OperationsOK'
    <3>1. ASSUME NEW t \in Steps, t <= n PROVE o \in stored[o][t]
      <4>1. t <= done[o] \/ (t = s /\ n = done[o] + 1)
        BY <1>2, <2>2, <2>5, <3>1, LifecycleAssumption DEF Steps
      <4> QED BY <1>2, <2>5, <4>1 DEF OperationsOK
    <3> QED BY <1>2, <1>3, <2>4, <2>5, <2>6, <2>7, <3>1 DEF OperationsOK
  <2> QED BY <1>3, <2>8, <2>9, <2>10 DEF StoredOK
<1> QED BY <1>6, <1>7

-----------------------------------------------------------------------------
(* The theorems.                                                           *)

LEMMA LifecycleStep ==
    ASSUME LifecycleInv, [Next]_vars
    PROVE  /\ LifecycleInv'
           /\ \A o \in Operations, s \in Steps :
                 applied'[o][s] # applied[o][s] => Active(o) /\ s = CurrentStep(o)
<1>1. ASSUME NEW c \in Coordinators, CoordinatorStep(c) \/ Crash(c)
      PROVE  LifecycleInv' /\ UNCHANGED applied
  <2>1. UNCHANGED applied
    BY <1>1 DEF CoordinatorStep, Crash, SendStart, SendClaim, SendRetry, SendEffect,
                SendComplete, RequestTimesOut, Send, owners
  <2> QED BY <1>1, <2>1, CoordinatorStepKeeps
<1>2. ASSUME NEW request \in network, Handle(request), ~HandleEffect(request)
      PROVE  LifecycleInv' /\ UNCHANGED applied
  <2>1. UNCHANGED applied
    BY <1>2 DEF Handle, HandleStart, HandleClaim, HandleRetry, HandleComplete, owners
  <2> QED BY <1>2, <2>1, StartKeeps, ClaimKeeps, RetryKeeps, CompleteKeeps DEF Handle
<1>3. ASSUME NEW o \in Operations, LeaseExpires(o) \/ RetryTimer(o)
      PROVE  LifecycleInv' /\ UNCHANGED applied
  <2>1. UNCHANGED applied
    BY <1>3 DEF LeaseExpires, RetryTimer, owners
  <2> QED BY <1>3, <2>1, TimersKeep
<1>4. CASE UNCHANGED vars
  <2>1. TypeOK' /\ StoredOK' /\ OperationsOK'
    BY <1>4 DEF LifecycleInv, vars, TypeOK, StoredOK, OperationsOK
  <2>2. WorkOK' /\ NetworkOK'
    BY <1>4 DEF LifecycleInv, vars, WorkOK, NetworkOK, Claimed
  <2> QED BY <1>4, <2>1, <2>2 DEF LifecycleInv, vars
<1> QED BY <1>1, <1>2, <1>3, <1>4, EffectKeeps DEF Next

(* The inductive invariant holds throughout. *)
THEOREM LifecycleInvariant == Spec => []LifecycleInv
<1>1. Init => LifecycleInv
  BY LifecycleInit
<1>2. LifecycleInv /\ [Next]_vars => LifecycleInv'
  BY LifecycleStep
<1> QED BY <1>1, <1>2, PTL DEF Spec

(* Types, with the claims of a step at most MaxAttempts and no lease that was *)
(* not granted (the claim, complete and retry calls, agents.rs:872-924).      *)
THEOREM TypeCorrect == Spec => []TypeOK
<1>1. LifecycleInv => TypeOK
  BY DEF LifecycleInv
<1> QED BY <1>1, LifecycleInvariant, PTL

(* However often coordinators time out, crash and send an effect again, its   *)
(* owner applies it once: the operation's UUID is what all of them send.      *)
THEOREM OnceTheorem == Spec => []AppliedOnce
<1>1. LifecycleInv => AppliedOnce
  BY DEF LifecycleInv, OperationsOK, AppliedOnce
<1> QED BY <1>1, LifecycleInvariant, PTL

(* Success is reported only of an operation whose every effect took place.    *)
THEOREM SuccessTheorem == Spec => []SuccessMeansApplied
<1>1. LifecycleInv => SuccessMeansApplied
  <2>1. ASSUME LifecycleInv, NEW o \in Operations, NEW s \in 1..done[o]
        PROVE  applied[o][s] > 0
    <3>1. s \in Steps /\ s <= done[o]
      BY <2>1, LifecycleAssumption DEF LifecycleInv, TypeOK, Steps
    <3> QED BY <2>1, <3>1 DEF LifecycleInv, OperationsOK
  <2> QED BY <2>1 DEF LifecycleInv, OperationsOK, SuccessMeansApplied
<1> QED BY <1>1, LifecycleInvariant, PTL

(* An effect lands only in the current step of an active operation, although  *)
(* requests outlive the timeouts, leases and crashes of who sent them.        *)
THEOREM OrderTheorem == Spec => EffectsInOrder
<1>1. LifecycleInv /\ [Next]_vars =>
        [\A o \in Operations, s \in Steps :
            applied'[o][s] # applied[o][s] => Active(o) /\ s = CurrentStep(o)]_vars
  BY LifecycleStep
<1> QED BY <1>1, LifecycleInvariant, PTL DEF Spec, EffectsInOrder
-----------------------------------------------------------------------------
(***************************************************************************)
(* The agent registry, for any operators, names, wanted agents and number  *)
(* of requests: what a create-if-absent tells is true of a record that was *)
(* there, however requests are lost, late or overtaken.                    *)
(***************************************************************************)

\* A record that is there now is one that the name has had.
Recorded == \A n \in Names : rows[n] # Absent => rows[n] \in past[n]

\* What an operator heard last of a wanted agent is true.
Truthful(o, n) ==
    LET t == told[o][n]
    IN  /\ t.answer \in {"created", "in place"} => \E record \in past[n] : Agrees(t.want, record)
        /\ t.answer = "differs" => \E record \in past[n] : ~Agrees(t.want, record)
        /\ t.answer = "taken" => t.free /\ rows[n] # Absent

\* An operator that has just looked for an agent and found its name free.
Asked(want) == [answer |-> "nothing", want |-> want, free |-> TRUE]

\* Whoever awaits a create has looked before, found the name free, and heard
\* nothing since.
CreatesAwaited ==
    \A request \in sent :
        waiting[request.from] = request /\ request.verb = "create"
          => told[request.from][request.name] = Asked(request.body)

\* The inductive invariant.
RegistryInv ==
    /\ RegistryTypeOK /\ Recorded /\ CreatesAwaited
    /\ EnsuredAsWanted /\ RefusedOnlyByARace

LEMMA RegistryStarts == RegistryInit => RegistryInv
<1> SUFFICES ASSUME RegistryInit PROVE RegistryInv
  OBVIOUS
<1>1. RegistryTypeOK
  BY AgentRegistryAssumption DEF RegistryShapes, RegistryInit, RegistryTypeOK
<1> QED BY <1>1 DEF RegistryInit, RegistryInv, Recorded, CreatesAwaited, EnsuredAsWanted,
                    RefusedOnlyByARace, Nothing

\* Records that agree but for their state and remark.
LEMMA SameButState ==
    ASSUME NEW landed \in Record, NEW record \in Record
    PROVE  [landed EXCEPT !.state = record.state, !.remark = record.remark] = record
             <=> /\ landed.team = record.team /\ landed.scope = record.scope
                 /\ landed.yellow = record.yellow /\ landed.kinds = record.kinds
<1>1. [landed EXCEPT !.state = record.state, !.remark = record.remark] = record
        => landed.team = record.team /\ landed.scope = record.scope
             /\ landed.yellow = record.yellow /\ landed.kinds = record.kinds
  BY DEF Record
<1>2. ASSUME landed.team = record.team, landed.scope = record.scope,
             landed.yellow = record.yellow, landed.kinds = record.kinds
      PROVE  [landed EXCEPT !.state = record.state, !.remark = record.remark] = record
  BY <1>2 DEF Record
<1> QED BY <1>1, <1>2

\* What is heard when the answer to a create arrives.
LEMMA AnswerHeard ==
    ASSUME NEW want \in Wants, NEW answer
    PROVE  /\ Asked(want) \in [answer : Answers, want : Wants, free : BOOLEAN]
           /\ [Asked(want) EXCEPT !.answer = answer] = [answer |-> answer, want |-> want, free |-> TRUE]
<1>1. Asked(want) \in [answer : Answers, want : Wants, free : BOOLEAN]
  BY DEF Asked, Answers
<1>2. PICK asked \in [answer : Answers, want : Wants, free : BOOLEAN] : asked = Asked(want)
  BY <1>1
<1>3. asked.want = want /\ asked.free = TRUE
  BY <1>2 DEF Asked
<1>4. [asked EXCEPT !.answer = answer] = [answer |-> answer, want |-> asked.want, free |-> asked.free]
  OBVIOUS
<1> QED BY <1>1, <1>2, <1>3, <1>4

\* The record of a wanted agent, and what the comparison of a record says of it.
LEMMA LandedFacts ==
    ASSUME NEW want \in Wants
    PROVE  /\ Landed(want) \in Record
           /\ Agrees(want, Landed(want))
           /\ \A record \in Record : Matches(want, record) <=> Agrees(want, record)
<1>1. /\ want \in [team : Teams, scope : Seq(Entries), yellow : Seq(Entries), kinds : Seq(Kinds)]
      /\ ToSet(want.scope) \in SUBSET Entries /\ ToSet(want.yellow) \in SUBSET Entries
      /\ ToSet(want.kinds) \in SUBSET Kinds
  BY AgentRegistryAssumption DEF RegistryShapes, ToSet
<1>2. Landed(want) \in Record
  BY <1>1 DEF Landed, Record, States
<1>3. ASSUME NEW record \in Record
      PROVE  Agrees(want, record) <=>
               /\ want.team = record.team /\ ToSet(want.scope) = record.scope
               /\ ToSet(want.yellow) = record.yellow /\ ToSet(want.kinds) = record.kinds
  <2>1. PICK landed \in Record : landed = Landed(want)
    BY <1>2
  <2>2. Agrees(want, record)
          <=> /\ landed.team = record.team /\ landed.scope = record.scope
              /\ landed.yellow = record.yellow /\ landed.kinds = record.kinds
    BY <2>1, SameButState DEF Agrees
  <2>3. /\ landed.team = want.team /\ landed.scope = ToSet(want.scope)
        /\ landed.yellow = ToSet(want.yellow) /\ landed.kinds = ToSet(want.kinds)
    BY <2>1 DEF Landed
  <2> QED BY <2>2, <2>3
<1>4. Agrees(want, Landed(want))
  BY <1>2, <1>3 DEF Landed
<1>5. \A record \in Record : Matches(want, record) <=> Agrees(want, record)
  BY <1>3 DEF Matches, Same
<1> QED BY <1>2, <1>4, <1>5

\* Nothing that was true of what operators heard becomes false as records grow.
LEMMA HeardStays ==
    ASSUME RegistryInv, RegistryTypeOK',
           \A n \in Names : past[n] \subseteq past'[n] /\ (rows[n] # Absent => rows'[n] # Absent),
           NEW o \in Operators, NEW n \in Names,
           told'[o][n] = told[o][n]
    PROVE  Truthful(o, n)'
  BY DEF RegistryInv, EnsuredAsWanted, RefusedOnlyByARace, Truthful

-----------------------------------------------------------------------------
(* Operators.                                                              *)

LEMMA ReadKeeps ==
    ASSUME RegistryInv, NEW o \in Operators, NEW n \in Names, Reads(o, n)
    PROVE  RegistryInv'
<1> USE DEF RegistryInv
<1>1. known' \in [Operators -> [Names -> Record \cup {Absent}]]
  BY DEF RegistryTypeOK, Reads
<1>2. RegistryTypeOK'
  BY <1>1 DEF RegistryTypeOK, Reads
<1> QED BY <1>2 DEF Reads, Recorded, CreatesAwaited,
                         EnsuredAsWanted, RefusedOnlyByARace

\* A request as it is sent; a create is sent with what its author has looked up.
LEMMA SendKeeps ==
    ASSUME RegistryInv, NEW o \in Operators, NEW n \in Names,
           NEW verb \in Verbs, NEW body \in Bodies(verb), SendMutation(o, n, verb, body),
           known' \in [Operators -> [Names -> Record \cup {Absent}]],
           \/ UNCHANGED told /\ verb # "create"
           \/ told' = [told EXCEPT ![o][n] = Asked(body)] /\ verb = "create"
    PROVE  RegistryInv'
<1> USE DEF RegistryInv
<1>1. PICK request : request = [no |-> tries, from |-> o, name |-> n, verb |-> verb, body |-> body]
  OBVIOUS
<1>2. /\ waiting[o] = Absent /\ tries < MaxTries
      /\ sent' = sent \cup {request} /\ tries' = tries + 1
      /\ waiting' = [waiting EXCEPT ![o] = request]
      /\ UNCHANGED <<rows, budget, past>>
  BY <1>1 DEF SendMutation
<1>3. /\ request \in Mutations(verb) /\ request.from = o /\ request.name = n
      /\ request.verb = verb /\ request.body = body
  BY <1>1, AgentRegistryAssumption DEF RegistryTypeOK, RegistryShapes, Mutations
<1>4. /\ waiting'[o] = request /\ DOMAIN waiting' = Operators
      /\ \A p \in Operators : p # o => waiting'[p] = waiting[p]
  BY <1>2 DEF RegistryTypeOK
<1>5. verb = "create" => body \in Wants
  BY DEF Bodies
<1>6. told' \in [Operators -> [Names -> {Nothing} \cup [answer : Answers, want : Wants,
                                                              free : BOOLEAN]]]
  <2>1. verb = "create" => Asked(body) \in [answer : Answers, want : Wants, free : BOOLEAN]
    BY <1>5 DEF Asked, Answers
  <2>2. told \in [Operators -> [Names -> {Nothing} \cup [answer : Answers, want : Wants,
                                                        free : BOOLEAN]]]
    BY DEF RegistryTypeOK
  <2> HIDE DEF RegistryInv
  <2>3. CASE UNCHANGED told
    BY <2>2, <2>3
  <2>4. CASE verb = "create" /\ told' = [told EXCEPT ![o][n] = Asked(body)]
    BY <2>1, <2>2, <2>4
  <2> QED BY <2>3, <2>4
<1>7. \A r \in sent' : r.verb \in Verbs /\ r \in Mutations(r.verb)
  BY <1>2, <1>3 DEF RegistryTypeOK
<1>8. RegistryTypeOK'
  <2>1. tries' \in 0..MaxTries
    BY <1>2, AgentRegistryAssumption DEF RegistryTypeOK, RegistryShapes
  <2> QED BY <1>2, <1>3, <1>4, <1>6, <1>7, <2>1 DEF RegistryTypeOK
<1>9. \A p \in Operators, m \in Names :
         ~(p = o /\ m = n /\ verb = "create") => told'[p][m] = told[p][m]
  BY DEF RegistryTypeOK
<1>10. verb = "create" => told'[o][n] = Asked(body)
  BY DEF RegistryTypeOK
<1>11. CreatesAwaited'
  <2>1. ASSUME NEW r \in sent', waiting'[r.from] = r, r.verb = "create"
        PROVE  told'[r.from][r.name] = Asked(r.body)
    <3>1. r.from \in Operators /\ r.name \in Names
      BY <1>7 DEF Mutations
    <3>2. CASE r.from = o
      BY <1>3, <1>4, <1>10, <2>1, <3>2
    <3>3. CASE r.from # o
      BY <1>2, <1>3, <1>4, <1>9, <2>1, <3>1, <3>3 DEF CreatesAwaited
    <3> QED BY <3>2, <3>3
  <2> QED BY <2>1 DEF CreatesAwaited
<1>12. ASSUME NEW p \in Operators, NEW m \in Names
       PROVE  Truthful(p, m)'
  <2>1. CASE p = o /\ m = n /\ verb = "create"
    <3>1. told'[p][m].answer = "nothing"
      BY <1>10, <2>1 DEF Asked
    <3> QED BY <3>1 DEF Truthful
  <2>2. CASE ~(p = o /\ m = n /\ verb = "create")
    BY <1>2, <1>8, <1>9, <2>2, HeardStays
  <2> QED BY <2>1, <2>2
<1> QED
  BY <1>2, <1>8, <1>11, <1>12
     DEF Recorded, EnsuredAsWanted, RefusedOnlyByARace, Truthful

LEMMA CreateIfAbsentKeeps ==
    ASSUME RegistryInv, NEW o \in Operators, NEW n \in Names, NEW want \in Wants,
           CreateIfAbsent(o, n, want)
    PROVE  RegistryInv'
<1> USE DEF RegistryInv
<1>1. known' \in [Operators -> [Names -> Record \cup {Absent}]]
  BY DEF RegistryTypeOK, CreateIfAbsent, FindByName
<1>2. CASE rows[n] = Absent
  <2>1. told' = [told EXCEPT ![o][n] = Asked(want)] /\ SendMutation(o, n, "create", want)
    BY <1>2 DEF CreateIfAbsent, FindByName, Asked
  <2>2. "create" \in Verbs /\ want \in Bodies("create")
    BY DEF Verbs, Bodies
  <2> QED BY <1>1, <2>1, <2>2, SendKeeps
<1>3. CASE rows[n] # Absent
  <2>1. PICK a : a = IF Matches(want, rows[n]) THEN "in place" ELSE "differs"
    OBVIOUS
  <2>2. /\ told' = [told EXCEPT ![o][n] = [answer |-> a, want |-> want, free |-> FALSE]]
        /\ waiting[o] = Absent
        /\ UNCHANGED <<rows, budget, sent, waiting, tries, past>>
    BY <1>3, <2>1 DEF CreateIfAbsent, FindByName
  <2>3. rows[n] \in Record /\ rows[n] \in past[n]
    BY <1>3 DEF RegistryTypeOK, Recorded
  <2>4. a \in {"in place", "differs"} /\ a \in Answers
    BY <2>1 DEF Answers
  <2>5. /\ told' \in [Operators -> [Names -> {Nothing} \cup [answer : Answers, want : Wants,
                                                              free : BOOLEAN]]]
        /\ told'[o][n] = [answer |-> a, want |-> want, free |-> FALSE]
        /\ \A p \in Operators, m \in Names : ~(p = o /\ m = n) => told'[p][m] = told[p][m]
    BY <2>2, <2>4 DEF RegistryTypeOK
  <2>6. RegistryTypeOK'
    BY <1>1, <2>2, <2>5 DEF RegistryTypeOK
  <2>7. CreatesAwaited'
    <3>1. ASSUME NEW r \in sent, waiting[r.from] = r, r.verb = "create"
          PROVE  told'[r.from][r.name] = Asked(r.body)
      <4>1. r \in Mutations(r.verb) /\ r # Absent
        BY AgentRegistryAssumption DEF RegistryTypeOK, RegistryShapes
      <4>2. r.from \in Operators /\ r.name \in Names /\ r.from # o
        BY <2>2, <3>1, <4>1 DEF Mutations
      <4> QED BY <2>5, <3>1, <4>2 DEF CreatesAwaited
    <3> QED BY <2>2, <3>1 DEF CreatesAwaited
  <2>8. ASSUME NEW p \in Operators, NEW m \in Names
        PROVE  Truthful(p, m)'
    <3>1. CASE p = o /\ m = n
      <4>1. Matches(want, rows[n]) <=> Agrees(want, rows[n])
        BY <2>3, LandedFacts
      <4>2. a = "in place" => Agrees(want, rows[n])
        BY <2>1, <4>1
      <4>3. a = "differs" => ~Agrees(want, rows[n])
        BY <2>1, <4>1
      <4> QED BY <2>2, <2>3, <2>4, <2>5, <3>1, <4>2, <4>3 DEF Truthful
    <3>2. CASE ~(p = o /\ m = n)
      BY <2>2, <2>5, <2>6, <3>2, HeardStays
    <3> QED BY <3>1, <3>2
  <2> QED
    BY <2>2, <2>6, <2>7, <2>8
       DEF Recorded, EnsuredAsWanted, RefusedOnlyByARace, Truthful
<1> QED BY <1>2, <1>3

LEMMA CallKeeps ==
    ASSUME RegistryInv, NEW o \in Operators, NEW n \in Names,
           Act(o, n) \/ Reshape(o, n) \/ Assign(o, n) \/ SetBudget(o, n)
    PROVE  RegistryInv'
<1>1. UNCHANGED <<known, told>>
  BY DEF Act, Reshape, Assign, SetBudget
<1>2. PICK verb, body :
        verb \in Verbs /\ body \in Bodies(verb) /\ verb # "create" /\ SendMutation(o, n, verb, body)
  <2>1. CASE Act(o, n)
    BY <2>1 DEF Act, Verbs, Bodies
  <2>2. CASE Reshape(o, n)
    <3>1. known[o][n] \in Record
      BY <2>2 DEF Reshape, RegistryInv, RegistryTypeOK
    <3>2. PICK old : old = known[o][n]
      OBVIOUS
    <3>3. CASE \E scope \in SUBSET old.scope, yellow \in SUBSET old.yellow :
                 SendMutation(o, n, "narrow", [scope |-> scope, yellow |-> yellow, narrows |-> TRUE])
      <4>1. PICK scope \in SUBSET old.scope, yellow \in SUBSET old.yellow :
                 SendMutation(o, n, "narrow", [scope |-> scope, yellow |-> yellow, narrows |-> TRUE])
        BY <3>3
      <4>2. [scope |-> scope, yellow |-> yellow, narrows |-> TRUE] \in Bodies("narrow")
        BY <3>1, <3>2 DEF Bodies, Record
      <4> QED BY <4>1, <4>2 DEF Verbs
    <3>4. CASE \E e \in Entries :
                 SendMutation(o, n, "widen", [scope |-> old.scope \cup {e}, yellow |-> old.yellow,
                                      narrows |-> FALSE])
      <4>1. PICK e \in Entries :
                 SendMutation(o, n, "widen", [scope |-> old.scope \cup {e}, yellow |-> old.yellow,
                                      narrows |-> FALSE])
        BY <3>4
      <4>2. [scope |-> old.scope \cup {e}, yellow |-> old.yellow, narrows |-> FALSE] \in Bodies("widen")
        BY <3>1, <3>2 DEF Bodies, Record
      <4> QED BY <4>1, <4>2 DEF Verbs
    <3> QED BY <2>2, <3>2, <3>3, <3>4 DEF Reshape
  <2>3. CASE Assign(o, n)
    BY <2>3 DEF Assign, Verbs, Bodies
  <2>4. CASE SetBudget(o, n)
    BY <2>4 DEF SetBudget, Verbs, Bodies
  <2> QED BY <2>1, <2>2, <2>3, <2>4
<1> QED BY <1>1, <1>2, SendKeeps DEF RegistryInv, RegistryTypeOK

LEMMA StopWaitingKeeps ==
    ASSUME RegistryInv, NEW o \in Operators, StopWaiting(o)
    PROVE  RegistryInv'
<1> USE DEF RegistryInv
<1>1. /\ DOMAIN waiting' = Operators /\ waiting'[o] = Absent
      /\ \A p \in Operators : p # o => waiting'[p] = waiting[p]
      /\ UNCHANGED <<rows, budget, sent, tries, known, told, past>>
  BY DEF StopWaiting, RegistryTypeOK
<1>2. RegistryTypeOK'
  BY <1>1 DEF RegistryTypeOK
<1>3. CreatesAwaited'
  <2>1. \A r \in sent : r # Absent /\ r.from \in Operators
    BY AgentRegistryAssumption DEF RegistryTypeOK, RegistryShapes, Mutations
  <2> QED BY <1>1, <2>1 DEF CreatesAwaited
<1> QED BY <1>1, <1>2, <1>3 DEF Recorded, EnsuredAsWanted, RefusedOnlyByARace

-----------------------------------------------------------------------------
(* The identity service.                                                   *)

\* Whatever becomes of a request: its answer, if it is still awaited, is of a
\* create that was sent with what its author saw.
LEMMA AnsweredKeeps ==
    ASSUME RegistryInv, NEW request \in sent, NEW answer \in Answers,
           Answered(request, answer),
           rows' \in [Names -> Record \cup {Absent}], budget' \in Budgets \cup {Absent},
           past' \in [Names -> SUBSET Record], Recorded',
           \A n \in Names : past[n] \subseteq past'[n] /\ (rows[n] # Absent => rows'[n] # Absent),
           answer # "nothing" => request.verb = "create",
           answer \in {"nothing", "created", "taken"},
           answer = "created" => Landed(request.body) \in past'[request.name],
           answer = "taken" => rows'[request.name] # Absent
    PROVE  RegistryInv'
<1> USE DEF RegistryInv
<1>1. PICK o, n : o = request.from /\ n = request.name
  OBVIOUS
<1>2. o \in Operators /\ n \in Names /\ request # Absent /\ (request.verb = "create" => request.body \in Wants)
  BY <1>1, AgentRegistryAssumption DEF RegistryTypeOK, RegistryShapes, Mutations, Bodies
<1>3. UNCHANGED tries /\ sent' = sent \ {request}
  BY DEF Answered
<1>4. \A r \in sent : r # Absent /\ r.from \in Operators /\ r.name \in Names
  BY AgentRegistryAssumption DEF RegistryTypeOK, RegistryShapes, Mutations
<1>5. CASE waiting[o] # request
  <2>1. UNCHANGED <<waiting, known, told>>
    BY <1>1, <1>5 DEF Answered
  <2>2. RegistryTypeOK'
    BY <1>3, <2>1 DEF RegistryTypeOK
  <2>3. CreatesAwaited'
    BY <1>3, <2>1 DEF CreatesAwaited
  <2>4. EnsuredAsWanted' /\ RefusedOnlyByARace'
    BY <2>1, <2>2, HeardStays DEF EnsuredAsWanted, RefusedOnlyByARace, Truthful
  <2> QED BY <2>2, <2>3, <2>4
<1>6. CASE waiting[o] = request
  <2>1. /\ waiting' = [waiting EXCEPT ![o] = Absent]
        /\ known' = [known EXCEPT ![o][n] = rows'[n]]
        /\ told' = IF answer = "nothing" THEN told ELSE [told EXCEPT ![o][n].answer = answer]
    BY <1>1, <1>6 DEF Answered
  <2>2. /\ DOMAIN waiting' = Operators /\ waiting'[o] = Absent
        /\ \A p \in Operators : p # o => waiting'[p] = waiting[p]
    BY <1>2, <2>1 DEF RegistryTypeOK
  <2>3. known' \in [Operators -> [Names -> Record \cup {Absent}]]
    BY <1>2, <2>1 DEF RegistryTypeOK
  <2>4. answer # "nothing" => told[o][n] = Asked(request.body) /\ request.body \in Wants
    BY <1>1, <1>2, <1>6 DEF CreatesAwaited
  <2>5. answer # "nothing" => told' = [told EXCEPT ![o][n] = [answer |-> answer, want |-> request.body, free |-> TRUE]]
    <3>1. told' = IF answer = "nothing" THEN told
                  ELSE [told EXCEPT ![o][n] = [told[o][n] EXCEPT !.answer = answer]]
      BY <2>1
    <3>2. answer # "nothing" =>
            [told[o][n] EXCEPT !.answer = answer] = [answer |-> answer, want |-> request.body, free |-> TRUE]
      BY <2>4, AnswerHeard
    <3> QED BY <3>1, <3>2
  <2>6. told' \in [Operators -> [Names -> {Nothing} \cup [answer : Answers, want : Wants,
                                                              free : BOOLEAN]]]
    <3>1. PICK heard : heard = [answer |-> answer, want |-> request.body, free |-> TRUE]
      OBVIOUS
    <3>2. answer # "nothing" => heard \in [answer : Answers, want : Wants, free : BOOLEAN]
      BY <2>4, <3>1
    <3>3. CASE answer = "nothing"
      BY <2>1, <3>3 DEF RegistryTypeOK
    <3>4. CASE answer # "nothing"
      <4>1. told' = [told EXCEPT ![o][n] = heard] /\ heard \in [answer : Answers, want : Wants, free : BOOLEAN]
        BY <2>5, <3>1, <3>2, <3>4
      <4>2. told \in [Operators -> [Names -> {Nothing} \cup [answer : Answers, want : Wants,
                                                              free : BOOLEAN]]]
        BY DEF RegistryTypeOK
      <4> HIDE DEF RegistryInv
      <4> QED BY <1>2, <4>1, <4>2
    <3> QED BY <3>3, <3>4
  <2>7. RegistryTypeOK'
    BY <1>3, <2>2, <2>3, <2>6 DEF RegistryTypeOK
  <2>8. /\ \A p \in Operators, m \in Names : ~(p = o /\ m = n) => told'[p][m] = told[p][m]
        /\ answer = "nothing" => told'[o][n] = told[o][n]
        /\ answer # "nothing" => told'[o][n] = [answer |-> answer, want |-> request.body, free |-> TRUE]
    BY <1>2, <2>1, <2>5 DEF RegistryTypeOK
  <2>9. CreatesAwaited'
    BY <1>3, <1>4, <2>2, <2>8 DEF CreatesAwaited
  <2>10. ASSUME NEW p \in Operators, NEW m \in Names
         PROVE  Truthful(p, m)'
    <3>1. CASE p = o /\ m = n /\ answer # "nothing"
      <4>1. Agrees(request.body, Landed(request.body))
        BY <2>4, <3>1, LandedFacts
      <4>2. told'[p][m].answer = answer /\ told'[p][m].want = request.body /\ told'[p][m].free
        BY <2>8, <3>1
      <4>3. answer \in {"created", "taken"}
        BY <3>1
      <4>4. answer = "created" => \E record \in past'[m] : Agrees(request.body, record)
        BY <1>1, <3>1, <4>1
      <4> QED BY <1>1, <3>1, <4>2, <4>3, <4>4 DEF Truthful
    <3>2. CASE ~(p = o /\ m = n /\ answer # "nothing")
      <4>1. told'[p][m] = told[p][m]
        BY <2>8, <3>2
      <4> QED BY <2>7, <4>1, HeardStays
    <3> QED BY <3>1, <3>2
  <2> QED BY <2>7, <2>9, <2>10 DEF EnsuredAsWanted, RefusedOnlyByARace, Truthful
<1> QED BY <1>5, <1>6

\* A record that a request makes is added to those that its name has had.
LEMMA BecomesKeeps ==
    ASSUME RegistryInv, NEW request \in sent, NEW record \in Record,
           NEW answer \in {"nothing", "created"}, Becomes(request, record, answer),
           answer = "created" => request.verb = "create" /\ record = Landed(request.body)
    PROVE  RegistryInv'
<1> USE DEF RegistryInv
<1>1. PICK n \in Names : n = request.name
  BY DEF RegistryTypeOK, Mutations
<1>2. /\ rows' = [rows EXCEPT ![n] = record] /\ UNCHANGED budget /\ Answered(request, answer)
      /\ past' = [past EXCEPT ![n] = past[n] \cup {record}]
  BY <1>1 DEF Becomes
<1>3. record # Absent /\ answer \in Answers
  BY AgentRegistryAssumption DEF RegistryShapes, Answers
<1>4. rows' \in [Names -> Record \cup {Absent}] /\ past' \in [Names -> SUBSET Record]
  BY <1>2 DEF RegistryTypeOK
<1>5. /\ rows'[n] = record /\ \A m \in Names : m # n => rows'[m] = rows[m]
      /\ past'[n] = past[n] \cup {record} /\ \A m \in Names : m # n => past'[m] = past[m]
  BY <1>1, <1>2 DEF RegistryTypeOK
<1>6. \A m \in Names : past[m] \subseteq past'[m] /\ (rows[m] # Absent => rows'[m] # Absent)
  BY <1>3, <1>5
<1>7. Recorded'
  BY <1>5 DEF Recorded
<1>8. budget' \in Budgets \cup {Absent}
  BY <1>2 DEF RegistryTypeOK
<1> QED BY <1>1, <1>2, <1>3, <1>4, <1>5, <1>6, <1>7, <1>8, AnsweredKeeps

LEMMA MutatedFacts ==
    ASSUME RegistryInv, NEW request \in sent, NEW record \in Record
    PROVE  Mutated(record, request) \subseteq Record
<1> USE DEF Record
<1>1. PICK verb, body : verb = request.verb /\ body = request.body
  OBVIOUS
<1>2. body \in Bodies(verb)
  BY <1>1 DEF RegistryInv, RegistryTypeOK, Mutations
<1>3. \A s \in States : [record EXCEPT !.state = s] \in Record
  OBVIOUS
<1>4. verb \in {"narrow", "widen"} =>
        [record EXCEPT !.scope = body.scope, !.yellow = body.yellow] \in Record
  BY <1>2 DEF Bodies
<1>5. verb = "attestation-kinds" => [record EXCEPT !.kinds = body] \in Record
  BY <1>2 DEF Bodies
<1>6. verb = "owner-team" => [record EXCEPT !.team = body] \in Record
  BY <1>2 DEF Bodies
<1>7. [record EXCEPT !.remark = ~record.remark] \in Record
  OBVIOUS
<1>8. "active" \in States /\ "suspended" \in States /\ "decommissioned" \in States
  BY DEF States
<1> HIDE DEF Record
<1> QED BY <1>1, <1>3, <1>4, <1>5, <1>6, <1>7, <1>8 DEF Mutated

LEMMA IdentityKeeps ==
    ASSUME RegistryInv, NEW request \in sent,
           \/ LoseRequest(request) \/ Create(request) \/ Mutate(request)
           \/ BudgetSet(request) \/ Refuse(request)
    PROVE  RegistryInv'
<1> USE DEF RegistryInv
<1>1. CASE LoseRequest(request)
  <2>1. RegistryTypeOK'
    BY <1>1 DEF LoseRequest, RegistryTypeOK
  <2> QED BY <1>1, <2>1 DEF LoseRequest, Recorded, CreatesAwaited,
                         EnsuredAsWanted, RefusedOnlyByARace
<1>2. CASE Create(request)
  <2>1. request.body \in Wants
    BY <1>2 DEF Create, RegistryTypeOK, Mutations, Bodies
  <2>2. Landed(request.body) \in Record
    BY <2>1, LandedFacts
  <2> QED BY <1>2, <2>2, BecomesKeeps DEF Create
<1>3. CASE Mutate(request)
  <2>1. rows[request.name] \in Record
    BY <1>3 DEF Mutate, RegistryTypeOK, Mutations
  <2> QED BY <1>3, <2>1, MutatedFacts, BecomesKeeps DEF Mutate
<1>4. CASE BudgetSet(request)
  <2>1. budget' \in Budgets \cup {Absent}
    BY <1>4 DEF BudgetSet, RegistryTypeOK, Mutations, Bodies
  <2>2. UNCHANGED <<rows, past>> /\ Answered(request, "nothing") /\ "nothing" \in Answers
    BY <1>4 DEF BudgetSet, Answers
  <2>3. Recorded' /\ rows' \in [Names -> Record \cup {Absent}] /\ past' \in [Names -> SUBSET Record]
    BY <2>2 DEF Recorded, RegistryTypeOK
  <2> QED BY <2>1, <2>2, <2>3, AnsweredKeeps
<1>5. CASE Refuse(request)
  <2>1. PICK answer : answer = IF request.verb = "create" /\ rows[request.name] # Absent
                               THEN "taken" ELSE "nothing"
    OBVIOUS
  <2>2. UNCHANGED <<rows, budget, past>> /\ Answered(request, answer) /\ answer \in Answers
    BY <1>5, <2>1 DEF Refuse, Answers
  <2>3. /\ Recorded' /\ rows' \in [Names -> Record \cup {Absent}] /\ past' \in [Names -> SUBSET Record]
        /\ budget' \in Budgets \cup {Absent}
    BY <2>2 DEF Recorded, RegistryTypeOK
  <2> QED BY <2>1, <2>2, <2>3, AnsweredKeeps
<1> QED BY <1>1, <1>2, <1>3, <1>4, <1>5

LEMMA RegistryStep ==
    RegistryInv /\ [RegistryNext]_registryVars => RegistryInv'
<1> SUFFICES ASSUME RegistryInv, [RegistryNext]_registryVars PROVE RegistryInv'
  OBVIOUS
<1>1. CASE UNCHANGED registryVars
  <2>1. RegistryTypeOK'
    BY <1>1 DEF registryVars, RegistryTypeOK, RegistryInv
  <2> QED BY <1>1, <2>1 DEF registryVars, RegistryInv, Recorded, CreatesAwaited,
                         EnsuredAsWanted, RefusedOnlyByARace
<1>2. ASSUME NEW o \in Operators, NEW n \in Names, List(o, n) \/ Get(o, n)
      PROVE  RegistryInv'
  BY <1>2, ReadKeeps DEF List, Get
<1> QED BY <1>1, <1>2, StopWaitingKeeps, CreateIfAbsentKeeps, CallKeeps, IdentityKeeps DEF RegistryNext

(* The inductive invariant holds throughout.                               *)
THEOREM RegistryInvariant == RegistrySpec => []RegistryInv
  BY RegistryStarts, RegistryStep, PTL DEF RegistrySpec

(* Records, requests under way and what operators hold keep their types.   *)
THEOREM RegistryTypes == RegistrySpec => []RegistryTypeOK
<1>1. RegistryInv => RegistryTypeOK
  BY DEF RegistryInv
<1> QED BY <1>1, RegistryInvariant, PTL

(* Whatever other operators do meanwhile, a create-if-absent that succeeds *)
(* had its agent in place, and one that reports a difference met one       *)
(* (create_request_matches, agents.rs:418-434).                            *)
THEOREM EnsuredTheorem == RegistrySpec => []EnsuredAsWanted
<1>1. RegistryInv => EnsuredAsWanted
  BY DEF RegistryInv
<1> QED BY <1>1, RegistryInvariant, PTL

(* A create is refused only by one that arrived after its author had looked. *)
THEOREM RaceTheorem == RegistrySpec => []RefusedOnlyByARace
<1>1. RegistryInv => RefusedOnlyByARace
  BY DEF RegistryInv
<1> QED BY <1>1, RegistryInvariant, PTL
==============================================================================
