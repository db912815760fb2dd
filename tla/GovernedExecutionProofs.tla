----------------------- MODULE GovernedExecutionProofs -----------------------
(* Theorems about GovernedExecution, for every value of its constants. *)
EXTENDS GovernedExecution, TLAPS

-----------------------------------------------------------------------------
(* Lemmas on the outbox.                                                   *)

\* What mark_receipt_delivered does to the outbox: it only drops an entry of
\* the given id, so every entry of another id stays and none appears.
LEMMA RemoveEntryFacts ==
    ASSUME NEW S, S \subseteq Receipts, outbox \in Seq(S), NEW id, RemoveEntry(id)
    PROVE  /\ outbox' \in Seq(S)
           /\ ToSet(outbox') \subseteq ToSet(outbox)
           /\ \A c \in ToSet(outbox) : c.auth # id => c \in ToSet(outbox')
<1>1. PICK i \in DOMAIN outbox :
            outbox[i].auth = id /\ outbox' = RemoveAt(outbox, i)
  BY DEF RemoveEntry
<1>2. i \in 1..Len(outbox) /\ Len(outbox) \in Nat
  OBVIOUS
<1> DEFINE n == Len(outbox)
           front == SubSeq(outbox, 1, i - 1)
           back == SubSeq(outbox, i + 1, n)
<1>3. /\ front \in Seq(S) /\ Len(front) = i - 1
      /\ \A j \in 1..(i - 1) : front[j] = outbox[j]
  BY <1>2
<1>4. /\ back \in Seq(S) /\ Len(back) = n - i
      /\ \A j \in 1..(n - i) : back[j] = outbox[i + j]
  BY <1>2
<1>5. /\ outbox' \in Seq(S) /\ Len(outbox') = n - 1
      /\ \A j \in 1..(i - 1) : outbox'[j] = outbox[j]
      /\ \A j \in i..(n - 1) : outbox'[j] = outbox[j + 1]
  <2> HIDE DEF front, back
  <2>1. outbox' = front \o back
    BY <1>1 DEF RemoveAt, front, back
  <2> QED BY <2>1, <1>2, <1>3, <1>4
<1>6. \A c \in ToSet(outbox) : c.auth # id => c \in ToSet(outbox')
  <2> SUFFICES ASSUME NEW j \in 1..n, outbox[j].auth # id
               PROVE  outbox[j] \in ToSet(outbox')
    BY DEF ToSet
  <2>1. CASE j < i
    BY <2>1, <1>2, <1>5 DEF ToSet
  <2>2. CASE j > i
    <3>1. (j - 1) \in 1..(n - 1) /\ outbox'[j - 1] = outbox[j]
      BY <2>2, <1>2, <1>5
    <3> QED BY <3>1, <1>5 DEF ToSet
  <2> QED BY <2>1, <2>2, <1>1, <1>2
<1>7. ToSet(outbox') \subseteq ToSet(outbox)
  BY <1>2, <1>5 DEF ToSet
<1> QED BY <1>5, <1>6, <1>7

-----------------------------------------------------------------------------
(* Type correctness.                                                       *)

\* A call that is about to deliver holds the entry it delivers.
HoldsEntry == \A t \in Tasks : pc[t] \in {"record", "mark"} => queue[t] # <<>>

\* A call between its entry point and the end of complete_known_effect works
\* for one request; a call that delivers for a flush has none.
HasRequest ==
    \A t \in Tasks :
        pc[t] \notin {"idle", "snapshot", "record", "mark"} => auth[t] \in Requests

TaskInv == TaskTypeOK /\ HoldsEntry /\ HasRequest

TypeInv == ProxyTypeOK /\ StoreTypeOK /\ ExecutorTypeOK /\ HostTypeOK /\ TaskInv

LEMMA TypeInit == Init => TypeInv
<1> SUFFICES ASSUME Init PROVE TypeInv
  OBVIOUS
<1>1. ProxyTypeOK /\ StoreTypeOK /\ ExecutorTypeOK /\ HostTypeOK
  BY DEF Init, ProxyTypeOK, StoreTypeOK, ExecutorTypeOK, HostTypeOK, Decisions, Stages
<1>2. TaskInv
  BY DEF Init, TaskInv, TaskTypeOK, HoldsEntry, HasRequest, Awaits, Methods
<1> QED BY <1>1, <1>2 DEF TypeInv

\* A step that leaves one owner's variables alone keeps their types.
LEMMA Frames ==
    /\ ProxyTypeOK /\ UNCHANGED proxyVars => ProxyTypeOK'
    /\ StoreTypeOK /\ UNCHANGED storeVars => StoreTypeOK'
    /\ ExecutorTypeOK /\ UNCHANGED executorVars => ExecutorTypeOK'
    /\ HostTypeOK /\ UNCHANGED hostVars => HostTypeOK'
    /\ TaskInv /\ UNCHANGED taskVars => TaskInv'
  BY DEF ProxyTypeOK, StoreTypeOK, ExecutorTypeOK, HostTypeOK, TaskInv, TaskTypeOK,
         HoldsEntry, HasRequest, proxyVars, storeVars, executorVars, hostVars, taskVars

\* Returning and moving on keep a call well formed.
LEMMA ReturnTypes ==
    ASSUME TaskInv, NEW t \in Tasks, Return(t)
    PROVE  TaskInv'
<1>1. TaskTypeOK'
  BY DEF TaskInv, TaskTypeOK, Return, Awaits, Methods
<1>2. HoldsEntry' /\ HasRequest'
  BY DEF TaskInv, TaskTypeOK, HoldsEntry, HasRequest, Return
<1> QED BY <1>1, <1>2 DEF TaskInv

LEMMA AdvanceTypes ==
    ASSUME TaskInv, NEW t \in Tasks, NEW from, NEW to \in Awaits, Advance(t, from, to),
           \/ UNCHANGED queue
           \/ \E q \in Seq(Receipts) : q # <<>> /\ queue' = [queue EXCEPT ![t] = q],
           to \in {"record", "mark"} => queue'[t] # <<>>,
           to \notin {"idle", "snapshot", "record", "mark"} => auth[t] \in Requests
    PROVE  TaskInv'
<1>1. TaskTypeOK'
  BY DEF TaskInv, TaskTypeOK, Advance
<1>2. HoldsEntry' /\ HasRequest'
  BY DEF TaskInv, TaskTypeOK, HoldsEntry, HasRequest, Advance
<1> QED BY <1>1, <1>2 DEF TaskInv

LEMMA StartTypes ==
    ASSUME TypeInv, NEW t \in Tasks, Entry(t)
    PROVE  TypeInv'
<1>1. UNCHANGED <<queue, proxyVars, storeVars, executorVars, hostVars>>
  BY DEF Entry, Start, StartExecute, StartBegin, StartResume, StartReconcile, StartFlush
<1>2. PICK m \in Methods, r \in Requests \cup {None}, a \in Awaits :
        /\ Start(t, m, r, a)
        /\ \/ r \in Requests /\ a \in {"authorize", "load"}
           \/ a = "snapshot"
  BY DEF Entry, StartExecute, StartBegin, StartResume, StartReconcile, StartFlush,
         Methods, Awaits
<1>3. TaskTypeOK'
  BY <1>2 DEF TypeInv, TaskInv, TaskTypeOK, Start
<1>4. HoldsEntry' /\ HasRequest'
  BY <1>2 DEF TypeInv, TaskInv, TaskTypeOK, HoldsEntry, HasRequest, Start
<1> QED BY <1>1, <1>3, <1>4, Frames DEF TypeInv, TaskInv

\* Every action keeps the types.
LEMMA TypeStep ==
    ASSUME TypeInv, [Next]_vars
    PROVE  TypeInv'
<1> USE DEF TypeInv
<1>r. ASSUME NEW t \in Tasks, ReturnNothing(t)
      PROVE  TaskInv' /\ HostTypeOK'
  BY <1>r, ReturnTypes, Frames DEF ReturnNothing
<1>u. ASSUME NEW t \in Tasks, ReturnUncertain(t), auth[t] \in Requests
      PROVE  TaskInv' /\ HostTypeOK'
  <2>1. TaskInv'
    BY <1>u, ReturnTypes DEF ReturnUncertain
  <2>2. HostTypeOK'
    BY <1>u DEF ReturnUncertain, HostTypeOK
  <2> QED BY <2>1, <2>2
<1>m. ASSUME NEW id \in Requests, RemoveEntry(id)
      PROVE  StoreTypeOK'
  <2>1. outbox' \in Seq(Receipts)
    BY <1>m, RemoveEntryFacts DEF StoreTypeOK
  <2> QED BY <1>m, <2>1 DEF StoreTypeOK, RemoveEntry
<1>h. ASSUME NEW t \in Tasks, pc[t] \in {"record", "mark"}
      PROVE  /\ queue[t] \in Seq(Receipts) /\ queue[t] # <<>>
             /\ Head(queue[t]) \in Receipts /\ Head(queue[t]).auth \in Requests
  <2>1. queue[t] \in Seq(Receipts) /\ queue[t] # <<>>
    BY <1>h DEF TaskInv, TaskTypeOK, HoldsEntry
  <2>2. Head(queue[t]) \in Receipts
    BY <2>1
  <2> QED BY <2>1, <2>2 DEF Receipts
<1>q. ASSUME NEW t \in Tasks, pc[t] \notin {"idle", "snapshot", "record", "mark"}
      PROVE  auth[t] \in Requests
  BY <1>q DEF TaskInv, HasRequest
<1>1. ASSUME NEW t \in Tasks, Entry(t)
      PROVE  TypeInv'
  BY <1>1, StartTypes
<1>2. ASSUME NEW t \in Tasks, Authorize(t)
      PROVE  TypeInv'
  <2>1. CASE AuthorizationGranted(t)
    <3>1. auth[t] \in Requests
      BY <2>1, <1>q DEF AuthorizationGranted, Advance
    <3>2. TaskInv'
      BY <2>1, <3>1, AdvanceTypes DEF AuthorizationGranted, Awaits
    <3> QED BY <2>1, <3>2, Frames DEF AuthorizationGranted
  <2>2. CASE AuthorizationPending(t)
    <3>1. auth[t] \in Requests
      BY <2>2, <1>q DEF AuthorizationPending
    <3>2. HostTypeOK'
      BY <2>2, <3>1 DEF AuthorizationPending, HostTypeOK
    <3>3. TaskInv'
      BY <2>2, ReturnTypes DEF AuthorizationPending
    <3> QED BY <2>2, <3>2, <3>3, Frames DEF AuthorizationPending
  <2>3. CASE AuthorizationFails(t)
    BY <2>3, <1>r, Frames DEF AuthorizationFails
  <2> QED BY <1>2, <2>1, <2>2, <2>3 DEF Authorize
<1>3. ASSUME NEW t \in Tasks, BeginAttempt(t)
      PROVE  TypeInv'
  <2>1. auth[t] \in Requests
    BY <1>3, <1>q DEF BeginAttempt, AttemptStarted, AttemptInFlight, AttemptCompleted,
                      AttemptFails, Advance
  <2>2. AdmitAttempt(t) => StoreTypeOK'
    BY <2>1 DEF AdmitAttempt, StoreTypeOK, Stages
  <2>3. CASE AttemptStarted(t)
    <3>1. TaskInv'
      BY <2>1, <2>3, AdvanceTypes DEF AttemptStarted, Awaits
    <3> QED BY <2>2, <2>3, <3>1, Frames DEF AttemptStarted
  <2>4. CASE AttemptInFlight(t)
    BY <2>1, <2>4, <1>u, Frames DEF AttemptInFlight
  <2>5. CASE AttemptCompleted(t)
    BY <2>5, <1>r, Frames DEF AttemptCompleted
  <2>6. CASE AttemptFails(t)
    BY <2>2, <2>6, <1>r, Frames DEF AttemptFails
  <2> QED BY <1>3, <2>3, <2>4, <2>5, <2>6 DEF BeginAttempt
<1>4. ASSUME NEW t \in Tasks, Execute(t)
      PROVE  TypeInv'
  <2>1. auth[t] \in Requests
    BY <1>4, <1>q DEF Execute, InvokeExecutor, ExecutorReturns, ExecutorFails, Advance
  <2>2. CASE InvokeExecutor(t)
    <3>1. TaskInv'
      BY <2>1, <2>2, AdvanceTypes DEF InvokeExecutor, Awaits
    <3>2. ExecutorTypeOK'
      BY <2>1, <2>2 DEF InvokeExecutor, ExecutorTypeOK
    <3> QED BY <2>2, <3>1, <3>2, Frames DEF InvokeExecutor
  <2>3. CASE ExecutorReturns(t)
    <3>1. TaskInv'
      BY <2>1, <2>3, AdvanceTypes DEF ExecutorReturns, Awaits
    <3> QED BY <2>3, <3>1, Frames DEF ExecutorReturns
  <2>4. CASE ExecutorFails(t)
    BY <2>1, <2>4, <1>u, Frames DEF ExecutorFails
  <2> QED BY <1>4, <2>2, <2>3, <2>4 DEF Execute
<1>5. ASSUME NEW t \in Tasks, Reconcile(t)
      PROVE  TypeInv'
  <2>1. auth[t] \in Requests
    BY <1>5, <1>q DEF Reconcile, IntentLoaded, IntentUnavailable, LookupFound,
                      LookupInconclusive, Advance
  <2>2. CASE IntentLoaded(t)
    <3>1. TaskInv'
      BY <2>1, <2>2, AdvanceTypes DEF IntentLoaded, Awaits
    <3> QED BY <2>2, <3>1, Frames DEF IntentLoaded
  <2>3. CASE IntentUnavailable(t)
    BY <2>1, <2>3, <1>u, Frames DEF IntentUnavailable
  <2>4. CASE LookupFound(t)
    <3>1. TaskInv'
      BY <2>1, <2>4, AdvanceTypes DEF LookupFound, Awaits
    <3> QED BY <2>4, <3>1, Frames DEF LookupFound
  <2>5. CASE LookupInconclusive(t)
    BY <2>1, <2>5, <1>u, Frames DEF LookupInconclusive
  <2> QED BY <1>5, <2>2, <2>3, <2>4, <2>5 DEF Reconcile
<1>6. ASSUME NEW t \in Tasks, Commit(t)
      PROVE  TypeInv'
  <2>1. auth[t] \in Requests /\ ReceiptOf(t) \in Receipts
    <3>1. auth[t] \in Requests
      BY <1>6, <1>q DEF Commit, CompletionCommitted, CompletionUncertain, Advance
    <3> QED BY <3>1 DEF ReceiptOf, Receipts
  <2>2. ASSUME StoreCompletion(t) PROVE StoreTypeOK'
    <3>1. CASE Retained(t)
      BY <2>2, <3>1, Frames DEF StoreCompletion
    <3>2. CASE ~Retained(t)
      BY <2>1, <2>2, <3>2 DEF StoreCompletion, StoreTypeOK, Stages
    <3> QED BY <3>1, <3>2
  <2>3. CASE CompletionCommitted(t)
    <3> DEFINE q == <<ReceiptOf(t)>>
    <3>1. q \in Seq(Receipts) /\ q # <<>>
      BY <2>1
    <3>2. queue' = [queue EXCEPT ![t] = q] /\ Advance(t, "commit", "record")
      BY <2>3 DEF CompletionCommitted
    <3>3. queue'[t] # <<>>
      BY <3>1, <3>2 DEF TaskInv, TaskTypeOK
    <3> HIDE DEF q
    <3>4. TaskInv'
      BY <3>1, <3>2, <3>3, AdvanceTypes DEF Awaits
    <3> QED BY <2>2, <2>3, <3>4, Frames DEF CompletionCommitted
  <2>4. CASE CompletionUncertain(t)
    BY <2>1, <2>2, <2>4, <1>u, Frames DEF CompletionUncertain
  <2> QED BY <1>6, <2>3, <2>4 DEF Commit
<1>7. ASSUME NEW t \in Tasks, Deliver(t)
      PROVE  TypeInv'
  <2>1. CASE PendingRead(t)
    <3> DEFINE n == IF Len(outbox) < Limit THEN Len(outbox) ELSE Limit
               q == SubSeq(outbox, 1, n)
    <3>1. outbox \in Seq(Receipts) /\ outbox # <<>>
      BY <2>1 DEF PendingRead, StoreTypeOK
    <3>2. n \in 1..Len(outbox)
      BY <3>1, GovernedExecutionAssumption
    <3>3. q \in Seq(Receipts) /\ q # <<>>
      <4> HIDE DEF n
      <4> QED BY <3>1, <3>2
    <3>4. queue' = [queue EXCEPT ![t] = q] /\ Advance(t, "snapshot", "record")
      BY <2>1 DEF PendingRead
    <3>5. queue'[t] # <<>>
      BY <3>3, <3>4 DEF TaskInv, TaskTypeOK
    <3> HIDE DEF q
    <3>6. TaskInv'
      BY <3>3, <3>4, <3>5, AdvanceTypes DEF Awaits
    <3> QED BY <2>1, <3>6, Frames DEF PendingRead
  <2>2. CASE NothingRead(t)
    BY <2>2, <1>r, Frames DEF NothingRead
  <2>3. CASE ReceiptRecorded(t)
    <3>1. Head(queue[t]) \in Receipts /\ queue[t] # <<>>
      BY <2>3, <1>h DEF ReceiptRecorded, Advance
    <3>2. ProxyTypeOK'
      BY <2>3, <3>1 DEF ReceiptRecorded, ProxyTypeOK
    <3>3. TaskInv'
      BY <2>3, <3>1, AdvanceTypes DEF ReceiptRecorded, Awaits
    <3> QED BY <2>3, <3>2, <3>3, Frames DEF ReceiptRecorded
  <2>4. CASE RecordFails(t)
    <3>1. ProxyTypeOK'
      BY <2>4, <1>h DEF RecordFails, ProxyTypeOK
    <3> QED BY <2>4, <3>1, <1>r, Frames DEF RecordFails
  <2>5. CASE DeliveryFinished(t)
    <3>1. StoreTypeOK' /\ TaskInv'
      BY <2>5, <1>h, <1>m, ReturnTypes DEF DeliveryFinished
    <3>2. HostTypeOK'
      BY <2>5, <1>h DEF DeliveryFinished, HostTypeOK
    <3> QED BY <2>5, <3>1, <3>2, Frames DEF DeliveryFinished
  <2>6. CASE DeliveryContinues(t)
    <3> DEFINE q == Tail(queue[t])
    <3>1. queue[t] \in Seq(Receipts) /\ pc[t] = "mark" /\ Len(queue[t]) > 1
      BY <2>6, <1>h DEF DeliveryContinues, Advance
    <3>2. q \in Seq(Receipts) /\ q # <<>>
      <4>1. q \in Seq(Receipts) /\ Len(q) = Len(queue[t]) - 1
        BY <3>1
      <4>2. Len(queue[t]) \in Nat
        BY <3>1
      <4> HIDE DEF q
      <4> QED BY <3>1, <4>1, <4>2
    <3>3. queue' = [queue EXCEPT ![t] = q] /\ Advance(t, "mark", "record")
      BY <2>6 DEF DeliveryContinues
    <3>4. queue'[t] # <<>>
      BY <3>2, <3>3 DEF TaskInv, TaskTypeOK
    <3> HIDE DEF q
    <3>5. TaskInv'
      BY <3>2, <3>3, <3>4, AdvanceTypes DEF Awaits
    <3>6. StoreTypeOK'
      BY <2>6, <3>1, <1>h, <1>m DEF DeliveryContinues
    <3> QED BY <2>6, <3>5, <3>6, Frames DEF DeliveryContinues
  <2>7. CASE MarkFails(t)
    BY <2>7, <1>h, <1>m, <1>r, Frames DEF MarkFails
  <2> QED BY <1>7, <2>1, <2>2, <2>3, <2>4, <2>5, <2>6, <2>7 DEF Deliver
<1>8. ASSUME NEW t \in Tasks, Cancel(t)
      PROVE  TypeInv'
  BY <1>8, <1>r, Frames DEF Cancel
<1>9. ASSUME NEW r \in Requests, Environment(r)
      PROVE  TypeInv'
  <2>1. CASE ProxyDecides(r) \/ ReviewerDecides(r)
    <3>1. ProxyTypeOK'
      BY <2>1 DEF ProxyDecides, ReviewerDecides, ProxyTypeOK, Decisions
    <3> QED BY <2>1, <3>1, Frames DEF ProxyDecides, ReviewerDecides
  <2>2. CASE EffectLands(r)
    <3>1. ExecutorTypeOK'
      BY <2>2 DEF EffectLands, ExecutorTypeOK
    <3> QED BY <2>2, <3>1, Frames DEF EffectLands
  <2> QED BY <1>9, <2>1, <2>2 DEF Environment
<1>10. CASE UNCHANGED vars
  BY <1>10, Frames DEF vars
<1> QED BY <1>1, <1>2, <1>3, <1>4, <1>5, <1>6, <1>7, <1>8, <1>9, <1>10 DEF Next, Task

\* Every variable keeps its type, in particular a call that delivers a receipt
\* always holds one.
THEOREM TypeCorrect == Spec => []TypeOK
<1>1. TypeInv => TypeOK
  BY DEF TypeInv, TypeOK, TaskInv
<1> QED BY <1>1, TypeInit, TypeStep, PTL DEF Spec

-----------------------------------------------------------------------------
(* The inductive invariant of the executor boundary.                       *)

\* What a call knows at each await, and what every other call leaves true
\* while it is suspended there.
AwaitsOK ==
    \A t \in Tasks :
        /\ pc[t] = "begin_attempt" => decision[auth[t]] \in Granted
        /\ pc[t] \in {"invoke", "executing", "load", "lookup", "commit"}
             => stage[auth[t]] # "none"
        /\ pc[t] = "invoke" => invocations[auth[t]] = 0
        /\ pc[t] = "commit" => effects[auth[t]] > 0

\* Started has been answered to at most one call that has not invoked yet.
SingleAdmission ==
    \A t, u \in Tasks :
        pc[t] = "invoke" /\ pc[u] = "invoke" /\ auth[t] = auth[u] => t = u

CompletedHasEffect ==
    \A r \in Requests : stage[r] = "completed" => effects[r] > 0

\* A single-use claim is consumed only together with the marker.
ClaimIsAdmitted == \A r \in claimed : stage[r] # "none"

BoundaryInv ==
    /\ AwaitsOK
    /\ SingleAdmission
    /\ CompletedHasEffect
    /\ AtMostOnce
    /\ BoundaryBeforeExecutor
    /\ UncertainHandlesCrossedBoundary

-----------------------------------------------------------------------------
(* The inductive invariant of the receipts.                                *)

\* Entries that calls hold come from stored completions, and a call marks
\* only what Proxy has confirmed.
QueuesOK ==
    \A t \in Tasks :
        /\ ToSet(queue[t]) \subseteq completions
        /\ pc[t] = "mark" => Head(queue[t]) \in recorded

DeliveredIsRecorded ==
    \A r \in delivered : \E c \in recorded : c.auth = r

ReceiptInv ==
    /\ QueuesOK
    /\ DeliveredIsRecorded
    /\ ReceiptsWitnessEffects
    /\ SuccessIsDurable

\* The store keeps one completion, or both renderings of a result agree.
OneReceipt == KeepFirst \/ ExecutorResult = LookupResult

OneCompletion == \A c, d \in completions : c.auth = d.auth => c = d

LEMMA BoundaryInit == Init => BoundaryInv
  BY DEF Init, BoundaryInv, AwaitsOK, SingleAdmission, CompletedHasEffect, AtMostOnce,
         BoundaryBeforeExecutor, UncertainHandlesCrossedBoundary

\* A call that returns, with or without an uncertain handle, disturbs nothing.
LEMMA BoundaryReturn ==
    ASSUME TypeInv, BoundaryInv, NEW t \in Tasks, Return(t),
           UNCHANGED <<decision, stage, invocations, effects>>,
           uncertainHandles' \subseteq
               uncertainHandles \cup {r \in Requests : stage[r] # "none"}
    PROVE  BoundaryInv'
<1> USE DEF TypeInv, TaskInv, TaskTypeOK, BoundaryInv
<1>1. /\ pc' = [pc EXCEPT ![t] = "idle"]
      /\ \A u \in Tasks : u # t => auth'[u] = auth[u]
  BY DEF Return
<1>2. AwaitsOK'
  BY <1>1 DEF AwaitsOK
<1>3. SingleAdmission'
  BY <1>1 DEF SingleAdmission
<1>4. CompletedHasEffect' /\ AtMostOnce' /\ BoundaryBeforeExecutor'
  BY DEF CompletedHasEffect, AtMostOnce, BoundaryBeforeExecutor
<1>5. UncertainHandlesCrossedBoundary'
  BY DEF UncertainHandlesCrossedBoundary
<1> QED BY <1>2, <1>3, <1>4, <1>5

\* A call that moves on to an await it is entitled to.
LEMMA BoundaryAdvance ==
    ASSUME TypeInv, BoundaryInv, NEW t \in Tasks, NEW from, NEW to \in Awaits \ {"invoke"},
           Advance(t, from, to),
           UNCHANGED <<decision, stage, invocations, effects, uncertainHandles>>,
           to = "begin_attempt" => decision[auth[t]] \in Granted,
           to \in {"executing", "load", "lookup", "commit"} => stage[auth[t]] # "none",
           to = "commit" => effects[auth[t]] > 0
    PROVE  BoundaryInv'
<1> USE DEF TypeInv, TaskInv, TaskTypeOK, BoundaryInv
<1>1. pc' = [pc EXCEPT ![t] = to] /\ auth' = auth
  BY DEF Advance
<1>2. AwaitsOK'
  BY <1>1 DEF AwaitsOK
<1>3. SingleAdmission'
  BY <1>1 DEF SingleAdmission
<1>4. CompletedHasEffect' /\ AtMostOnce' /\ BoundaryBeforeExecutor'
  BY DEF CompletedHasEffect, AtMostOnce, BoundaryBeforeExecutor
<1>5. UncertainHandlesCrossedBoundary'
  BY DEF UncertainHandlesCrossedBoundary
<1> QED BY <1>2, <1>3, <1>4, <1>5

\* The durable marker of an authorization moves forward while its call
\* returns, or moves on to deliver: no other call is disturbed.
LEMMA BoundaryMark ==
    ASSUME TypeInv, BoundaryInv, NEW t \in Tasks, NEW s \in {"in_flight", "completed"},
           auth[t] \in Requests,
           stage' = [stage EXCEPT ![auth[t]] = s],
           s = "completed" => effects[auth[t]] > 0,
           decision[auth[t]] \in Granted,
           NEW to \in {"idle", "record"},
           pc' = [pc EXCEPT ![t] = to],
           \A u \in Tasks : u # t => auth'[u] = auth[u],
           UNCHANGED <<decision, invocations, effects>>,
           uncertainHandles' \subseteq uncertainHandles \cup {auth[t]}
    PROVE  BoundaryInv'
<1> USE DEF TypeInv, TaskInv, TaskTypeOK, BoundaryInv, StoreTypeOK
<1>1. \A r \in Requests :
          /\ stage'[r] # stage[r] => r = auth[t]
          /\ stage[r] # "none" => stage'[r] # "none"
  OBVIOUS
<1>2. AwaitsOK'
  <2> SUFFICES ASSUME NEW u \in Tasks, u # t, pc[u] \notin {"idle", "record"},
                      auth[u] \in Requests
               PROVE  /\ pc[u] = "begin_attempt" => decision[auth[u]] \in Granted
                      /\ pc[u] \in {"invoke", "executing", "load", "lookup", "commit"}
                           => stage'[auth[u]] # "none"
                      /\ pc[u] = "invoke" => invocations[auth[u]] = 0
                      /\ pc[u] = "commit" => effects[auth[u]] > 0
    BY DEF AwaitsOK, HasRequest
  <2> QED BY <1>1 DEF AwaitsOK
<1>3. SingleAdmission'
  BY DEF SingleAdmission
<1>4. CompletedHasEffect'
  BY DEF CompletedHasEffect
<1>5. AtMostOnce' /\ BoundaryBeforeExecutor'
  BY <1>1 DEF AtMostOnce, BoundaryBeforeExecutor
<1>6. UncertainHandlesCrossedBoundary'
  BY <1>1 DEF UncertainHandlesCrossedBoundary, HostTypeOK
<1> QED BY <1>2, <1>3, <1>4, <1>5, <1>6

LEMMA ClaimStep ==
    ASSUME TypeInv, ClaimIsAdmitted, [Next]_vars
    PROVE  ClaimIsAdmitted'
<1>0. claimed' \subseteq Requests
  BY TypeStep DEF TypeInv, StoreTypeOK
<1>1. ASSUME NEW t \in Tasks, AdmitAttempt(t)
      PROVE  ClaimIsAdmitted'
  BY <1>0, <1>1 DEF AdmitAttempt, ClaimIsAdmitted, TypeInv, StoreTypeOK
<1>2. ASSUME NEW t \in Tasks, StoreCompletion(t)
      PROVE  ClaimIsAdmitted'
  BY <1>2 DEF StoreCompletion, ClaimIsAdmitted, TypeInv, StoreTypeOK, storeVars
<1>3. CASE UNCHANGED <<stage, claimed>>
  BY <1>3 DEF ClaimIsAdmitted
<1>4. \/ \E t \in Tasks : AdmitAttempt(t) \/ StoreCompletion(t)
      \/ UNCHANGED <<stage, claimed>>
  <2>1. ASSUME NEW t \in Tasks, Task(t)
        PROVE  AdmitAttempt(t) \/ StoreCompletion(t) \/ UNCHANGED <<stage, claimed>>
    <3>1. CASE Entry(t)
      BY <3>1 DEF Entry, Start, StartExecute, StartBegin, StartResume, StartReconcile,
                  StartFlush, storeVars
    <3>2. CASE Authorize(t) \/ Execute(t) \/ Reconcile(t) \/ Cancel(t)
      BY <3>2 DEF Authorize, AuthorizationGranted, AuthorizationPending,
                  AuthorizationFails, Execute, InvokeExecutor, ExecutorReturns,
                  ExecutorFails, Reconcile, IntentLoaded, IntentUnavailable, LookupFound,
                  LookupInconclusive, Cancel, storeVars
    <3>3. CASE BeginAttempt(t) \/ Commit(t)
      BY <3>3 DEF BeginAttempt, AttemptStarted, AttemptInFlight, AttemptCompleted,
                  AttemptFails, Commit, CompletionCommitted, CompletionUncertain, storeVars
    <3>4. CASE Deliver(t)
      BY <3>4 DEF Deliver, PendingRead, NothingRead, ReceiptRecorded, RecordFails,
                  DeliveryFinished, DeliveryContinues, MarkFails, RemoveEntry, storeVars
    <3> QED BY <2>1, <3>1, <3>2, <3>3, <3>4 DEF Task
  <2>2. ASSUME NEW r \in Requests, Environment(r)
        PROVE  UNCHANGED <<stage, claimed>>
    BY <2>2 DEF Environment, ProxyDecides, ReviewerDecides, EffectLands, storeVars
  <2>3. CASE UNCHANGED vars
    BY <2>3 DEF vars, storeVars
  <2> QED BY <2>1, <2>2, <2>3 DEF Next
<1> QED BY <1>1, <1>2, <1>3, <1>4

LEMMA BoundaryStep ==
    ASSUME TypeInv, BoundaryInv, ClaimIsAdmitted, [Next]_vars
    PROVE  BoundaryInv'
<1> USE DEF TypeInv
<1>q. ASSUME NEW t \in Tasks, pc[t] \notin {"idle", "snapshot", "record", "mark"}
      PROVE  auth[t] \in Requests
  BY <1>q DEF TaskInv, HasRequest
<1>k. ASSUME NEW t \in Tasks,
             pc[t] \in {"invoke", "executing", "load", "lookup", "commit"}
      PROVE  stage[auth[t]] # "none" /\ decision[auth[t]] \in Granted
  BY <1>k, <1>q DEF BoundaryInv, AwaitsOK, BoundaryBeforeExecutor
<1>r. ASSUME NEW t \in Tasks, ReturnNothing(t),
             UNCHANGED <<decision, stage, invocations, effects>>
      PROVE  BoundaryInv'
  BY <1>r, BoundaryReturn DEF ReturnNothing, hostVars
<1>u. ASSUME NEW t \in Tasks, ReturnUncertain(t), auth[t] \in Requests,
             stage[auth[t]] # "none",
             UNCHANGED <<decision, stage, invocations, effects>>
      PROVE  BoundaryInv'
  <2>1. uncertainHandles' \subseteq
            uncertainHandles \cup {r \in Requests : stage[r] # "none"}
    BY <1>u DEF ReturnUncertain
  <2> QED BY <1>u, <2>1, BoundaryReturn DEF ReturnUncertain
<1>1. ASSUME NEW t \in Tasks, Entry(t)
      PROVE  BoundaryInv'
  <2>1. UNCHANGED <<decision, stage, invocations, effects, uncertainHandles>>
    BY <1>1 DEF Entry, Start, StartExecute, StartBegin, StartResume, StartReconcile,
                StartFlush, proxyVars, storeVars, executorVars, hostVars
  <2>2. PICK r \in Requests \cup {None}, a \in {"authorize", "load", "snapshot"} :
          /\ pc' = [pc EXCEPT ![t] = a] /\ auth' = [auth EXCEPT ![t] = r]
          /\ a = "load" => r \in uncertainHandles
    BY <1>1 DEF Entry, Start, StartExecute, StartBegin, StartResume, StartReconcile,
                StartFlush
  <2>3. a = "load" => stage[r] # "none"
    BY <2>2 DEF BoundaryInv, UncertainHandlesCrossedBoundary
  <2> USE DEF TaskInv, TaskTypeOK, BoundaryInv
  <2>4. AwaitsOK'
    BY <2>1, <2>2, <2>3 DEF AwaitsOK
  <2>5. SingleAdmission'
    BY <2>2 DEF SingleAdmission
  <2>6. CompletedHasEffect' /\ AtMostOnce' /\ BoundaryBeforeExecutor'
    BY <2>1 DEF CompletedHasEffect, AtMostOnce, BoundaryBeforeExecutor
  <2>7. UncertainHandlesCrossedBoundary'
    BY <2>1 DEF UncertainHandlesCrossedBoundary
  <2> QED BY <2>4, <2>5, <2>6, <2>7
<1>2. ASSUME NEW t \in Tasks, Authorize(t)
      PROVE  BoundaryInv'
  <2>1. UNCHANGED <<decision, stage, invocations, effects, uncertainHandles>>
    BY <1>2 DEF Authorize, AuthorizationGranted, AuthorizationPending, AuthorizationFails,
                ReturnNothing, proxyVars, storeVars, executorVars, hostVars
  <2>2. CASE AuthorizationGranted(t)
    BY <2>1, <2>2, BoundaryAdvance DEF AuthorizationGranted, Awaits
  <2>3. CASE AuthorizationPending(t)
    BY <2>1, <2>3, BoundaryReturn DEF AuthorizationPending
  <2>4. CASE AuthorizationFails(t)
    BY <2>1, <2>4, <1>r DEF AuthorizationFails
  <2> QED BY <1>2, <2>2, <2>3, <2>4 DEF Authorize
<1>3. ASSUME NEW t \in Tasks, BeginAttempt(t)
      PROVE  BoundaryInv'
  <2>1. /\ pc[t] = "begin_attempt" /\ auth[t] \in Requests
        /\ decision[auth[t]] \in Granted
        /\ UNCHANGED <<decision, invocations, effects>>
    <3>1. pc[t] = "begin_attempt" /\ UNCHANGED <<decision, invocations, effects>>
      BY <1>3 DEF BeginAttempt, AttemptStarted, AttemptInFlight, AttemptCompleted,
                  AttemptFails, Advance, proxyVars, executorVars
    <3> QED BY <3>1, <1>q DEF BoundaryInv, AwaitsOK
  <2>2. CASE AttemptStarted(t)
    <3>1. /\ stage[auth[t]] = "none" /\ stage' = [stage EXCEPT ![auth[t]] = "in_flight"]
          /\ pc' = [pc EXCEPT ![t] = "invoke"]
          /\ UNCHANGED <<auth, uncertainHandles>>
      BY <2>2 DEF AttemptStarted, AttemptAdmissible, AdmitAttempt, Advance, hostVars
    <3>2. invocations[auth[t]] = 0
      BY <2>1, <3>1 DEF BoundaryInv, BoundaryBeforeExecutor, ExecutorTypeOK
    <3>3. \A u \in Tasks : pc[u] = "invoke" => auth[u] # auth[t]
      BY <3>1 DEF BoundaryInv, AwaitsOK
    <3> USE DEF TaskInv, TaskTypeOK, BoundaryInv, StoreTypeOK
    <3>4. \A r \in Requests : r # auth[t] => stage'[r] = stage[r]
      BY <3>1
    <3>5. stage'[auth[t]] = "in_flight"
      BY <2>1, <3>1
    <3>6. AwaitsOK'
      <4> SUFFICES ASSUME NEW u \in Tasks
                   PROVE  /\ pc'[u] = "begin_attempt" => decision[auth[u]] \in Granted
                          /\ pc'[u] \in {"invoke", "executing", "load", "lookup", "commit"}
                               => stage'[auth[u]] # "none"
                          /\ pc'[u] = "invoke" => invocations[auth[u]] = 0
                          /\ pc'[u] = "commit" => effects[auth[u]] > 0
        BY <2>1, <3>1 DEF AwaitsOK
      <4>1. CASE u = t
        BY <4>1, <3>1, <3>2, <3>5
      <4>2. CASE u # t
        BY <4>2, <3>1, <3>4, <3>5, <1>q DEF AwaitsOK
      <4> QED BY <4>1, <4>2
    <3>7. SingleAdmission'
      BY <3>1, <3>3 DEF SingleAdmission
    <3>8. CompletedHasEffect'
      BY <2>1, <3>1 DEF CompletedHasEffect
    <3>9. AtMostOnce' /\ BoundaryBeforeExecutor'
      BY <2>1, <3>4, <3>5 DEF AtMostOnce, BoundaryBeforeExecutor
    <3>10. UncertainHandlesCrossedBoundary'
      BY <3>1, <3>4, <3>5 DEF UncertainHandlesCrossedBoundary, HostTypeOK
    <3> QED BY <3>6, <3>7, <3>8, <3>9, <3>10
  <2>3. CASE AttemptInFlight(t)
    <3>1. stage[auth[t]] # "none"
      BY <2>3 DEF AttemptInFlight, AttemptAdmissible, ClaimIsAdmitted
    <3> QED BY <2>1, <2>3, <3>1, <1>u DEF AttemptInFlight, storeVars
  <2>4. CASE AttemptCompleted(t)
    BY <2>1, <2>4, <1>r DEF AttemptCompleted, storeVars
  <2>5. CASE AttemptFails(t)
    <3>1. CASE UNCHANGED storeVars
      BY <2>1, <2>5, <3>1, <1>r DEF AttemptFails, storeVars
    <3>2. CASE AdmitAttempt(t)
      <4>1. /\ stage' = [stage EXCEPT ![auth[t]] = "in_flight"]
            /\ pc' = [pc EXCEPT ![t] = "idle"] /\ auth' = [auth EXCEPT ![t] = None]
            /\ uncertainHandles' = uncertainHandles
        BY <2>5, <3>2 DEF AttemptFails, AdmitAttempt, ReturnNothing, Return, hostVars
      <4> QED BY <2>1, <4>1, BoundaryMark DEF TaskInv, TaskTypeOK
    <3> QED BY <2>5, <3>1, <3>2 DEF AttemptFails
  <2> QED BY <1>3, <2>2, <2>3, <2>4, <2>5 DEF BeginAttempt
<1>4. ASSUME NEW t \in Tasks, Execute(t)
      PROVE  BoundaryInv'
  <2>1. CASE InvokeExecutor(t)
    <3> USE DEF TaskInv, TaskTypeOK, BoundaryInv, ExecutorTypeOK
    <3>1. /\ pc[t] = "invoke" /\ pc' = [pc EXCEPT ![t] = "executing"]
          /\ invocations' = [invocations EXCEPT ![auth[t]] = @ + 1]
          /\ UNCHANGED <<auth, decision, stage, effects, uncertainHandles>>
      BY <2>1 DEF InvokeExecutor, Advance, proxyVars, storeVars, hostVars
    <3>2. /\ auth[t] \in Requests /\ stage[auth[t]] # "none"
          /\ invocations[auth[t]] = 0
      BY <3>1, <1>q DEF AwaitsOK
    <3>3. invocations'[auth[t]] = 1
      BY <3>1, <3>2
    <3>4. \A r \in Requests : r # auth[t] => invocations'[r] = invocations[r]
      BY <3>1
    <3>5. AwaitsOK'
      <4> SUFFICES ASSUME NEW u \in Tasks
                   PROVE  /\ pc'[u] = "begin_attempt" => decision[auth[u]] \in Granted
                          /\ pc'[u] \in {"invoke", "executing", "load", "lookup", "commit"}
                               => stage[auth[u]] # "none"
                          /\ pc'[u] = "invoke" => invocations'[auth[u]] = 0
                          /\ pc'[u] = "commit" => effects[auth[u]] > 0
        BY <3>1 DEF AwaitsOK
      <4>1. CASE u = t
        BY <4>1, <3>1, <3>2
      <4>2. CASE u # t
        <5>1. pc[u] = "invoke" => auth[u] \in Requests /\ auth[u] # auth[t]
          BY <4>2, <3>1, <1>q DEF SingleAdmission
        <5> QED BY <5>1, <4>2, <3>1, <3>4 DEF AwaitsOK
      <4> QED BY <4>1, <4>2
    <3>6. SingleAdmission'
      BY <3>1 DEF SingleAdmission
    <3>7. CompletedHasEffect' /\ UncertainHandlesCrossedBoundary'
      BY <3>1 DEF CompletedHasEffect, UncertainHandlesCrossedBoundary
    <3>8. AtMostOnce' /\ BoundaryBeforeExecutor'
      BY <3>1, <3>2, <3>3, <3>4 DEF AtMostOnce, BoundaryBeforeExecutor
    <3> QED BY <3>5, <3>6, <3>7, <3>8
  <2>2. CASE ExecutorReturns(t)
    <3>1. /\ pc[t] = "executing" /\ effects[auth[t]] > 0
          /\ Advance(t, "executing", "commit")
          /\ UNCHANGED <<decision, stage, invocations, effects, uncertainHandles>>
      BY <2>2 DEF ExecutorReturns, Advance, proxyVars, storeVars, executorVars, hostVars
    <3> QED BY <3>1, <1>k, BoundaryAdvance DEF Awaits
  <2>3. CASE ExecutorFails(t)
    BY <2>3, <1>q, <1>k, <1>u DEF ExecutorFails, proxyVars, storeVars, executorVars
  <2> QED BY <1>4, <2>1, <2>2, <2>3 DEF Execute
<1>5. ASSUME NEW t \in Tasks, Reconcile(t)
      PROVE  BoundaryInv'
  <2>1. /\ pc[t] \in {"load", "lookup"} /\ auth[t] \in Requests
        /\ stage[auth[t]] # "none"
        /\ UNCHANGED <<decision, stage, invocations, effects>>
    <3>1. /\ pc[t] \in {"load", "lookup"}
          /\ UNCHANGED <<decision, stage, invocations, effects>>
      BY <1>5 DEF Reconcile, IntentLoaded, IntentUnavailable, LookupFound,
                  LookupInconclusive, Advance, proxyVars, storeVars, executorVars
    <3> QED BY <3>1, <1>q, <1>k
  <2>2. CASE IntentLoaded(t)
    BY <2>1, <2>2, BoundaryAdvance DEF IntentLoaded, Awaits, hostVars
  <2>3. CASE LookupFound(t)
    BY <2>1, <2>3, BoundaryAdvance DEF LookupFound, Awaits, hostVars
  <2>4. CASE IntentUnavailable(t) \/ LookupInconclusive(t)
    BY <2>1, <2>4, <1>u DEF IntentUnavailable, LookupInconclusive
  <2> QED BY <1>5, <2>2, <2>3, <2>4 DEF Reconcile
<1>6. ASSUME NEW t \in Tasks, Commit(t)
      PROVE  BoundaryInv'
  <2>1. /\ pc[t] = "commit" /\ UNCHANGED <<decision, invocations, effects>>
        /\ StoreCompletion(t) \/ UNCHANGED storeVars
        /\ CompletionUncertain(t) \/ StoreCompletion(t)
    BY <1>6 DEF Commit, CompletionCommitted, CompletionUncertain, Advance, proxyVars,
                executorVars
  <2>2. /\ auth[t] \in Requests /\ effects[auth[t]] > 0
        /\ stage[auth[t]] # "none" /\ decision[auth[t]] \in Granted
    BY <2>1, <1>q, <1>k DEF BoundaryInv, AwaitsOK
  <2>3. CASE UNCHANGED stage
    <3>1. CASE CompletionCommitted(t)
      BY <2>1, <2>3, <3>1, BoundaryAdvance DEF CompletionCommitted, Awaits, hostVars
    <3>2. CASE CompletionUncertain(t)
      BY <2>1, <2>2, <2>3, <3>2, <1>u DEF CompletionUncertain
    <3> QED BY <1>6, <3>1, <3>2 DEF Commit
  <2>4. CASE stage' = [stage EXCEPT ![auth[t]] = "completed"]
    <3>1. CASE CompletionCommitted(t)
      <4>1. /\ pc' = [pc EXCEPT ![t] = "record"] /\ auth' = auth
            /\ uncertainHandles' = uncertainHandles
        BY <3>1 DEF CompletionCommitted, Advance, hostVars
      <4> QED BY <2>1, <2>2, <2>4, <4>1, BoundaryMark
    <3>2. CASE CompletionUncertain(t)
      <4>1. /\ pc' = [pc EXCEPT ![t] = "idle"] /\ auth' = [auth EXCEPT ![t] = None]
            /\ uncertainHandles' = uncertainHandles \cup {auth[t]}
        BY <3>2 DEF CompletionUncertain, ReturnUncertain, Return
      <4> QED BY <2>1, <2>2, <2>4, <4>1, BoundaryMark DEF TaskInv, TaskTypeOK
    <3> QED BY <1>6, <3>1, <3>2 DEF Commit
  <2> QED BY <2>1, <2>3, <2>4 DEF StoreCompletion, storeVars
<1>7. ASSUME NEW t \in Tasks, Deliver(t)
      PROVE  BoundaryInv'
  <2>1. UNCHANGED <<decision, stage, invocations, effects, uncertainHandles>>
    BY <1>7 DEF Deliver, PendingRead, NothingRead, ReceiptRecorded, RecordFails,
                DeliveryFinished, DeliveryContinues, MarkFails, RemoveEntry, ReturnNothing,
                proxyVars, storeVars, executorVars, hostVars
  <2>2. \/ \E from \in Awaits, to \in {"record", "mark"} : Advance(t, from, to)
        \/ Return(t)
    BY <1>7 DEF Deliver, PendingRead, NothingRead, ReceiptRecorded, RecordFails,
                DeliveryFinished, DeliveryContinues, MarkFails, ReturnNothing, Awaits
  <2>3. CASE Return(t)
    BY <2>1, <2>3, BoundaryReturn
  <2>4. ASSUME NEW from \in Awaits, NEW to \in {"record", "mark"}, Advance(t, from, to)
        PROVE  BoundaryInv'
    BY <2>1, <2>4, BoundaryAdvance DEF Awaits
  <2> QED BY <2>2, <2>3, <2>4
<1>8. ASSUME NEW t \in Tasks, Cancel(t)
      PROVE  BoundaryInv'
  BY <1>8, <1>r DEF Cancel, proxyVars, storeVars, executorVars
<1>9. ASSUME NEW r \in Requests, Environment(r)
      PROVE  BoundaryInv'
  <2> USE DEF BoundaryInv
  <2>1. CASE ProxyDecides(r) \/ ReviewerDecides(r)
    <3>1. /\ UNCHANGED <<stage, invocations, effects, uncertainHandles, pc, auth>>
          /\ decision[r] \notin Granted
          /\ \A x \in Requests : x # r => decision'[x] = decision[x]
      BY <2>1 DEF ProxyDecides, ReviewerDecides, Granted, ProxyTypeOK, storeVars,
                  executorVars, hostVars, taskVars
    <3>2. AwaitsOK'
      BY <3>1, <1>q DEF AwaitsOK
    <3>3. BoundaryBeforeExecutor'
      BY <3>1 DEF BoundaryBeforeExecutor
    <3>4. SingleAdmission' /\ CompletedHasEffect' /\ AtMostOnce'
              /\ UncertainHandlesCrossedBoundary'
      BY <3>1 DEF SingleAdmission, CompletedHasEffect, AtMostOnce,
                  UncertainHandlesCrossedBoundary
    <3> QED BY <3>2, <3>3, <3>4
  <2>2. CASE EffectLands(r)
    <3>1. /\ UNCHANGED <<decision, stage, invocations, uncertainHandles, pc, auth>>
          /\ effects[r] < invocations[r]
          /\ effects' = [effects EXCEPT ![r] = @ + 1]
      BY <2>2 DEF EffectLands, proxyVars, storeVars, hostVars, taskVars
    <3>2. \A x \in Requests : effects'[x] >= effects[x] /\ effects'[x] <= invocations[x]
      BY <3>1 DEF ExecutorTypeOK, AtMostOnce
    <3>3. AwaitsOK'
      BY <3>1, <3>2, <1>q DEF AwaitsOK, ExecutorTypeOK
    <3>4. CompletedHasEffect' /\ AtMostOnce'
      BY <3>1, <3>2 DEF CompletedHasEffect, AtMostOnce, ExecutorTypeOK
    <3>5. SingleAdmission' /\ BoundaryBeforeExecutor' /\ UncertainHandlesCrossedBoundary'
      BY <3>1 DEF SingleAdmission, BoundaryBeforeExecutor, UncertainHandlesCrossedBoundary
    <3> QED BY <3>3, <3>4, <3>5
  <2> QED BY <1>9, <2>1, <2>2 DEF Environment
<1>10. CASE UNCHANGED vars
  BY <1>10 DEF vars, proxyVars, storeVars, executorVars, hostVars, taskVars, BoundaryInv,
       AwaitsOK, SingleAdmission, CompletedHasEffect, AtMostOnce, BoundaryBeforeExecutor,
       UncertainHandlesCrossedBoundary
<1> QED BY <1>1, <1>2, <1>3, <1>4, <1>5, <1>6, <1>7, <1>8, <1>9, <1>10 DEF Next, Task

LEMMA BoundaryInvariant == Spec => [](TypeInv /\ BoundaryInv)
<1>1. Init => ClaimIsAdmitted
  BY DEF Init, ClaimIsAdmitted
<1> QED BY <1>1, TypeInit, TypeStep, ClaimStep, BoundaryInit, BoundaryStep, PTL DEF Spec

\* At most one executor invocation and one effect per authorization, for any
\* number of calls, requests and drops.
THEOREM AtMostOnceHolds == Spec => []AtMostOnce
<1>1. BoundaryInv => AtMostOnce
  BY DEF BoundaryInv
<1> QED BY <1>1, BoundaryInvariant, PTL

\* No executor is released before a granted decision and a durable marker.
THEOREM BoundaryHolds == Spec => []BoundaryBeforeExecutor
<1>1. BoundaryInv => BoundaryBeforeExecutor
  BY DEF BoundaryInv
<1> QED BY <1>1, BoundaryInvariant, PTL

\* Every uncertain handle stands for an attempt that crossed the boundary.
THEOREM HandlesHold == Spec => []UncertainHandlesCrossedBoundary
<1>1. BoundaryInv => UncertainHandlesCrossedBoundary
  BY DEF BoundaryInv
<1> QED BY <1>1, BoundaryInvariant, PTL

-----------------------------------------------------------------------------
(* Receipts: durable, witnessed and reported only when delivered.          *)

\* The marker never goes back and no effect is ever taken back.
LEMMA Monotone ==
    ASSUME TypeInv, BoundaryInv, [Next]_vars, NEW r \in Requests
    PROVE  /\ stage[r] = "completed" => stage'[r] = "completed"
           /\ effects'[r] >= effects[r]
<1> USE DEF TypeInv, StoreTypeOK, ExecutorTypeOK
<1>1. ASSUME NEW t \in Tasks, Task(t)
      PROVE  /\ effects' = effects
             /\ \/ AttemptAdmissible(t) /\ AdmitAttempt(t)
                \/ StoreCompletion(t) \/ UNCHANGED stage
  <2>1. CASE Entry(t)
    BY <2>1 DEF Entry, Start, StartExecute, StartBegin, StartResume, StartReconcile,
                StartFlush, storeVars, executorVars
  <2>2. CASE Authorize(t) \/ Execute(t) \/ Reconcile(t) \/ Cancel(t)
    BY <2>2 DEF Authorize, AuthorizationGranted, AuthorizationPending,
                AuthorizationFails, Execute, InvokeExecutor, ExecutorReturns,
                ExecutorFails, Reconcile, IntentLoaded, IntentUnavailable, LookupFound,
                LookupInconclusive, Cancel, storeVars, executorVars
  <2>3. CASE BeginAttempt(t) \/ Commit(t)
    BY <2>3 DEF BeginAttempt, AttemptStarted, AttemptInFlight, AttemptCompleted, AttemptFails,
                Commit, CompletionCommitted, CompletionUncertain, storeVars, executorVars
  <2>4. CASE Deliver(t)
    BY <2>4 DEF Deliver, PendingRead, NothingRead, ReceiptRecorded, RecordFails,
                DeliveryFinished, DeliveryContinues, MarkFails, RemoveEntry, storeVars,
                executorVars
  <2> QED BY <1>1, <2>1, <2>2, <2>3, <2>4 DEF Task
<1>2. CASE \E t \in Tasks : Task(t)
  <2>1. effects' = effects
    BY <1>1, <1>2
  <2>2. stage[r] = "completed" => stage'[r] = "completed"
    BY <1>1, <1>2 DEF AttemptAdmissible, AdmitAttempt, StoreCompletion, storeVars
  <2> QED BY <2>1, <2>2
<1>3. CASE \E x \in Requests : Environment(x)
  BY <1>3 DEF Environment, ProxyDecides, ReviewerDecides, EffectLands, storeVars,
              executorVars
<1>4. CASE UNCHANGED vars
  BY <1>4 DEF vars, storeVars, executorVars
<1> QED BY <1>2, <1>3, <1>4 DEF Next

\* Steps that only grow the completions, the records and the deliveries keep
\* the invariant when what is new is justified.
LEMMA ReceiptGrowth ==
    ASSUME TypeInv, TypeInv', BoundaryInv, ReceiptInv, [Next]_vars,
           completions \subseteq completions', recorded \subseteq recorded',
           delivered \subseteq delivered',
           \A c \in completions' \ completions : stage'[c.auth] = "completed" /\ effects[c.auth] > 0,
           recorded' \subseteq completions',
           ToSet(outbox') \subseteq completions',
           \A r \in delivered' \ delivered : \E c \in recorded' : c.auth = r,
           \A c \in reported' \ reported : c \in recorded' /\ c.auth \in delivered',
           \A t \in Tasks : ToSet(queue'[t]) \subseteq completions',
           \A t \in Tasks : pc'[t] = "mark" => Head(queue'[t]) \in recorded'
    PROVE  ReceiptInv'
<1> USE DEF ReceiptInv, TypeInv
<1>1. QueuesOK' /\ DeliveredIsRecorded'
  BY DEF QueuesOK, DeliveredIsRecorded
<1>2. SuccessIsDurable'
  BY DEF SuccessIsDurable
<1>3. ReceiptsWitnessEffects'
  <2>1. (recorded \cup reported \cup ToSet(outbox) \subseteq completions)'
    BY <1>2 DEF SuccessIsDurable
  <2>2. \A c \in completions' : stage'[c.auth] = "completed" /\ effects'[c.auth] > 0
    <3> TAKE c \in completions'
    <3>1. c.auth \in Requests
      BY DEF StoreTypeOK, Receipts
    <3>2. effects'[c.auth] >= effects[c.auth]
          /\ effects[c.auth] \in Nat /\ effects'[c.auth] \in Nat
      BY <3>1, Monotone DEF ExecutorTypeOK
    <3>3. CASE c \in completions
      BY <3>1, <3>2, <3>3, Monotone DEF ReceiptsWitnessEffects
    <3>4. CASE c \notin completions
      BY <3>2, <3>4
    <3> QED BY <3>3, <3>4
  <2> QED BY <2>1, <2>2 DEF ReceiptsWitnessEffects
<1> QED BY <1>1, <1>2, <1>3

\* Steps that leave the receipts alone, and in which calls only lose entries.
LEMMA ReceiptFrame ==
    ASSUME TypeInv, TypeInv', BoundaryInv, ReceiptInv, [Next]_vars,
           UNCHANGED <<completions, recorded, delivered, reported>>,
           outbox' = outbox,
           \A t \in Tasks :
               \/ queue'[t] = queue[t] /\ (pc'[t] = "mark" => pc[t] = "mark")
               \/ queue'[t] = <<>> /\ pc'[t] # "mark"
    PROVE  ReceiptInv'
<1>1. \A t \in Tasks : ToSet(queue'[t]) \subseteq completions
  BY DEF ReceiptInv, QueuesOK, ToSet
<1>2. \A t \in Tasks : pc'[t] = "mark" => Head(queue'[t]) \in recorded
  BY DEF ReceiptInv, QueuesOK
<1>3. recorded \subseteq completions /\ ToSet(outbox) \subseteq completions
  BY DEF ReceiptInv, ReceiptsWitnessEffects
<1> QED BY <1>1, <1>2, <1>3, ReceiptGrowth

LEMMA ReceiptInit == Init => ReceiptInv
  BY DEF Init, ReceiptInv, QueuesOK, DeliveredIsRecorded, ReceiptsWitnessEffects,
         SuccessIsDurable, ToSet

\* What a marking call does: it held a recorded entry of a stored completion.
LEMMA MarkFacts ==
    ASSUME TypeInv, ReceiptInv, NEW t \in Tasks, pc[t] = "mark"
    PROVE  /\ queue[t] \in Seq(Receipts) /\ queue[t] # <<>>
           /\ Head(queue[t]) \in recorded \cap completions \cap Receipts
<1>1. queue[t] \in Seq(Receipts) /\ queue[t] # <<>>
  BY DEF TypeInv, TaskInv, TaskTypeOK, HoldsEntry
<1>2. Head(queue[t]) \in Receipts /\ Head(queue[t]) \in ToSet(queue[t])
  <2>1. Head(queue[t]) = queue[t][1] /\ 1 \in DOMAIN queue[t]
    BY <1>1
  <2> QED BY <1>1, <2>1 DEF ToSet
<1> QED BY <1>1, <1>2 DEF ReceiptInv, QueuesOK

LEMMA ReceiptStep ==
    ASSUME TypeInv, BoundaryInv, ReceiptInv, [Next]_vars
    PROVE  ReceiptInv'
<1> USE DEF TypeInv
<1>0. TypeInv'
  BY TypeStep
<1>a. /\ recorded \subseteq completions /\ ToSet(outbox) \subseteq completions
      /\ \A t \in Tasks : ToSet(queue[t]) \subseteq completions
      /\ \A t \in Tasks : pc[t] = "mark" => Head(queue[t]) \in recorded
  BY DEF ReceiptInv, ReceiptsWitnessEffects, QueuesOK
<1>r. ASSUME NEW t \in Tasks, Return(t)
      PROVE  \A u \in Tasks :
                \/ queue'[u] = queue[u] /\ (pc'[u] = "mark" => pc[u] = "mark")
                \/ queue'[u] = <<>> /\ pc'[u] # "mark"
  BY <1>r DEF Return, TaskInv, TaskTypeOK
<1>s. ASSUME NEW t \in Tasks, NEW a \in Awaits \ {"mark"},
             pc' = [pc EXCEPT ![t] = a], queue' = queue
      PROVE  \A u \in Tasks :
                \/ queue'[u] = queue[u] /\ (pc'[u] = "mark" => pc[u] = "mark")
                \/ queue'[u] = <<>> /\ pc'[u] # "mark"
  BY <1>s DEF TaskInv, TaskTypeOK
<1>1. ASSUME NEW t \in Tasks, Entry(t)
      PROVE  ReceiptInv'
  <2>1. \E a \in Awaits \ {"mark"} : pc' = [pc EXCEPT ![t] = a] /\ queue' = queue
    BY <1>1 DEF Entry, Start, StartExecute, StartBegin, StartResume, StartReconcile,
                StartFlush, Awaits
  <2>2. UNCHANGED <<completions, recorded, delivered, reported, outbox>>
    BY <1>1 DEF Entry, Start, StartExecute, StartBegin, StartResume, StartReconcile,
                StartFlush, proxyVars, storeVars, hostVars
  <2> QED BY <1>0, <1>s, <2>1, <2>2, ReceiptFrame
<1>2. ASSUME NEW t \in Tasks,
             Authorize(t) \/ BeginAttempt(t) \/ Execute(t) \/ Reconcile(t) \/ Cancel(t)
      PROVE  ReceiptInv'
  <2>1. UNCHANGED <<completions, recorded, delivered, reported, outbox>>
    BY <1>2 DEF Authorize, AuthorizationGranted, AuthorizationPending, AuthorizationFails,
                BeginAttempt, AttemptStarted, AttemptInFlight, AttemptCompleted,
                AttemptFails, AdmitAttempt, Execute, InvokeExecutor, ExecutorReturns,
                ExecutorFails, Reconcile, IntentLoaded, IntentUnavailable, LookupFound,
                LookupInconclusive, Cancel, ReturnNothing, ReturnUncertain,
                proxyVars, storeVars, hostVars
  <2>2. \/ Return(t)
        \/ \E a \in Awaits \ {"mark"} : pc' = [pc EXCEPT ![t] = a] /\ queue' = queue
    BY <1>2 DEF Authorize, AuthorizationGranted, AuthorizationPending, AuthorizationFails,
                BeginAttempt, AttemptStarted, AttemptInFlight, AttemptCompleted,
                AttemptFails, Execute, InvokeExecutor, ExecutorReturns,
                ExecutorFails, Reconcile, IntentLoaded, IntentUnavailable, LookupFound,
                LookupInconclusive, Cancel, ReturnNothing, ReturnUncertain, Advance, Awaits
  <2> QED BY <1>0, <1>r, <1>s, <2>1, <2>2, ReceiptFrame
<1>3. ASSUME NEW t \in Tasks, Commit(t)
      PROVE  ReceiptInv'
  <2>1. /\ pc[t] = "commit" /\ auth[t] \in Requests
        /\ UNCHANGED <<recorded, reported>>
    <3>1. pc[t] = "commit" /\ UNCHANGED <<recorded, reported>>
      BY <1>3 DEF Commit, CompletionCommitted, CompletionUncertain, Advance,
                  ReturnUncertain, proxyVars, hostVars
    <3> QED BY <3>1 DEF TaskInv, HasRequest
  <2>2. effects[auth[t]] > 0
    BY <2>1 DEF BoundaryInv, AwaitsOK
  <2>3. ReceiptOf(t).auth = auth[t]
    BY DEF ReceiptOf
  <2>4. CASE UNCHANGED storeVars
    <3>1. CASE CompletionUncertain(t)
      BY <2>1, <2>4, <3>1, <1>0, <1>r, ReceiptFrame
         DEF CompletionUncertain, ReturnUncertain, storeVars
    <3>2. CASE CompletionCommitted(t)
      <4>1. ReceiptOf(t) \in completions
        BY <2>4, <3>2 DEF CompletionCommitted, StoreCompletion, storeVars
      <4>2. /\ pc' = [pc EXCEPT ![t] = "record"]
            /\ queue' = [queue EXCEPT ![t] = <<ReceiptOf(t)>>]
        BY <3>2 DEF CompletionCommitted, Advance
      <4>3. \A u \in Tasks : ToSet(queue'[u]) \subseteq completions
        <5>1. ToSet(<<ReceiptOf(t)>>) = {ReceiptOf(t)}
          BY DEF ToSet
        <5> QED BY <1>a, <4>1, <4>2, <5>1 DEF TaskInv, TaskTypeOK
      <4>4. \A u \in Tasks : pc'[u] = "mark" => Head(queue'[u]) \in recorded
        BY <1>a, <4>2 DEF TaskInv, TaskTypeOK
      <4> QED BY <1>0, <1>a, <2>1, <2>4, <4>3, <4>4, ReceiptGrowth DEF storeVars
    <3> QED BY <1>3, <3>1, <3>2 DEF Commit
  <2>5. CASE /\ stage' = [stage EXCEPT ![auth[t]] = "completed"]
             /\ completions' = completions \cup {ReceiptOf(t)}
             /\ outbox' = Append(outbox, ReceiptOf(t))
             /\ UNCHANGED <<claimed, delivered>>
    <3>1. stage'[auth[t]] = "completed"
      BY <2>1, <2>5 DEF StoreTypeOK
    <3>2. ToSet(outbox') \subseteq completions'
      <4>1. \A i \in DOMAIN outbox' : outbox'[i] \in ToSet(outbox) \cup {ReceiptOf(t)}
        BY <2>5 DEF StoreTypeOK, ToSet
      <4> QED BY <1>a, <2>5, <4>1 DEF ToSet
    <3>3. /\ \A u \in Tasks : u # t => queue'[u] = queue[u] /\ pc'[u] = pc[u]
          /\ \/ queue'[t] = <<>> /\ pc'[t] = "idle"
             \/ queue'[t] = <<ReceiptOf(t)>> /\ pc'[t] = "record"
      BY <1>3 DEF Commit, CompletionCommitted, CompletionUncertain, Advance,
                  ReturnUncertain, Return, TaskInv, TaskTypeOK
    <3>4. \A u \in Tasks : ToSet(queue'[u]) \subseteq completions'
      <4>1. ToSet(<<>>) = {} /\ ToSet(<<ReceiptOf(t)>>) = {ReceiptOf(t)}
        BY DEF ToSet
      <4> QED BY <1>a, <2>5, <3>3, <4>1
    <3>5. \A u \in Tasks : pc'[u] = "mark" => Head(queue'[u]) \in recorded
      BY <1>a, <3>3
    <3> QED BY <1>0, <1>a, <2>1, <2>2, <2>3, <2>5, <3>1, <3>2, <3>4, <3>5, ReceiptGrowth
  <2> QED BY <1>3, <2>4, <2>5 DEF Commit, CompletionCommitted, CompletionUncertain,
                                  StoreCompletion
<1>4. ASSUME NEW t \in Tasks, PendingRead(t) \/ NothingRead(t)
      PROVE  ReceiptInv'
  <2>1. UNCHANGED <<completions, recorded, delivered, reported, outbox>>
    BY <1>4 DEF PendingRead, NothingRead, ReturnNothing, proxyVars, storeVars, hostVars
  <2>2. CASE NothingRead(t)
    BY <1>0, <1>r, <2>1, <2>2, ReceiptFrame DEF NothingRead, ReturnNothing
  <2>3. CASE PendingRead(t)
    <3> DEFINE n == IF Len(outbox) < Limit THEN Len(outbox) ELSE Limit
    <3>1. /\ pc' = [pc EXCEPT ![t] = "record"]
          /\ queue' = [queue EXCEPT ![t] = SubSeq(outbox, 1, n)]
          /\ outbox # <<>>
      BY <2>3 DEF PendingRead, Advance
    <3>2. ToSet(SubSeq(outbox, 1, n)) \subseteq ToSet(outbox)
      <4>1. outbox \in Seq(Receipts) /\ n \in 0..Len(outbox)
        BY GovernedExecutionAssumption DEF StoreTypeOK
      <4> HIDE DEF n
      <4>2. /\ DOMAIN SubSeq(outbox, 1, n) = 1..n
            /\ \A i \in 1..n : SubSeq(outbox, 1, n)[i] = outbox[i]
        BY <4>1
      <4> QED BY <4>1, <4>2 DEF ToSet
    <3> HIDE DEF n
    <3>3. \A u \in Tasks : ToSet(queue'[u]) \subseteq completions
      BY <1>a, <3>1, <3>2 DEF TaskInv, TaskTypeOK
    <3>4. \A u \in Tasks : pc'[u] = "mark" => Head(queue'[u]) \in recorded
      BY <1>a, <3>1 DEF TaskInv, TaskTypeOK
    <3> QED BY <1>0, <1>a, <2>1, <3>3, <3>4, ReceiptGrowth
  <2> QED BY <1>4, <2>2, <2>3
<1>5. ASSUME NEW t \in Tasks, ReceiptRecorded(t) \/ RecordFails(t)
      PROVE  ReceiptInv'
  <2>1. /\ pc[t] = "record"
        /\ UNCHANGED <<completions, delivered, reported, outbox>>
    BY <1>5 DEF ReceiptRecorded, RecordFails, Advance, ReturnNothing, storeVars, hostVars
  <2>2. Head(queue[t]) \in completions
    <3>1. queue[t] \in Seq(Receipts) /\ queue[t] # <<>>
      BY <2>1 DEF TaskInv, TaskTypeOK, HoldsEntry
    <3>2. Head(queue[t]) = queue[t][1] /\ 1 \in DOMAIN queue[t]
      BY <3>1
    <3> QED BY <1>a, <3>2 DEF ToSet
  <2>3. recorded \subseteq recorded' /\ recorded' \subseteq completions
    BY <1>5, <1>a, <2>2 DEF ReceiptRecorded, RecordFails
  <2>4. CASE ReceiptRecorded(t)
    <3>1. /\ pc' = [pc EXCEPT ![t] = "mark"] /\ queue' = queue
          /\ Head(queue[t]) \in recorded'
      BY <2>4 DEF ReceiptRecorded, Advance
    <3>2. \A u \in Tasks : pc'[u] = "mark" => Head(queue'[u]) \in recorded'
      BY <1>a, <2>3, <3>1 DEF TaskInv, TaskTypeOK
    <3> QED BY <1>0, <1>a, <2>1, <2>3, <3>1, <3>2, ReceiptGrowth
  <2>5. CASE RecordFails(t)
    <3>1. \A u \in Tasks : ToSet(queue'[u]) \subseteq completions
      BY <1>a, <1>r, <2>5 DEF RecordFails, ReturnNothing, ToSet
    <3>2. \A u \in Tasks : pc'[u] = "mark" => Head(queue'[u]) \in recorded'
      BY <1>a, <1>r, <2>3, <2>5 DEF RecordFails, ReturnNothing
    <3> QED BY <1>0, <1>a, <2>1, <2>3, <3>1, <3>2, ReceiptGrowth
  <2> QED BY <1>5, <2>4, <2>5
<1>6. ASSUME NEW t \in Tasks, DeliveryFinished(t) \/ DeliveryContinues(t) \/ MarkFails(t)
      PROVE  ReceiptInv'
  <2> DEFINE h == Head(queue[t])
  <2>1. pc[t] = "mark" /\ UNCHANGED recorded /\ reported \subseteq reported'
    BY <1>6 DEF DeliveryFinished, DeliveryContinues, MarkFails, Advance, ReturnNothing,
                proxyVars, hostVars
  <2>2. queue[t] \in Seq(Receipts) /\ h \in recorded \cap completions \cap Receipts
    BY <2>1, MarkFacts
  <2> HIDE DEF h
  <2>3. /\ completions' = completions
        /\ ToSet(outbox') \subseteq completions
        /\ delivered \subseteq delivered' /\ delivered' \subseteq delivered \cup {h.auth}
    <3>1. CASE RemoveEntry(h.auth)
      <4>1. ToSet(outbox') \subseteq ToSet(outbox)
        BY <3>1, RemoveEntryFacts DEF StoreTypeOK
      <4> QED BY <1>a, <3>1, <4>1 DEF RemoveEntry
    <3>2. CASE UNCHANGED storeVars
      BY <1>a, <3>2 DEF storeVars
    <3> QED BY <1>6, <3>1, <3>2 DEF DeliveryFinished, DeliveryContinues, MarkFails, h
  <2>4. \A c \in reported' \ reported : c = h /\ h.auth \in delivered'
    BY <1>6 DEF DeliveryFinished, DeliveryContinues, MarkFails, RemoveEntry, ReturnNothing,
                hostVars, h
  <2>5. /\ \A u \in Tasks : u # t => queue'[u] = queue[u] /\ pc'[u] = pc[u]
        /\ pc'[t] # "mark" /\ ToSet(queue'[t]) \subseteq ToSet(queue[t])
    <3>1. CASE Return(t)
      <4>1. queue'[t] = <<>> /\ pc'[t] = "idle"
        BY <3>1 DEF Return, TaskInv, TaskTypeOK
      <4> QED BY <3>1, <4>1 DEF Return, TaskInv, TaskTypeOK, ToSet
    <3>2. CASE DeliveryContinues(t)
      <4>1. /\ Len(queue[t]) > 1 /\ pc' = [pc EXCEPT ![t] = "record"]
            /\ queue' = [queue EXCEPT ![t] = Tail(queue[t])]
        BY <3>2 DEF DeliveryContinues, Advance
      <4>2. ToSet(Tail(queue[t])) \subseteq ToSet(queue[t])
        <5>1. /\ DOMAIN Tail(queue[t]) = 1..(Len(queue[t]) - 1)
              /\ \A i \in 1..(Len(queue[t]) - 1) : Tail(queue[t])[i] = queue[t][i + 1]
              /\ DOMAIN queue[t] = 1..Len(queue[t]) /\ Len(queue[t]) \in Nat
          BY <2>2, <4>1
        <5> QED BY <5>1 DEF ToSet
      <4> QED BY <4>1, <4>2 DEF TaskInv, TaskTypeOK
    <3> QED BY <1>6, <3>1, <3>2 DEF DeliveryFinished, MarkFails, ReturnNothing
  <2>6. \A u \in Tasks : ToSet(queue'[u]) \subseteq completions
    BY <1>a, <2>5
  <2>7. \A u \in Tasks : pc'[u] = "mark" => Head(queue'[u]) \in recorded
    BY <1>a, <2>5
  <2> QED BY <1>0, <1>a, <2>1, <2>2, <2>3, <2>4, <2>6, <2>7, ReceiptGrowth
<1>7. ASSUME NEW r \in Requests, Environment(r)
      PROVE  ReceiptInv'
  <2>1. UNCHANGED <<completions, recorded, delivered, reported, outbox, queue, pc>>
    BY <1>7 DEF Environment, ProxyDecides, ReviewerDecides, EffectLands, proxyVars,
                storeVars, hostVars, taskVars
  <2> QED BY <1>0, <2>1, ReceiptFrame
<1>8. CASE UNCHANGED vars
  <2>1. UNCHANGED <<completions, recorded, delivered, reported, outbox, queue, pc>>
    BY <1>8 DEF vars, proxyVars, storeVars, hostVars, taskVars
  <2> QED BY <1>0, <2>1, ReceiptFrame
<1> QED BY <1>1, <1>2, <1>3, <1>4, <1>5, <1>6, <1>7, <1>8 DEF Next, Task, Deliver

LEMMA ReceiptInvariant == Spec => [](TypeInv /\ BoundaryInv /\ ReceiptInv)
  BY BoundaryInvariant, ReceiptInit, ReceiptStep, PTL DEF Spec

\* Receipts everywhere belong to stored completions of real effects.
THEOREM WitnessHolds == Spec => []ReceiptsWitnessEffects
<1>1. ReceiptInv => ReceiptsWitnessEffects
  BY DEF ReceiptInv
<1> QED BY <1>1, ReceiptInvariant, PTL

\* Success is reported only for a durable, recorded and delivered receipt.
THEOREM SuccessHolds == Spec => []SuccessIsDurable
<1>1. ReceiptInv => SuccessIsDurable
  BY DEF ReceiptInv
<1> QED BY <1>1, ReceiptInvariant, PTL

-----------------------------------------------------------------------------
(* No completed receipt is lost.                                           *)

LEMMA OneCompletionStep ==
    ASSUME TypeInv, OneReceipt, OneCompletion, [Next]_vars
    PROVE  OneCompletion'
<1>0. completions' \subseteq Receipts
  BY TypeStep DEF TypeInv, StoreTypeOK
<1>1. CASE ExecutorResult = LookupResult
  BY <1>0, <1>1 DEF OneCompletion, Receipts
<1>2. CASE KeepFirst
  <2>1. \/ completions' = completions
        \/ \E t \in Tasks : ~Retained(t) /\ completions' = completions \cup {ReceiptOf(t)}
    BY DEF Next, Task, Entry, Start, StartExecute, StartBegin, StartResume, StartReconcile,
           StartFlush, Authorize, AuthorizationGranted, AuthorizationPending,
           AuthorizationFails, BeginAttempt, AttemptStarted, AttemptInFlight,
           AttemptCompleted, AttemptFails, AdmitAttempt, Execute, InvokeExecutor,
           ExecutorReturns, ExecutorFails, Reconcile, IntentLoaded, IntentUnavailable,
           LookupFound, LookupInconclusive, Commit, CompletionCommitted,
           CompletionUncertain, StoreCompletion, Deliver, PendingRead, NothingRead,
           ReceiptRecorded, RecordFails, DeliveryFinished, DeliveryContinues, MarkFails,
           RemoveEntry, Cancel, Environment, ProxyDecides, ReviewerDecides, EffectLands,
           storeVars, vars
  <2>2. ASSUME NEW t \in Tasks, ~Retained(t), completions' = completions \cup {ReceiptOf(t)}
        PROVE  OneCompletion'
    <3>1. \A c \in completions : c.auth # ReceiptOf(t).auth
      BY <1>2, <2>2 DEF Retained, ReceiptOf
    <3> QED BY <2>2, <3>1 DEF OneCompletion
  <2> QED BY <2>1, <2>2 DEF OneCompletion
<1> QED BY <1>1, <1>2 DEF OneReceipt

LEMMA NoReceiptLostStep ==
    ASSUME TypeInv, ReceiptInv, OneCompletion, NoReceiptLost, [Next]_vars
    PROVE  NoReceiptLost'
<1> USE DEF TypeInv, StoreTypeOK
<1> DEFINE Kept == /\ completions' = completions /\ outbox' = outbox
                   /\ recorded \subseteq recorded' /\ delivered \subseteq delivered'
<1>k. Kept => NoReceiptLost'
  BY DEF NoReceiptLost
<1>m. ASSUME NEW t \in Tasks, pc[t] = "mark", RemoveEntry(Head(queue[t]).auth),
             recorded' = recorded
      PROVE  NoReceiptLost'
  <2> DEFINE h == Head(queue[t])
  <2>1. h \in recorded \cap completions
    BY <1>m, MarkFacts
  <2> HIDE DEF h
  <2>2. RemoveEntry(h.auth)
    BY <1>m DEF h
  <2>3. \A c \in ToSet(outbox) : c.auth # h.auth => c \in ToSet(outbox')
    BY <2>2, RemoveEntryFacts
  <2>4. \A c \in completions : c.auth = h.auth => c \in recorded /\ c.auth \in delivered'
    BY <2>1, <2>2 DEF OneCompletion, RemoveEntry
  <2> QED BY <1>m, <2>2, <2>3, <2>4 DEF NoReceiptLost, RemoveEntry
<1>1. ASSUME NEW t \in Tasks, Entry(t)
      PROVE  Kept
  BY <1>1 DEF Entry, Start, StartExecute, StartBegin, StartResume, StartReconcile,
              StartFlush, proxyVars, storeVars
<1>2. ASSUME NEW t \in Tasks,
             Authorize(t) \/ BeginAttempt(t) \/ Execute(t) \/ Reconcile(t) \/ Cancel(t)
      PROVE  Kept
  BY <1>2 DEF Authorize, AuthorizationGranted, AuthorizationPending, AuthorizationFails,
              BeginAttempt, AttemptStarted, AttemptInFlight, AttemptCompleted,
              AttemptFails, AdmitAttempt, Execute, InvokeExecutor, ExecutorReturns,
              ExecutorFails, Reconcile, IntentLoaded, IntentUnavailable, LookupFound,
              LookupInconclusive, Cancel, proxyVars, storeVars
<1>3. ASSUME NEW t \in Tasks, Commit(t)
      PROVE  NoReceiptLost'
  <2>1. StoreCompletion(t) \/ UNCHANGED storeVars
    BY <1>3 DEF Commit, CompletionCommitted, CompletionUncertain
  <2>2. recorded' = recorded
    BY <1>3 DEF Commit, CompletionCommitted, CompletionUncertain, proxyVars
  <2>3. CASE UNCHANGED storeVars
    BY <1>k, <2>2, <2>3 DEF storeVars
  <2>4. CASE /\ completions' = completions \cup {ReceiptOf(t)}
             /\ outbox' = Append(outbox, ReceiptOf(t))
             /\ delivered' = delivered
    <3>1. ToSet(outbox) \cup {ReceiptOf(t)} \subseteq ToSet(outbox')
      <4>1. /\ Len(outbox) \in Nat /\ DOMAIN outbox = 1..Len(outbox)
            /\ DOMAIN outbox' = 1..(Len(outbox) + 1)
            /\ \A i \in 1..Len(outbox) : outbox'[i] = outbox[i]
            /\ outbox'[Len(outbox) + 1] = ReceiptOf(t)
        BY <2>4
      <4> QED BY <4>1 DEF ToSet
    <3> QED BY <2>2, <2>4, <3>1 DEF NoReceiptLost
  <2> QED BY <2>1, <2>3, <2>4 DEF StoreCompletion
<1>4. ASSUME NEW t \in Tasks,
             PendingRead(t) \/ NothingRead(t) \/ ReceiptRecorded(t) \/ RecordFails(t)
      PROVE  Kept
  BY <1>4 DEF PendingRead, NothingRead, ReceiptRecorded, RecordFails, proxyVars, storeVars
<1>5. ASSUME NEW t \in Tasks, DeliveryFinished(t) \/ DeliveryContinues(t) \/ MarkFails(t)
      PROVE  NoReceiptLost'
  <2>1. pc[t] = "mark" /\ recorded' = recorded
    BY <1>5 DEF DeliveryFinished, DeliveryContinues, MarkFails, Advance, proxyVars
  <2>2. RemoveEntry(Head(queue[t]).auth) \/ UNCHANGED storeVars
    BY <1>5 DEF DeliveryFinished, DeliveryContinues, MarkFails
  <2> QED BY <1>k, <1>m, <2>1, <2>2 DEF storeVars
<1>6. ASSUME NEW r \in Requests, Environment(r)
      PROVE  Kept
  BY <1>6 DEF Environment, ProxyDecides, ReviewerDecides, EffectLands, proxyVars, storeVars
<1>7. CASE UNCHANGED vars
  BY <1>7 DEF vars, proxyVars, storeVars, NoReceiptLost
<1> QED BY <1>k, <1>1, <1>2, <1>3, <1>4, <1>5, <1>6, <1>7 DEF Next, Task, Deliver

\* When the store keeps the first completion of an authorization, or the
\* lookup reports the result the executor returned, every completed receipt
\* is pending until it is recorded and marked delivered.
THEOREM NothingLost ==
    ASSUME OneReceipt
    PROVE  Spec => []NoReceiptLost
<1>1. Init => OneCompletion /\ NoReceiptLost
  BY DEF Init, OneCompletion, NoReceiptLost
<1>2. TypeInv /\ OneCompletion /\ [Next]_vars => OneCompletion'
  BY OneCompletionStep
<1>3. TypeInv /\ ReceiptInv /\ OneCompletion /\ NoReceiptLost /\ [Next]_vars => NoReceiptLost'
  BY NoReceiptLostStep
<1> QED BY <1>1, <1>2, <1>3, ReceiptInvariant, PTL DEF Spec

-----------------------------------------------------------------------------
(* Governed execution implements EffectOnce.                               *)

\* Every step is one step of the abstract specification or leaves what it
\* describes unchanged.
LEMMA RefinementStep ==
    ASSUME TypeInv, BoundaryInv, ReceiptInv, [Next]_vars
    PROVE  [Abstract!Next]_(Abstract!vars)
<1> USE DEF TypeInv, StoreTypeOK, ExecutorTypeOK
<1> DEFINE Stutter == UNCHANGED <<stage, invocations, effects, recorded, delivered, reported>>
<1>s. Stutter => UNCHANGED Abstract!vars
  BY DEF Abstract!vars
<1>q. ASSUME NEW t \in Tasks, pc[t] \notin {"idle", "snapshot", "record", "mark"}
      PROVE  auth[t] \in Requests
  BY <1>q DEF TaskInv, HasRequest
<1>1. ASSUME NEW t \in Tasks, Entry(t)
      PROVE  Stutter
  BY <1>1 DEF Entry, Start, StartExecute, StartBegin, StartResume, StartReconcile,
              StartFlush, proxyVars, storeVars, executorVars, hostVars
<1>2. ASSUME NEW t \in Tasks, Authorize(t) \/ Reconcile(t) \/ Cancel(t)
      PROVE  Stutter
  BY <1>2 DEF Authorize, AuthorizationGranted, AuthorizationPending, AuthorizationFails,
              Reconcile, IntentLoaded, IntentUnavailable, LookupFound,
              LookupInconclusive, Cancel, ReturnNothing, ReturnUncertain,
              proxyVars, storeVars, executorVars, hostVars
<1>3. ASSUME NEW t \in Tasks, BeginAttempt(t)
      PROVE  Stutter \/ \E r \in Requests : Abstract!Admit(r)
  <2>1. auth[t] \in Requests
    BY <1>3, <1>q DEF BeginAttempt, AttemptStarted, AttemptInFlight, AttemptCompleted,
                      AttemptFails, Advance
  <2>2. UNCHANGED <<invocations, effects, recorded, delivered, reported>>
    BY <1>3 DEF BeginAttempt, AttemptStarted, AttemptInFlight, AttemptCompleted,
                AttemptFails, AdmitAttempt, ReturnNothing, ReturnUncertain,
                proxyVars, storeVars, executorVars, hostVars
  <2>3. stage' = stage \/ (AttemptAdmissible(t) /\ AdmitAttempt(t))
    BY <1>3 DEF BeginAttempt, AttemptStarted, AttemptInFlight, AttemptCompleted,
                AttemptFails, storeVars
  <2>4. CASE AttemptAdmissible(t) /\ AdmitAttempt(t)
    <3>1. stage[auth[t]] = "none" /\ stage' = [stage EXCEPT ![auth[t]] = "in_flight"]
      BY <2>4 DEF AttemptAdmissible, AdmitAttempt
    <3>2. PICK r \in Requests : r = auth[t]
      BY <2>1
    <3>3. Abstract!Admit(r)
      BY <2>2, <3>1, <3>2 DEF Abstract!Admit
    <3> QED BY <3>3
  <2> QED BY <2>2, <2>3, <2>4
<1>4. ASSUME NEW t \in Tasks, Execute(t)
      PROVE  Stutter \/ \E r \in Requests : Abstract!Invoke(r)
  <2>1. CASE InvokeExecutor(t)
    <3>1. /\ pc[t] = "invoke"
          /\ invocations' = [invocations EXCEPT ![auth[t]] = @ + 1]
          /\ UNCHANGED <<stage, effects, recorded, delivered, reported>>
      BY <2>1 DEF InvokeExecutor, Advance, proxyVars, storeVars, hostVars
    <3>2. auth[t] \in Requests /\ stage[auth[t]] # "none" /\ invocations[auth[t]] = 0
      BY <3>1, <1>q DEF BoundaryInv, AwaitsOK
    <3>3. stage[auth[t]] # "completed"
      BY <3>2 DEF BoundaryInv, CompletedHasEffect, AtMostOnce
    <3>4. invocations' = [invocations EXCEPT ![auth[t]] = 1]
      BY <3>1, <3>2
    <3>5. PICK r \in Requests : r = auth[t]
      BY <3>2
    <3>6. Abstract!Invoke(r)
      BY <3>1, <3>2, <3>3, <3>4, <3>5 DEF Abstract!Invoke
    <3> QED BY <3>6
  <2>2. CASE ExecutorReturns(t) \/ ExecutorFails(t)
    BY <2>2 DEF ExecutorReturns, ExecutorFails, ReturnUncertain, proxyVars, storeVars,
                executorVars, hostVars
  <2> QED BY <1>4, <2>1, <2>2 DEF Execute
<1>5. ASSUME NEW t \in Tasks, Commit(t)
      PROVE  Stutter \/ \E r \in Requests : Abstract!Complete(r)
  <2>1. pc[t] = "commit" /\ UNCHANGED <<invocations, effects, recorded, delivered, reported>>
    BY <1>5 DEF Commit, CompletionCommitted, CompletionUncertain, StoreCompletion, Advance,
                ReturnUncertain, proxyVars, storeVars, executorVars, hostVars
  <2>2. auth[t] \in Requests /\ effects[auth[t]] = 1 /\ stage[auth[t]] # "none"
    BY <2>1, <1>q DEF BoundaryInv, AwaitsOK, AtMostOnce
  <2>3. stage' = stage \/ stage' = [stage EXCEPT ![auth[t]] = "completed"]
    BY <1>5 DEF Commit, CompletionCommitted, CompletionUncertain, StoreCompletion, storeVars
  <2>4. CASE stage' = [stage EXCEPT ![auth[t]] = "completed"]
    <3>1. PICK r \in Requests : r = auth[t]
      BY <2>2
    <3>2. Abstract!Complete(r)
      BY <2>1, <2>2, <2>4, <3>1 DEF Abstract!Complete
    <3> QED BY <3>2
  <2> QED BY <2>1, <2>3, <2>4
<1>6. ASSUME NEW t \in Tasks, PendingRead(t) \/ NothingRead(t)
      PROVE  Stutter
  BY <1>6 DEF PendingRead, NothingRead, ReturnNothing, proxyVars, storeVars, executorVars,
              hostVars
<1>7. ASSUME NEW t \in Tasks, ReceiptRecorded(t) \/ RecordFails(t)
      PROVE  Stutter \/ \E r \in Requests : Abstract!Record(r)
  <2>1. /\ pc[t] = "record"
        /\ UNCHANGED <<stage, invocations, effects, delivered, reported>>
        /\ recorded' = recorded \/ recorded' = recorded \cup {Head(queue[t])}
    BY <1>7 DEF ReceiptRecorded, RecordFails, Advance, ReturnNothing, storeVars,
                executorVars, hostVars
  <2>2. Head(queue[t]) \in completions
    <3>1. queue[t] \in Seq(Receipts) /\ queue[t] # <<>>
      BY <2>1 DEF TaskInv, TaskTypeOK, HoldsEntry
    <3>2. Head(queue[t]) = queue[t][1] /\ 1 \in DOMAIN queue[t]
      BY <3>1
    <3> QED BY <3>2 DEF ReceiptInv, QueuesOK, ToSet
  <2> DEFINE h == Head(queue[t])
  <2>3. h.auth \in Requests /\ stage[h.auth] = "completed"
    BY <2>2 DEF ReceiptInv, ReceiptsWitnessEffects, Receipts
  <2>4. recorded' = recorded \/ recorded' = recorded \cup {h}
    BY <2>1
  <2> HIDE DEF h
  <2>5. CASE recorded' = recorded \cup {h}
    <3>1. PICK r \in Requests : r = h.auth
      BY <2>3
    <3>2. Abstract!Record(r)
      BY <2>1, <2>3, <2>5, <3>1 DEF Abstract!Record
    <3> QED BY <3>2
  <2> QED BY <2>1, <2>4, <2>5
<1>8. ASSUME NEW t \in Tasks, DeliveryFinished(t) \/ DeliveryContinues(t) \/ MarkFails(t)
      PROVE  Stutter \/ \E r \in Requests : Abstract!Deliver(r)
  <2> DEFINE h == Head(queue[t])
  <2>1. pc[t] = "mark" /\ UNCHANGED <<stage, invocations, effects, recorded>>
    BY <1>8 DEF DeliveryFinished, DeliveryContinues, MarkFails, RemoveEntry, Advance,
                proxyVars, storeVars, executorVars
  <2>2. h \in recorded /\ h.auth \in Requests
    BY <2>1, MarkFacts DEF Receipts
  <2>3. \/ UNCHANGED <<delivered, reported>>
        \/ /\ delivered' = delivered \cup {h.auth}
           /\ reported' \in {reported, reported \cup {h}}
    BY <1>8 DEF DeliveryFinished, DeliveryContinues, MarkFails, RemoveEntry, ReturnNothing,
                storeVars, hostVars
  <2> HIDE DEF h
  <2>4. CASE /\ delivered' = delivered \cup {h.auth}
             /\ reported' \in {reported, reported \cup {h}}
    <3>1. {c.auth : c \in reported'} \in
              {{c.auth : c \in reported}, {c.auth : c \in reported} \cup {h.auth}}
      BY <2>4
    <3>2. PICK r \in Requests : r = h.auth
      BY <2>2
    <3>3. Abstract!Deliver(r)
      BY <2>1, <2>2, <2>4, <3>1, <3>2 DEF Abstract!Deliver
    <3> QED BY <3>3
  <2> QED BY <2>1, <2>3, <2>4
<1>9. ASSUME NEW r \in Requests, Environment(r)
      PROVE  Stutter \/ Abstract!Land(r)
  <2>1. CASE ProxyDecides(r) \/ ReviewerDecides(r)
    BY <2>1 DEF ProxyDecides, ReviewerDecides, storeVars, executorVars, hostVars
  <2>2. CASE EffectLands(r)
    <3>1. /\ effects[r] < invocations[r] /\ effects' = [effects EXCEPT ![r] = @ + 1]
          /\ UNCHANGED <<stage, invocations, recorded, delivered, reported>>
      BY <2>2 DEF EffectLands, proxyVars, storeVars, hostVars
    <3>2. invocations[r] = 1 /\ effects[r] = 0
      BY <3>1 DEF BoundaryInv, AtMostOnce
    <3>3. effects' = [effects EXCEPT ![r] = 1]
      BY <3>1, <3>2
    <3> QED BY <3>1, <3>2, <3>3 DEF Abstract!Land
  <2> QED BY <1>9, <2>1, <2>2 DEF Environment
<1>10. CASE UNCHANGED vars
  BY <1>10, <1>s DEF vars, proxyVars, storeVars, executorVars, hostVars
<1> HIDE DEF Stutter
<1> QED BY <1>s, <1>1, <1>2, <1>3, <1>4, <1>5, <1>6, <1>7, <1>8, <1>9, <1>10
        DEF Next, Task, Deliver, Abstract!Next

\* Governed execution implements the abstract promise of EffectOnce.
THEOREM Refinement == Spec => ImplementsEffectOnce
<1>1. Init => Abstract!Init
  BY DEF Init, Abstract!Init
<1> QED BY <1>1, RefinementStep, ReceiptInvariant, PTL
        DEF Spec, ImplementsEffectOnce, Abstract!Spec

=============================================================================
