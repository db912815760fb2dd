-------------------------- MODULE GovernedExecution --------------------------
(***************************************************************************)
(* SDK-governed execution: execution.rs, run by many concurrent calls of   *)
(* one or several ClavenarClient values that share a durable store, a      *)
(* registered executor and a Proxy.                                        *)
(*                                                                         *)
(* A request is a prepared request, named by the UUID it owns before any   *)
(* network attempt.  Proxy returns "the exact retained decision" to a      *)
(* repeated identity, so a request has one authorization and the model     *)
(* uses the request for both identities.                                   *)
(*                                                                         *)
(* Every await of the code is a boundary: a call stops there, the others   *)
(* go on, and the future that carries it may be dropped.  A process crash  *)
(* drops every future at once, which is a run of Cancel steps.             *)
(***************************************************************************)
EXTENDS Naturals, Sequences, FiniteSets, SequencesExt

CONSTANTS
    Tasks,               \* concurrent SDK calls
    Cancellable,         \* the calls whose future the host may drop
    Requests,            \* prepared single-tool or batch requests
    ExecutorResult,      \* the result as the executor callback returns it
    LookupResult,        \* the result as the effect lookup reports it
    Poisoned,            \* requests whose receipts Proxy never accepts
    Limit,               \* the flush limit, 1..MAX_OUTBOX_FLUSH in the code
    SupportsSingleUse,   \* supports_single_use_authorization() of the store
    LookupRegistered,    \* whether the executor was registered with a lookup
    KeepFirst,           \* a second commit returns the retained entry
    None                 \* no request

ASSUME GovernedExecutionAssumption ==
    /\ Cancellable \subseteq Tasks
    /\ Poisoned \subseteq Requests
    /\ Limit \in Nat \ {0}
    /\ SupportsSingleUse \in BOOLEAN
    /\ LookupRegistered \in BOOLEAN
    /\ KeepFirst \in BOOLEAN
    /\ None \notin Requests

VARIABLES
    decision,            \* Proxy: the retained decision of each request
    recorded,            \* Proxy: receipts committed to the ledger
    stage,               \* store: the effect marker of each authorization
    claimed,             \* store: authorizations consumed by a SingleUse claim
    completions,         \* store: receipts of the stored completions
    outbox,              \* store: pending receipts, oldest first
    delivered,           \* store: outbox ids marked delivered
    invocations,         \* executor: how often its callback was entered
    effects,             \* executor: how many effects reached the world
    pendingHandles,      \* host: retained PendingAuthorization values
    uncertainHandles,    \* host: retained UncertainExecution values
    reported,            \* host: receipts of calls that reported success
    pc, op, auth, queue  \* each call: its next await, method, request, entries

proxyVars    == <<decision, recorded>>
storeVars    == <<stage, claimed, completions, outbox, delivered>>
executorVars == <<invocations, effects>>
hostVars     == <<pendingHandles, uncertainHandles, reported>>
taskVars     == <<pc, op, auth, queue>>
vars == <<proxyVars, storeVars, executorVars, hostVars, taskVars>>

Decisions == {"unseen", "pending", "allowed", "approved", "denied"}
Granted   == {"allowed", "approved"}
Stages    == {"none", "in_flight", "completed"}
Methods   == {"none", "execute", "begin", "resume", "reconcile", "flush"}
Awaits    == {"idle", "authorize", "begin_attempt", "invoke", "executing",
              "load", "lookup", "commit", "snapshot", "record", "mark"}

\* What a receipt binds: the authorization and the digest of the result.
Receipts == [auth : Requests, result : {ExecutorResult, LookupResult}]

ProxyTypeOK ==
    /\ decision \in [Requests -> Decisions]
    /\ recorded \subseteq Receipts

StoreTypeOK ==
    /\ stage \in [Requests -> Stages]
    /\ claimed \subseteq Requests
    /\ completions \subseteq Receipts
    /\ outbox \in Seq(Receipts)
    /\ delivered \subseteq Requests

ExecutorTypeOK ==
    /\ invocations \in [Requests -> Nat]
    /\ effects \in [Requests -> Nat]

HostTypeOK ==
    /\ pendingHandles \subseteq Requests
    /\ uncertainHandles \subseteq Requests
    /\ reported \subseteq Receipts

TaskTypeOK ==
    /\ pc \in [Tasks -> Awaits]
    /\ op \in [Tasks -> Methods]
    /\ auth \in [Tasks -> Requests \cup {None}]
    /\ queue \in [Tasks -> Seq(Receipts)]

\* Type correctness of all owners, of the calls' awaits and of their queues.
TypeOK == ProxyTypeOK /\ StoreTypeOK /\ ExecutorTypeOK /\ HostTypeOK /\ TaskTypeOK

Init ==
    /\ decision = [r \in Requests |-> "unseen"]
    /\ recorded = {}
    /\ stage = [r \in Requests |-> "none"]
    /\ claimed = {}
    /\ completions = {}
    /\ outbox = <<>>
    /\ delivered = {}
    /\ invocations = [r \in Requests |-> 0]
    /\ effects = [r \in Requests |-> 0]
    /\ pendingHandles = {}
    /\ uncertainHandles = {}
    /\ reported = {}
    /\ pc = [t \in Tasks |-> "idle"]
    /\ op = [t \in Tasks |-> "none"]
    /\ auth = [t \in Tasks |-> None]
    /\ queue = [t \in Tasks |-> <<>>]

-----------------------------------------------------------------------------
(* Control of one call.                                                    *)

\* The call moves from one await to the next.
Advance(t, from, to) ==
    /\ pc[t] = from
    /\ pc' = [pc EXCEPT ![t] = to]
    /\ UNCHANGED <<op, auth>>

\* The call returns; whatever it held in memory is gone.
Return(t) ==
    /\ pc' = [pc EXCEPT ![t] = "idle"]
    /\ op' = [op EXCEPT ![t] = "none"]
    /\ auth' = [auth EXCEPT ![t] = None]
    /\ queue' = [queue EXCEPT ![t] = <<>>]

\* The call returns an error or a refusal and the host retains nothing new.
ReturnNothing(t) == Return(t) /\ UNCHANGED hostVars

\* Faulty variant: the handle is built after the call's request is cleared.
ReturnUncertain_Cleared(t) ==
    /\ Return(t)
    /\ uncertainHandles' = uncertainHandles \cup {auth'[t]}
    /\ UNCHANGED <<pendingHandles, reported>>

\* The call returns an UncertainExecution, which the host retains.
ReturnUncertain(t) ==
    /\ Return(t)
    /\ uncertainHandles' = uncertainHandles \cup {auth[t]}
    /\ UNCHANGED <<pendingHandles, reported>>

Start(t, method, r, first) ==
    /\ pc[t] = "idle"
    /\ pc' = [pc EXCEPT ![t] = first]
    /\ op' = [op EXCEPT ![t] = method]
    /\ auth' = [auth EXCEPT ![t] = r]
    /\ UNCHANGED <<queue, proxyVars, storeVars, executorVars, hostVars>>

\* The receipt complete_known_effect signs; ES256 here is deterministic, so
\* the same effect and result give the same receipt.
ReceiptOf(t) ==
    [auth   |-> auth[t],
     result |-> IF op[t] = "reconcile" THEN LookupResult ELSE ExecutorResult]

-----------------------------------------------------------------------------
(* Entry points: local validation has passed, the first await comes next.  *)

\* execute_tool, execute_prepared_tool and their batch counterparts.
StartExecute(t, r) == Start(t, "execute", r, "authorize")

\* begin_prepared_tool_execution and its batch counterpart.
StartBegin(t, r) == Start(t, "begin", r, "authorize")

\* resume_prepared_tool_execution: the host retains a handle of this request,
\* and the store must support single-use claims before anything is sent.
StartResume(t, r) ==
    /\ SupportsSingleUse
    /\ r \in pendingHandles
    /\ Start(t, "resume", r, "authorize")

\* reconcile_uncertain_effect on a retained uncertain handle.
StartReconcile(t, r) ==
    /\ r \in uncertainHandles
    /\ Start(t, "reconcile", r, "load")

\* flush_execution_receipt_outbox(Limit).
StartFlush(t) == Start(t, "flush", None, "snapshot")

-----------------------------------------------------------------------------
(* Authorization: Proxy and the human reviewer are external.               *)

\* Proxy decides a request that reached it, once.
ProxyDecides(r) ==
    /\ decision[r] = "unseen"
    /\ \E t \in Tasks : pc[t] = "authorize" /\ auth[t] = r
    /\ \E d \in {"pending", "allowed", "denied"} :
          decision' = [decision EXCEPT ![r] = d]
    /\ UNCHANGED <<recorded, storeVars, executorVars, hostVars, taskVars>>

\* A reviewer approves or denies, or the review expires (a denial).
ReviewerDecides(r) ==
    /\ decision[r] = "pending"
    /\ \E d \in {"approved", "denied"} :
          decision' = [decision EXCEPT ![r] = d]
    /\ UNCHANGED <<recorded, storeVars, executorVars, hostVars, taskVars>>

\* Faulty variant: a 202 is taken for a 200.
AuthorizationGranted_Accepted(t) ==
    /\ Advance(t, "authorize", "begin_attempt")
    /\ decision[auth[t]] \in Granted \cup {"pending"}
    /\ UNCHANGED <<queue, proxyVars, storeVars, executorVars, hostVars>>

\* 200: an authorization that passed validate_authorization.
AuthorizationGranted(t) ==
    /\ Advance(t, "authorize", "begin_attempt")
    /\ decision[auth[t]] \in Granted
    /\ UNCHANGED <<queue, proxyVars, storeVars, executorVars, hostVars>>

\* 202: begin and resume return the handle, execute reports it as an error.
AuthorizationPending(t) ==
    /\ pc[t] = "authorize"
    /\ decision[auth[t]] = "pending"
    /\ Return(t)
    /\ pendingHandles' = IF op[t] = "execute" THEN pendingHandles
                         ELSE pendingHandles \cup {auth[t]}
    /\ UNCHANGED <<uncertainHandles, reported, proxyVars, storeVars, executorVars>>

\* Denied, unreachable, a lost answer, or an answer bound to another payload,
\* identity, correlation or handle: the call fails.
AuthorizationFails(t) ==
    /\ pc[t] = "authorize"
    /\ ReturnNothing(t)
    /\ UNCHANGED <<proxyVars, storeVars, executorVars>>

-----------------------------------------------------------------------------
(* begin_effect_attempt: the durable in-flight boundary.                   *)

\* Faulty variant: only the single-use claim is looked at, not the marker.
AttemptAdmissible_ClaimOnly(t) ==
    /\ stage[auth[t]] # "completed"
    /\ op[t] = "resume" => auth[t] \notin claimed

\* The store admits the attempt: intent, authorization use and marker change
\* in one transaction.
AttemptAdmissible(t) ==
    /\ stage[auth[t]] = "none"
    /\ op[t] = "resume" => auth[t] \notin claimed

AdmitAttempt(t) ==
    /\ stage' = [stage EXCEPT ![auth[t]] = "in_flight"]
    /\ claimed' = IF op[t] = "resume" THEN claimed \cup {auth[t]} ELSE claimed
    /\ UNCHANGED <<completions, outbox, delivered>>

\* Started: the executor boundary is open to this call.
AttemptStarted(t) ==
    /\ Advance(t, "begin_attempt", "invoke")
    /\ AttemptAdmissible(t)
    /\ AdmitAttempt(t)
    /\ UNCHANGED <<queue, proxyVars, executorVars, hostVars>>

\* Faulty variant: the repeated call fails without an uncertain handle.
AttemptInFlight_NoHandle(t) ==
    /\ pc[t] = "begin_attempt"
    /\ ~AttemptAdmissible(t)
    /\ stage[auth[t]] # "completed"
    /\ ReturnNothing(t)
    /\ UNCHANGED <<proxyVars, storeVars, executorVars>>

\* AlreadyInFlight becomes an uncertain handle.
AttemptInFlight(t) ==
    /\ pc[t] = "begin_attempt"
    /\ ~AttemptAdmissible(t)
    /\ stage[auth[t]] # "completed"
    /\ ReturnUncertain(t)
    /\ UNCHANGED <<proxyVars, storeVars, executorVars>>

\* AlreadyCompleted becomes ExecutionAlreadyCompleted.
AttemptCompleted(t) ==
    /\ pc[t] = "begin_attempt"
    /\ stage[auth[t]] = "completed"
    /\ ReturnNothing(t)
    /\ UNCHANGED <<proxyVars, storeVars, executorVars>>

\* Faulty variant: a failed admission is reported as an uncertain effect.
AttemptFails_Uncertain(t) ==
    /\ pc[t] = "begin_attempt"
    /\ ReturnUncertain(t)
    /\ \/ UNCHANGED storeVars
       \/ AttemptAdmissible(t) /\ AdmitAttempt(t)
    /\ UNCHANGED <<proxyVars, executorVars>>

\* The store fails, before or after the transaction took place.
AttemptFails(t) ==
    /\ pc[t] = "begin_attempt"
    /\ ReturnNothing(t)
    /\ \/ UNCHANGED storeVars
       \/ AttemptAdmissible(t) /\ AdmitAttempt(t)
    /\ UNCHANGED <<proxyVars, executorVars>>

-----------------------------------------------------------------------------
(* The registered executor and its effect lookup.                          *)

\* The callback is entered.
InvokeExecutor(t) ==
    /\ Advance(t, "invoke", "executing")
    /\ invocations' = [invocations EXCEPT ![auth[t]] = @ + 1]
    /\ UNCHANGED <<effects, queue, proxyVars, storeVars, hostVars>>

\* An invocation's effect reaches the world, perhaps long after the call that
\* made it was dropped.
EffectLands(r) ==
    /\ effects[r] < invocations[r]
    /\ effects' = [effects EXCEPT ![r] = @ + 1]
    /\ UNCHANGED <<invocations, proxyVars, storeVars, hostVars, taskVars>>

\* The executor answers with a valid effect.
ExecutorReturns(t) ==
    /\ Advance(t, "executing", "commit")
    /\ effects[auth[t]] > 0
    /\ UNCHANGED <<queue, proxyVars, storeVars, executorVars, hostVars>>

\* Faulty variant: an executor error is retried like a transport error.
ExecutorFails_Retries(t) ==
    /\ Advance(t, "executing", "invoke")
    /\ UNCHANGED <<queue, proxyVars, storeVars, executorVars, hostVars>>

\* The executor answers with an error or with an unusable effect id.
ExecutorFails(t) ==
    /\ pc[t] = "executing"
    /\ ReturnUncertain(t)
    /\ UNCHANGED <<proxyVars, storeVars, executorVars>>

\* load_uncertain_intent finds the exact in-flight intent.
IntentLoaded(t) ==
    /\ Advance(t, "load", "lookup")
    /\ stage[auth[t]] = "in_flight"
    /\ UNCHANGED <<queue, proxyVars, storeVars, executorVars, hostVars>>

\* No in-flight intent, or the store is unavailable.
IntentUnavailable(t) ==
    /\ pc[t] = "load"
    /\ ReturnUncertain(t)
    /\ UNCHANGED <<proxyVars, storeVars, executorVars>>

\* Faulty variant: a lookup that finds nothing completes the attempt.
LookupFound_Nothing(t) ==
    /\ Advance(t, "lookup", "commit")
    /\ LookupRegistered
    /\ UNCHANGED <<queue, proxyVars, storeVars, executorVars, hostVars>>

\* The lookup finds the effect.
LookupFound(t) ==
    /\ Advance(t, "lookup", "commit")
    /\ LookupRegistered
    /\ effects[auth[t]] > 0
    /\ UNCHANGED <<queue, proxyVars, storeVars, executorVars, hostVars>>

\* No lookup, or it is unavailable, ambiguous, invalid or finds nothing.
LookupInconclusive(t) ==
    /\ pc[t] = "lookup"
    /\ ReturnUncertain(t)
    /\ UNCHANGED <<proxyVars, storeVars, executorVars>>

-----------------------------------------------------------------------------
(* commit_effect_and_enqueue_receipt.                                      *)

\* A store that keeps the first completion finds one it already holds.
Retained(t) == KeepFirst /\ \E c \in completions : c.auth = auth[t]

\* Faulty variant: the completion is stored without its receipt being
\* enqueued.
StoreCompletion_NotEnqueued(t) ==
    IF Retained(t)
    THEN UNCHANGED storeVars
    ELSE /\ stage' = [stage EXCEPT ![auth[t]] = "completed"]
         /\ completions' = completions \cup {ReceiptOf(t)}
         /\ UNCHANGED <<claimed, outbox, delivered>>

\* Completion, marker and outbox entry change in one transaction.
StoreCompletion(t) ==
    IF Retained(t)
    THEN UNCHANGED storeVars
    ELSE /\ stage' = [stage EXCEPT ![auth[t]] = "completed"]
         /\ completions' = completions \cup {ReceiptOf(t)}
         /\ outbox' = Append(outbox, ReceiptOf(t))
         /\ UNCHANGED <<claimed, delivered>>

\* Faulty variant: the queued receipt is not compared with the signed one.
CompletionCommitted_Unchecked(t) ==
    /\ Advance(t, "commit", "record")
    /\ StoreCompletion(t)
    /\ queue' = [queue EXCEPT ![t] = <<ReceiptOf(t)>>]
    /\ UNCHANGED <<proxyVars, executorVars, hostVars>>

\* The store answers with the entry it holds, equal to the signed receipt.
CompletionCommitted(t) ==
    /\ Advance(t, "commit", "record")
    /\ Retained(t) => ReceiptOf(t) \in completions
    /\ StoreCompletion(t)
    /\ queue' = [queue EXCEPT ![t] = <<ReceiptOf(t)>>]
    /\ UNCHANGED <<proxyVars, executorVars, hostVars>>

\* The store fails, before or after the transaction, or answers with another
\* receipt: PersistenceUncertain.
CompletionUncertain(t) ==
    /\ pc[t] = "commit"
    /\ ReturnUncertain(t)
    /\ \/ UNCHANGED storeVars
       \/ StoreCompletion(t)
    /\ UNCHANGED <<proxyVars, executorVars>>

-----------------------------------------------------------------------------
(* deliver_outbox_entry and flush_execution_receipt_outbox.                *)

\* pending_receipts(Limit) answers with the oldest entries.
PendingRead(t) ==
    /\ Advance(t, "snapshot", "record")
    /\ outbox # <<>>
    /\ queue' = [queue EXCEPT ![t] =
                    SubSeq(outbox, 1, IF Len(outbox) < Limit THEN Len(outbox) ELSE Limit)]
    /\ UNCHANGED <<proxyVars, storeVars, executorVars, hostVars>>

\* Nothing is pending, or the store fails.
NothingRead(t) ==
    /\ pc[t] = "snapshot"
    /\ ReturnNothing(t)
    /\ UNCHANGED <<proxyVars, storeVars, executorVars>>

\* Proxy takes a receipt that is new to it or repeats the recorded one.
Acceptable(receipt) ==
    /\ receipt.auth \notin Poisoned
    /\ \A c \in recorded : c.auth = receipt.auth => c = receipt

\* mark_receipt_delivered removes the first pending entry with this outbox id.
RemoveEntry(id) ==
    /\ \E i \in DOMAIN outbox :
          /\ outbox[i].auth = id
          /\ \A j \in 1..(i - 1) : outbox[j].auth # id
          /\ outbox' = RemoveAt(outbox, i)
    /\ delivered' = delivered \cup {id}
    /\ UNCHANGED <<stage, claimed, completions>>

\* record_receipt: Proxy commits the receipt and confirms it.
ReceiptRecorded(t) ==
    /\ Advance(t, "record", "mark")
    /\ Acceptable(Head(queue[t]))
    /\ recorded' = recorded \cup {Head(queue[t])}
    /\ UNCHANGED <<queue, decision, storeVars, executorVars, hostVars>>

\* Faulty variant: an entry that cannot be recorded is discarded.
RecordFails_Discards(t) ==
    /\ pc[t] = "record"
    /\ ReturnNothing(t)
    /\ RemoveEntry(Head(queue[t]).auth)
    /\ UNCHANGED <<proxyVars, executorVars>>

\* Proxy refuses, is unreachable, or commits and its answer is lost.  The
\* first failing entry ends the call: the rest of the queue is not tried.
RecordFails(t) ==
    /\ pc[t] = "record"
    /\ ReturnNothing(t)
    /\ \/ UNCHANGED recorded
       \/ /\ Acceptable(Head(queue[t]))
          /\ recorded' = recorded \cup {Head(queue[t])}
    /\ UNCHANGED <<decision, storeVars, executorVars>>

\* The last entry is marked: success is reported to the host, or the flush
\* returns its count.
DeliveryFinished(t) ==
    /\ pc[t] = "mark"
    /\ Len(queue[t]) = 1
    /\ RemoveEntry(Head(queue[t]).auth)
    /\ Return(t)
    /\ reported' = IF op[t] = "flush" THEN reported ELSE reported \cup {Head(queue[t])}
    /\ UNCHANGED <<pendingHandles, uncertainHandles, proxyVars, executorVars>>

\* A flush goes on with the next entry of its snapshot.
DeliveryContinues(t) ==
    /\ Advance(t, "mark", "record")
    /\ Len(queue[t]) > 1
    /\ RemoveEntry(Head(queue[t]).auth)
    /\ queue' = [queue EXCEPT ![t] = Tail(@)]
    /\ UNCHANGED <<proxyVars, executorVars, hostVars>>

\* The entry is no longer pending, or the store fails before or after it took
\* the mark.
MarkFails(t) ==
    /\ pc[t] = "mark"
    /\ ReturnNothing(t)
    /\ \/ UNCHANGED storeVars
       \/ RemoveEntry(Head(queue[t]).auth)
    /\ UNCHANGED <<proxyVars, executorVars>>

\* The future is dropped at an await (also one task's share of a crash).
Cancel(t) ==
    /\ t \in Cancellable
    /\ pc[t] # "idle"
    /\ ReturnNothing(t)
    /\ UNCHANGED <<proxyVars, storeVars, executorVars>>

-----------------------------------------------------------------------------
Entry(t) ==
    \/ \E r \in Requests :
          StartExecute(t, r) \/ StartBegin(t, r) \/ StartResume(t, r) \/ StartReconcile(t, r)
    \/ StartFlush(t)

Authorize(t) ==
    AuthorizationGranted(t) \/ AuthorizationPending(t) \/ AuthorizationFails(t)

BeginAttempt(t) ==
    AttemptStarted(t) \/ AttemptInFlight(t) \/ AttemptCompleted(t) \/ AttemptFails(t)

Execute(t) == InvokeExecutor(t) \/ ExecutorReturns(t) \/ ExecutorFails(t)

Reconcile(t) ==
    IntentLoaded(t) \/ IntentUnavailable(t) \/ LookupFound(t) \/ LookupInconclusive(t)

Commit(t) == CompletionCommitted(t) \/ CompletionUncertain(t)

Deliver(t) ==
    \/ PendingRead(t) \/ NothingRead(t)
    \/ ReceiptRecorded(t) \/ RecordFails(t)
    \/ DeliveryFinished(t) \/ DeliveryContinues(t) \/ MarkFails(t)

Task(t) ==
    Entry(t) \/ Authorize(t) \/ BeginAttempt(t) \/ Execute(t) \/ Reconcile(t)
    \/ Commit(t) \/ Deliver(t) \/ Cancel(t)

Environment(r) == ProxyDecides(r) \/ ReviewerDecides(r) \/ EffectLands(r)

Next ==
    \/ \E t \in Tasks : Task(t)
    \/ \E r \in Requests : Environment(r)

Spec == Init /\ [][Next]_vars

-----------------------------------------------------------------------------
(* Properties.                                                             *)

\* At most one executor invocation and one effect per authorization, under
\* any interleaving of first attempts, repeats, concurrent resumes, dropped
\* calls and lost store answers ("it must never reopen the executor
\* boundary", begin_effect_attempt).
AtMostOnce ==
    \A r \in Requests : invocations[r] <= 1 /\ effects[r] <= invocations[r]

\* Nothing reaches the executor without a granted decision and a durable
\* marker that a restarted process will find: a pending, denied or expired
\* review and a failed admission release no effect.
BoundaryBeforeExecutor ==
    \A r \in Requests :
        /\ stage[r] # "none" => decision[r] \in Granted
        /\ invocations[r] > 0 => stage[r] # "none"

\* A receipt, wherever it is (outbox, ledger, report), belongs to a stored
\* completion of an effect that really happened, also when a reconciliation
\* races the executor it is reconciling.
ReceiptsWitnessEffects ==
    /\ recorded \cup reported \cup ToSet(outbox) \subseteq completions
    /\ \A c \in completions : stage[c.auth] = "completed" /\ effects[c.auth] > 0

\* Success is reported to the host only for the very receipt that is durable,
\* in the ledger and marked delivered (execute_tool: "if execution or receipt
\* recording fails, successful completion is not reported").
SuccessIsDurable ==
    \A c \in reported : c \in completions \cap recorded /\ c.auth \in delivered

\* A stored completion's receipt is pending until the ledger has it and the
\* store marked it, whatever calls fail, repeat or race in between.
NoReceiptLost ==
    \A c \in completions :
        c \in ToSet(outbox) \/ (c \in recorded /\ c.auth \in delivered)

\* An UncertainExecution handed to the host names an attempt that crossed the
\* in-flight boundary, so a handle never stands for work that did not start.
UncertainHandlesCrossedBoundary ==
    \A r \in uncertainHandles : stage[r] # "none"

\* The abstract promise, for each authorization.
Abstract == INSTANCE EffectOnce WITH
    admitted  <- {r \in Requests : stage[r] # "none"},
    completed <- {r \in Requests : stage[r] = "completed"},
    recorded  <- {c.auth : c \in recorded},
    reported  <- {c.auth : c \in reported}

\* Governed execution implements the abstract promise.
ImplementsEffectOnce == Abstract!Spec

-----------------------------------------------------------------------------
(* Fairness: what a persistent host does with calls that are not dropped.  *)

Patient == Tasks \ Cancellable

\* Every await of such a call resolves.
Progress(t) ==
    Authorize(t) \/ BeginAttempt(t) \/ Execute(t) \/ Reconcile(t) \/ Commit(t) \/ Deliver(t)

\* A step of t that fails although the peer it waits for could have served it,
\* and that leaves t without what it asked for.
Outage(t) ==
    \/ AuthorizationFails(t) /\ decision[auth[t]] \in Granted
    \/ AttemptFails(t) /\ stage[auth[t]] = "none"
    \/ IntentUnavailable(t) /\ stage[auth[t]] = "in_flight"
    \/ LookupInconclusive(t) /\ LookupRegistered /\ effects[auth[t]] > 0
    \/ CompletionUncertain(t) /\ (Retained(t) => ReceiptOf(t) \in completions)
    \/ NothingRead(t) /\ outbox # <<>>
    \/ RecordFails(t) /\ Acceptable(Head(queue[t]))
    \/ MarkFails(t) /\ outbox' = outbox
          /\ \E c \in ToSet(outbox) : c.auth = Head(queue[t]).auth

\* The host repeats its requests to obtain their uncertain handles, reconciles
\* them and flushes, again and again; Proxy, the store and the lookup may fail
\* it any number of times, but not for ever.
HostFairness ==
    \A t \in Patient :
        /\ WF_vars(Progress(t))
        /\ \A r \in Requests : SF_vars(StartExecute(t, r)) /\ SF_vars(StartReconcile(t, r))
        /\ SF_vars(StartFlush(t))
        /\ SF_vars(AttemptInFlight(t))
        /\ <>[][~Outage(t)]_vars

HostSpec == Spec /\ HostFairness

\* Every durable completion is eventually delivered by a host that keeps
\* flushing.
EventuallyDelivered ==
    \A r \in Requests : stage[r] = "completed" ~> r \in delivered

\* Every effect, also one that landed after its call was dropped, eventually
\* has a durable completion although nothing is ever executed again.
EventuallyReconciled ==
    \A r \in Requests : effects[r] > 0 ~> stage[r] = "completed"

=============================================================================
