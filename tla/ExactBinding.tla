----------------------------- MODULE ExactBinding -----------------------------
(***************************************************************************)
(* What binds a governed execution to what the host asked for: prepared    *)
(* requests and their identities, canonical digests, the checks on every   *)
(* answer of Proxy, on retained handles and on stored intents, and the     *)
(* human review that an approval comes from (execution.rs, with the rounds *)
(* of ReviewRound between Proxy and the reviewers).                        *)
(*                                                                         *)
(* Answers may be late, repeated, given to another call or put together    *)
(* wrongly, Proxy may lose what it retained and decide anew, the host may  *)
(* restart with another executor or use an identity again, and the store   *)
(* may answer with another intent: the code checks for each of these.      *)
(* Which attempt runs how often is GovernedExecution's subject.            *)
(***************************************************************************)
EXTENDS ReviewRound, Naturals, Sequences, SequencesExt

CONSTANTS
    Tasks,        \* concurrent SDK calls
    Ids,          \* idempotency ids (UUIDs)
    Drafts,       \* requests as the host's code builds them
    Values,       \* what an argument can hold
    Executors,    \* ids of executors the host may register
    None,
    MaxBatch,     \* MAX_BATCH_CALLS
    MaxSends,     \* calls that are begun or resumed in all (bound)
    Edited        \* the value a reviewer's diff puts into an argument

\* A JSON object as it was written: <<key, value>> pairs whose keys differ.
Objects == {args \in Seq(Nat \X Values) :
                \A i, j \in DOMAIN args : args[i][1] = args[j][1] => i = j}

\* ToolExecutionRequest and ModelToolCall.
CallRecords == [id : STRING, name : STRING, args : Objects]

ASSUME ExactBindingAssumption ==
    /\ MaxBatch \in Nat \ {0}
    /\ Rounds \subseteq Nat
    /\ None \notin Ids \cup Executors
    /\ Edited \in Values
    /\ Drafts \subseteq [method : {"tool", "batch"}, calls : Seq(CallRecords)]

VARIABLES
    handles,      \* host: retained PendingAuthorization values
    uncertain,    \* host: retained UncertainExecution values
    executor,     \* host: the id of the registered executor
    calls,        \* host: the call of each task, or None
    retained,     \* Proxy: the decision it retains for each identity
    answers,      \* Proxy: answers that were given, and may arrive at any time
    intents,      \* store: intents of admitted attempts
    released,     \* executor: requests that reached its callback
    reconciled,   \* host: outcomes, with the handles they were asked for
    sends         \* calls that were begun or resumed

bindingVars == <<handles, uncertain, executor, calls, retained, answers,
                 intents, released, reconciled, sends>>

-----------------------------------------------------------------------------
(* Payloads.  As a value, a JSON object is the set of its pairs.            *)

AsValue(args) == {args[i] : i \in DOMAIN args}

\* Faulty variant: the keys are left in the order they were written in.
Canonical_AsWritten(args) == args

Rank(p, value) == Cardinality({q \in value : q[1] <= p[1]})

\* canonical_json_value: the keys in order.
Canonical(args) == [k \in DOMAIN args |-> CHOOSE p \in AsValue(args) : Rank(p, AsValue(args)) = k]

EachCall(payload, args(_)) ==
    LET calls_ == payload.calls
    IN  [payload EXCEPT !.calls = [i \in DOMAIN calls_ |->
            [id |-> calls_[i].id, name |-> calls_[i].name, args |-> args(calls_[i].args)]]]

\* sha256 of the canonical form.
Digest(payload) == EachCall(payload, Canonical)

\* Equality of JSON values.
SameValue(p, q) == EachCall(p, AsValue) = EachCall(q, AsValue)

\* tool_envelope and atomic_batch_envelope.
Envelope(id, draft) == [id |-> id, method |-> draft.method, calls |-> draft.calls]

SiblingIds(payload) == [i \in DOMAIN payload.calls |-> payload.calls[i].id]

\* validate_tool_name and validate_model_tool_calls.
ValidDraft(draft) ==
    /\ Len(draft.calls) \in 1..MaxBatch
    /\ \A i \in DOMAIN draft.calls : draft.calls[i].name # ""
    /\ draft.method = "batch" => \A i, j \in DOMAIN draft.calls :
          draft.calls[i].id # "" /\ (draft.calls[i].id = draft.calls[j].id => i = j)

\* What a bounded scalar diff makes of a payload: ModificationDiff replaces
\* one argument.  The second form, of a Proxy that also moves siblings, is
\* one that validate_batch_authorization guards against.
Candidates(payload) ==
    LET edited == [payload EXCEPT !.calls[1].args[1][2] = Edited]
    IN  {edited, [edited EXCEPT !.calls = Reverse(@)]}

-----------------------------------------------------------------------------
(* Records.                                                                *)

\* PendingAuthorization; its pending and correlation ids are one round.
Pending(round, id, payload) ==
    [kind |-> "pending", round |-> round, id |-> id, digest |-> Digest(payload)]

\* SignedAuthorization; its authorization and correlation ids are one round.
Authorization(round, id, payload, modified) ==
    [kind |-> "authorization", round |-> round, id |-> id, payload |-> payload,
     digest |-> Digest(payload), modified |-> modified]

\* ExecutionIntent of an authorization; an UncertainExecution has the same
\* bindings without the authorization itself.
Intent(a) == [round |-> a.round, id |-> a.id, digest |-> a.digest,
              executor |-> executor, authorization |-> a]

UncertainFrom(a) == [round |-> a.round, id |-> a.id, digest |-> a.digest, executor |-> executor]

Call(id, payload, handle) ==
    [id |-> id, payload |-> payload, handle |-> handle]

\* Type correctness of the host's, Proxy's and the store's bindings.
TypeOK ==
    /\ executor \in Executors
    /\ \A h \in handles : h.kind = "pending" /\ h.round \in Rounds /\ h.id \in Ids
    /\ \A u \in uncertain : u.round \in Rounds /\ u.id \in Ids /\ u.executor \in Executors
    /\ \A t \in Tasks : calls[t] # None => calls[t].id \in Ids /\ calls[t].handle \in handles \cup {None}
    /\ \A id \in Ids : retained[id] # None => retained[id].round \in Rounds
    /\ \A a \in answers : a.kind \in {"pending", "authorization"}
    /\ \A x \in intents \cup released : x.round \in Rounds /\ x.executor \in Executors

Init ==
    /\ ReviewInit
    /\ handles = {} /\ uncertain = {}
    /\ executor \in Executors
    /\ calls = [t \in Tasks |-> None]
    /\ retained = [id \in Ids |-> None]
    /\ answers = {} /\ intents = {} /\ released = {} /\ reconciled = {} /\ sends = 0

-----------------------------------------------------------------------------
(* The host.                                                               *)

\* validate_pending_authorization.
ValidPending(handle, id, payload) == handle.id = id /\ handle.digest = Digest(payload)

\* PreparedToolRequest::new, restore and their batch counterparts, then the
\* call: a draft that fails local validation is never sent.
Send(t, id, draft, handle) ==
    /\ calls[t] = None
    /\ ValidDraft(draft)
    /\ sends < MaxSends
    /\ calls' = [calls EXCEPT ![t] = Call(id, Envelope(id, draft), handle)]
    /\ sends' = sends + 1
    /\ UNCHANGED <<handles, uncertain, executor, retained, answers, intents, released,
                   reconciled, review>>

\* begin_prepared_tool_execution and begin_prepared_tool_batch_execution, under
\* a new identity or, whatever the draft, under one that was used before.
Begin(t, id, draft) == Send(t, id, draft, None)

\* resume_prepared_tool_execution and its batch counterpart, with any handle.
Resume(t, id, draft, handle) ==
    /\ ValidPending(handle, id, Envelope(id, draft))
    /\ Send(t, id, draft, handle)

\* The process dies and starts again, perhaps with another executor; what it
\* retains is serializable and survives.
Restart(e) ==
    /\ calls' = [t \in Tasks |-> None]
    /\ executor' = e
    /\ <<calls', executor'>> # <<calls, executor>>
    /\ UNCHANGED <<handles, uncertain, retained, answers, intents, released,
                   reconciled, sends, review>>

-----------------------------------------------------------------------------
(* Proxy.                                                                  *)

Used == {a.round : a \in answers} \cup {retained[id].round : id \in {i \in Ids : retained[i] # None}}
        \cup {n \in Rounds : review[n] # "none"}
Fresh == {n \in Rounds \ Used : \A m \in Rounds \ Used : n <= m}

\* A decision under a new identity: allowed, or parked for review.
Decision(call, round) ==
    [round |-> round, payload |-> Digest(call.payload), authorization |-> None]

Allowed(call, round) ==
    [Decision(call, round) EXCEPT
        !.authorization = Authorization(round, call.id, Digest(call.payload), FALSE)]

Retains(id, decision) ==
    /\ retained' = [retained EXCEPT ![id] = decision]
    /\ UNCHANGED <<handles, uncertain, executor, calls, intents, released, reconciled, sends>>

ProxyDecides(t) ==
    /\ calls[t] # None
    /\ retained[calls[t].id] = None
    /\ UNCHANGED answers
    /\ \E n \in Fresh :
          \/ Retains(calls[t].id, Allowed(calls[t], n)) /\ UNCHANGED review
          \/ Retains(calls[t].id, Decision(calls[t], n)) /\ Open(n)

\* A repeated identity with the same payload gets the retained decision, or
\* what the review made of it; with another payload it gets none (409).
ProxyAnswers(t) ==
    /\ calls[t] # None
    /\ retained[calls[t].id] # None
    /\ LET id       == calls[t].id
           decision == retained[id]
           standing == review[decision.round]
       IN  /\ decision.payload = Digest(calls[t].payload)
           /\ \/ /\ decision.authorization # None
                 /\ answers' = answers \cup {decision.authorization}
                 /\ Retains(id, decision)
              \/ /\ decision.authorization = None /\ standing = "open"
                 /\ answers' = answers \cup {Pending(decision.round, id, decision.payload)}
                 /\ Retains(id, decision)
              \/ /\ decision.authorization = None /\ standing \in {"approved", "modified"}
                 /\ \E granted \in IF standing = "modified" THEN Candidates(decision.payload)
                                   ELSE {decision.payload} :
                       LET a == Authorization(decision.round, id, granted, standing = "modified")
                       IN  answers' = answers \cup {a}
                           /\ Retains(id, [decision EXCEPT !.authorization = a])
    /\ UNCHANGED review

\* Proxy loses a decision it has answered with, and will decide anew.
ProxyForgets(id) ==
    /\ retained[id] # None /\ \E a \in answers : a.round = retained[id].round
    /\ Retains(id, None)
    /\ UNCHANGED <<answers, review>>

-----------------------------------------------------------------------------
(* The call receives an answer: authorize_payload_state.                   *)

\* Any answer that was given, or two of them put together.
Arriving ==
    LET signed == {a \in answers : a.kind = "authorization"}
    IN  answers \cup {[a EXCEPT !.payload = b.payload] : a, b \in signed}

CallEnds(t) ==
    /\ calls' = [calls EXCEPT ![t] = None]
    /\ UNCHANGED <<executor, retained, answers, sends, review>>

\* 202: a first handle, or the very handle that was presented.
ReceivePending(t, a) ==
    /\ calls[t] # None
    /\ a.kind = "pending"
    /\ ValidPending(a, calls[t].id, calls[t].payload)
    /\ calls[t].handle \in {None, a}
    /\ handles' = handles \cup {a}
    /\ CallEnds(t)
    /\ UNCHANGED <<uncertain, intents, released, reconciled>>

\* Faulty variant: the digest is not recomputed from the payload.
ValidAuthorization_DigestUnread(a, id) == a.id = id

\* validate_authorization.
ValidAuthorization(a, id) == a.id = id /\ a.digest = Digest(a.payload)

\* Faulty variant: the siblings of a modified batch are compared as a set.
ValidBatch_AnyOrder(a, payload) ==
    payload.method = "batch" => ToSet(SiblingIds(a.payload)) = ToSet(SiblingIds(payload))

\* validate_batch_authorization.
ValidBatch(a, payload) ==
    payload.method = "batch" =>
        /\ ValidDraft(a.payload)
        /\ a.payload.id = payload.id /\ a.payload.method = "batch"
        /\ SiblingIds(a.payload) = SiblingIds(payload)

\* Faulty variant: the presented handle's correlation is not compared.
FitsHandle_Unread(a, handle) == TRUE

\* The correlation of a resumed call is the handle's.
FitsHandle(a, handle) == handle # None => a.round = handle.round

\* An error answer, no answer, or one that fails a check; authorize_* ends
\* here too, with its authorization or, if it is pending, with an error.
CallFails(t) ==
    /\ calls[t] # None
    /\ CallEnds(t)
    /\ UNCHANGED <<handles, uncertain, intents, released, reconciled>>

-----------------------------------------------------------------------------
(* The call is authorized: execute_authorization, complete_known_effect.   *)

\* 200: unmodified, the authorization is for exactly the prepared payload.
Authorizes(a, call) ==
    /\ a.kind = "authorization"
    /\ ValidAuthorization(a, call.id)
    /\ ~a.modified => SameValue(a.payload, call.payload)
    /\ FitsHandle(a, call.handle)
    /\ ValidBatch(a, call.payload)

\* ToolExecutionRequest, as the callback receives it, beside what was asked.
ExecutionRequest(a, call) ==
    [round |-> a.round, id |-> a.id, payload |-> a.payload, modified |-> a.modified,
     executor |-> executor, handle |-> call.handle, asked |-> EachCall(call.payload, AsValue)]

Attempted(a) == \E intent \in intents : intent.round = a.round

\* begin_effect_attempt admits no second attempt of an authorization: the
\* call gets an uncertain handle (or an error, once completed).
AttemptRefused(t, a) ==
    /\ calls[t] # None
    /\ Authorizes(a, calls[t]) /\ Attempted(a)
    /\ uncertain' = uncertain \cup {UncertainFrom(a)}
    /\ CallEnds(t)
    /\ UNCHANGED <<handles, intents, released, reconciled>>

\* The first attempt: its intent is recorded and the registered executor
\* receives the authorized payload.  Any failure on the way, before or after
\* the executor was reached, leaves an uncertain handle or, if the process
\* dies, nothing.
Execute(t, a) ==
    /\ calls[t] # None
    /\ Authorizes(a, calls[t]) /\ ~Attempted(a)
    /\ intents' = intents \cup {Intent(a)}
    /\ \/ UNCHANGED released
       \/ released' = released \cup {ExecutionRequest(a, calls[t])}
    /\ uncertain' \in {uncertain, uncertain \cup {UncertainFrom(a)}}
    /\ CallEnds(t)
    /\ UNCHANGED <<handles, reconciled>>

\* What the signed receipt binds of the authorization.
Receipt(a, by) == [round |-> a.round, id |-> a.id, digest |-> a.digest, executor |-> by]

\* Faulty variant: the loaded intent is not compared with the handle.
IntentFits_Unread(u, intent) == ValidAuthorization(intent.authorization, intent.id)

\* validate_uncertain_intent.
IntentFits(u, intent) ==
    /\ ValidAuthorization(intent.authorization, intent.id)
    /\ u = UncertainFrom(intent.authorization)
    /\ intent = Intent(intent.authorization)

\* EffectLookupRequest: the registered lookup finds the intent's effect.
LookupFinds(intent) ==
    \E x \in released : x.round = intent.round /\ x.id = intent.id
                        /\ x.executor = intent.executor /\ Digest(x.payload) = intent.digest

\* reconcile_uncertain_effect: the handle is this executor's, the store's
\* answer is its intent, and the lookup finds the intent's effect.
Reconcile(u, intent) ==
    /\ u.executor = executor
    /\ IntentFits(u, intent)
    /\ LookupFinds(intent)
    /\ reconciled' = reconciled \cup {[asked |-> u, receipt |-> Receipt(intent.authorization, executor)]}
    /\ UNCHANGED <<handles, uncertain, executor, calls, retained, answers, intents,
                   released, sends, review>>

-----------------------------------------------------------------------------
Host ==
    \/ \E t \in Tasks, id \in Ids, draft \in Drafts :
          Begin(t, id, draft) \/ \E handle \in handles : Resume(t, id, draft, handle)
    \/ \E e \in Executors : Restart(e)
    \/ \E u \in uncertain, intent \in intents : Reconcile(u, intent)

Task(t) ==
    \/ ProxyDecides(t) \/ ProxyAnswers(t) \/ CallFails(t)
    \/ \E a \in Arriving : ReceivePending(t, a) \/ AttemptRefused(t, a) \/ Execute(t, a)

Next ==
    \/ Host
    \/ \E t \in Tasks : Task(t)
    \/ \E id \in Ids : ProxyForgets(id)
    \/ \E n \in Rounds : Decide(n) /\ UNCHANGED bindingVars

vars == <<bindingVars, review>>
Spec == Init /\ [][Next]_vars

-----------------------------------------------------------------------------
(* Properties.                                                             *)

\* What the executor receives was authorized as it is, for the identity that
\* the call asked for, and differs from the prepared request only where a
\* reviewer's diff changed it (authorize_payload_state).
ReleasedAsAuthorized ==
    \A x \in released :
        /\ x.id = x.asked.id
        /\ \E a \in answers : a.kind = "authorization" /\ a.round = x.round
                            /\ SameValue(a.payload, x.payload)
        /\ ~x.modified => EachCall(x.payload, AsValue) = x.asked
        /\ x.modified => review[x.round] = "modified"

\* The calls of a batch reach the executor all together and in the order in
\* which the host asked for them, also when a reviewer modified them.
SiblingsInOrder ==
    \A x \in released : x.asked.method = "batch" => SiblingIds(x.payload) = SiblingIds(x.asked)

\* A resumed request runs under the approval of the review that its own handle
\* names, never under another decision for the same identity.
ResumedUnderItsReview ==
    \A x \in released : x.handle # None => review[x.handle.round] \in {"approved", "modified"}

\* A reconciled outcome belongs to the effect that its handle names and that
\* the same executor was given.
OutcomesAnswerTheirHandles ==
    \A o \in reconciled :
        /\ o.receipt = o.asked
        /\ \E x \in released : x.round = o.asked.round /\ x.id = o.asked.id
                              /\ x.executor = o.asked.executor /\ Digest(x.payload) = o.asked.digest

\* A request restored from storage is the one its handle was issued for, in
\* whatever order its keys come back: a host that kept both can resume.
RestoredRequestsResume ==
    \A h \in handles : \A id \in Ids : \A draft \in Drafts :
        ValidPending(h, id, Envelope(id, draft)) <=>
            h.id = id /\ SameValue(h.digest, Envelope(id, draft))
==============================================================================
