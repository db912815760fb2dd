# Verification of clavenar-sdk

TLA+ models of the Rust SDK under `src/`, checked with TLC, and proofs about
them checked with TLAPS. Line numbers refer to that source; `PROJECT.json` maps
every definition to the lines it models and lists the runs, the hazards and the
theorems.

## 1. Inventory

| Component | Source | State it keeps | Operations | What makes it correct |
|---|---|---|---|---|
| Governed execution core | `execution.rs` | none in memory: the durable store (intent, in-flight marker, single-use claim, completion, outbox), Proxy's retained decision, handles the host retains | execute / begin / resume (tool and batch), reconcile, flush | at most one executor invocation per authorization; the durable boundary precedes the executor; success implies durable, recorded, delivered; no receipt is lost; uncertain effects can be settled without executing again |
| Local validation and canonical payloads | `execution.rs` (`validate_*`, `canonical_json*`, prepared values) | none | prepare, validate, digest | an accepted answer is bound to the exact payload, identity and call list; equal values have equal digests |
| Proxy client | `client.rs` | request counter `next_id` | `call_tool`, `send_jsonrpc`, builder | unique ids per client; status dispatch; the builder's provider |
| HTTP base | `http.rs` | process-wide provider (`OnceLock`) | default/installed provider, bounded body read, status dispatch, URL joining | body never exceeds its limit, whatever the chunking; the first provider that is installed stays, and every client built by default afterwards shares it |
| Secure transport | `secure_transport.rs` | current client behind `RwLock<Arc<Client>>` | `new`, `reload`, `client` | a request uses one complete snapshot; a failed reload keeps the old one; a later reload is not undone by an earlier one |
| Ledger client | `ledger.rs` | none | audit reads (offset and cursor paging), verify, exports, cases, compliance, tenant lifecycle | a cursor walk skips no row while rows are appended; a short page is the last; a walk by offset misses no more than what moved |
| Agents client | `agents.rs` | bearer | registry CRUD, find-then-create with `create_request_matches`, envelopes, budgets, tenant lifecycle steps under a lease | *if absent* tells the truth about what was there and is refused only by a race; effects take place once and in order |
| Policies client | `policies.rs` | bearer, tenant | versioned updates with `expected_current_version`, rollback, category sweeps | an update overwrites no edit that its editor had not seen; what is sent again takes effect once |
| HIL client | `hil.rs` | tenant | pending queue, decide, SSE stream, decision links, identities, legal hold | tenants and demo visitors stay apart; one decision per row, attributed to who made it; what was reported stays true |
| Simulator client | `sim.rs` | request deadline | status, multiplier, running, agents | the client outlives the server's creation budget |
| Brain client, policy packs | `brain.rs`, `pack.rs` | none | one call; signature check | status dispatch; a valid pack was signed |
| Types and errors | `lib.rs`, `error.rs` | none | conversions | — |

How they interact: every client holds an `Arc<dyn HttpProvider>` and takes one
`Arc<Client>` from it per request, so they share `SecureTransportProfile` (or
the process-wide provider) and nothing else. The governed execution core calls
Proxy (`/mcp`, `/execution-receipts`), an application-provided durable store,
and application callbacks (executor, effect lookup); HIL's reviewers reach it
only through Proxy's retained decision.

What is hard: every `.await` of a governed call is a place where other calls
run, where the process may die, and where the host may drop the future; each of
the store, Proxy and the executor may take effect and lose its answer; calls
are repeated by hosts that cannot know what an earlier call achieved;
reconciliation may race the executor it reconciles; a flush races inline
delivery. In the service clients the hard parts are stale reads (paging,
find-then-create, optimistic versions), credential rotation and bounded reads.
`PROJECT.json` lists these as hazards, each at its line.

## 2. Plan

In order of importance; each module is written so that it can be proved about
(named assumptions on its constants, one action per operation, no `RECURSIVE`).

1. **EffectOnce / GovernedExecution** – the abstract promise and the core; runs,
   refinement, liveness, theorems. *Done.*
2. **SecureTransport**, and **ProcessTransport** over it – rotation of credential
   files against concurrent reloads and requests, for the clients of a process
   whose provider is installed while they are built; theorems about both. *Done.*
3. **ReviewRound / ReviewQueue** – what human review promises, and the queue with
   its reviewers, tenants, quorums and lost or late requests that implements it;
   theorems and the refinement. *Done.*
4. **ExactBinding**, over ReviewRound – prepared values, canonical digests and
   every check of an answer, a handle or an intent; theorems about reviews,
   payload values and canonical forms. *Done.*
5. **TenantLifecycle** – the lease-protected saga over the identity, ledger,
   policy and HIL steps, as the four clients drive it; theorems. *Done.*
6. **ResponseIntake** – bounded body read and the status dispatch of every
   request funnel; theorems. *Done.*
7. **SimDeadline** – client deadline against the server's creation budget;
   theorems. *Done.*
8. **PolicyVersions** – optimistic concurrency with lost answers, rollback and
   sweeps that carry no token; theorems. *Done.*
9. **LedgerPaging** – walks by cursor and by offset over a growing ledger;
   theorems. *Done.*
10. **AgentRegistry** – find-then-create by concurrent operators, envelopes,
    states and budgets; theorems. *Done.*

Every safety property that a run checks is now a theorem. Left: a composition
of GovernedExecution with ExactBinding, so that one model has both how often and
what; and `LaterRequestsReceiveTheNew` for a process (section 6 has it for the
profile alone).

Theorems stand in one module per component, except that two modules have two
each: `ExchangeProofs` is about one exchange with a peer (ResponseIntake, and
SimDeadline as the instance `Sim`), `AgentsProofs` about `agents.rs`
(it extends TenantLifecycle and AgentRegistry, whose names are kept apart for
this: `RegistrySpec`, `RegistryInit`, `RegistryNext`). The assumption of the
instance `Sim` is a hypothesis of its theorems (`Sim!Durations`).

## 3. The modules

### Governed execution: `EffectOnce`, `GovernedExecution`

`EffectOnce` states the promise for each authorization, without calls, handles,
stores or networks: admitted, invoked once, landed once, completed, recorded,
delivered, reported, in this order and never undone.

`GovernedExecution` is `execution.rs` with any number of concurrent SDK calls.
Its variables are grouped by owner: Proxy (`decision`, `recorded`), the durable
store (`stage`, `claimed`, `completions`, `outbox`, `delivered`), the executor
and the world (`invocations`, `effects`), the host (retained handles, reported
successes) and the calls (`pc`, `op`, `auth`, `queue`). Every value of `pc` is
one `.await` of the code; between two of them a call is atomic, as it is in the
code, because it holds no shared memory. An operation therefore becomes one
action per await and outcome:

| Code | Actions |
|---|---|
| `execute_*`, `begin_*`, `resume_*`, `reconcile_uncertain_effect`, `flush_*` | `StartExecute`, `StartBegin`, `StartResume`, `StartReconcile`, `StartFlush` |
| `authorize_payload_state` | `AuthorizationGranted`, `AuthorizationPending`, `AuthorizationFails` |
| `begin_effect_attempt` and its claims | `AttemptStarted`, `AttemptInFlight`, `AttemptCompleted`, `AttemptFails` |
| executor callback | `InvokeExecutor`, `ExecutorReturns`, `ExecutorFails` (and `EffectLands`, the world) |
| reconciliation | `IntentLoaded`, `IntentUnavailable`, `LookupFound`, `LookupInconclusive` |
| `complete_known_effect` | `CompletionCommitted`, `CompletionUncertain` |
| `deliver_outbox_entry`, flush loop | `PendingRead`, `NothingRead`, `ReceiptRecorded`, `RecordFails`, `DeliveryFinished`, `DeliveryContinues`, `MarkFails` |
| dropped future, process crash | `Cancel` (a crash is a run of them; nothing in memory survives `Return`) |

Failures that may come before or after the peer acted are both outcomes of one
action (`AttemptFails`, `CompletionUncertain`, `RecordFails`, `MarkFails`). The
store's transactions are atomic, which its trait demands; everything else about
the store that the trait leaves open is a constant: whether a second commit
returns the first entry (`KeepFirst`) or appends as the tests' store does, and
whether it supports single-use claims. An answer that fails local validation is
an `AuthorizationFails`; what the validation compares is `ExactBinding`'s subject.

### What is executed: `ReviewRound`, `ExactBinding`

`GovernedExecution` says how often an authorization runs; `ExactBinding` says
what runs. The host prepares requests (`Send`, with `ValidDraft` for the local
validation), begins them or resumes them with a retained handle, under any
identity and with any draft; `Proxy` decides, answers from what it retains,
parks requests in review rounds, and may forget. `Arriving` is what may reach a
call: any answer that was ever given, or two put together. `Authorizes`,
`ReceivePending`, `ValidPending`, `IntentFits` are the `validate_*` functions
with the conditions of `authorize_payload_state` and `reconcile_uncertain_effect`;
they are all that stands between those answers and the executor.

A JSON object is the sequence of its pairs as it was written, each a key and
a value, and no key twice (`Objects`: `serde_json::Map` has distinct keys).
Keys are numbers in the order `sort_unstable` puts them. `Canonical` puts at
each place the pair of that rank (`Rank`), `Digest` is the digest of the sorted form (equal exactly when the sorted
forms are), and `AsValue` is the object as a value: the three that the code
relates and a restored request has to keep apart. One number stands for the
authorization, pending and correlation ids of one decision, because Proxy
issues them together; the identity (`id`) is the host's.

Between Proxy and the reviewers stands `ReviewRound`, the abstract promise of
human review: a round is opened, decided once, and never undone.

### Human review: `ReviewQueue`

The review behind those rounds, as `hil.rs` offers it to several reviewers.
`ListPending`, `ListAutoApproved`, `GetPending`, `GetByCorrelation`,
`StreamEvent` and `VerifyLink` are the reads; `SendDecide` and `SendMark` start
a mutation, which may be lost (`LoseRequest`), given up (`StopWaiting`) or
handled at any later time (`RequestRefused`, `DecisionApplied`, `MarkApplied`).
`Reaches` is `apply_tenant_scope` with the demo cookie, `Presented` the decide
credential with `decided_by`; what HIL makes of them (`Stamp`, quorums, status
codes) is external, as the client's comments describe it. `applied` is a history
variable. `ImplementsReviewRound` maps a row to how its round stands.

### Credential rotation: `SecureTransport`, `ProcessTransport`

`source` is what the files hold (a generation and whether it is whole, torn or
empty), `current` the published snapshot, and each reload has its own `phase`,
`position` and `loaded`. One action is one read of one source; `Publish` is the
write lock. `floor` and `promised` are history variables. Rotation is the
environment's, either by rename or by truncating and rewriting.

`ProcessTransport` adds the process around the profile: `Install` is
`install_process_http_provider`, `TakeDefault` every constructor without a
provider, `TakeExplicit` the builders' and clients' setters. A client that does
not hold the profile sends without its snapshot.

### Tenant lifecycle: `TenantLifecycle`

Coordinators (hosts that use the four clients) send requests into a network
where they may be delayed beyond the caller's timeout or a crash. The `Send*`
actions and `RequestTimesOut` are the client methods; the `Handle*` actions are
the services, external and modelled as the methods' docs describe them (leases,
attempts, idempotent owners with a stored receipt, owners that check the lease
as a fence).

### Answers: `ResponseIntake`

One call from the answer's head to what the caller gets. `RefuseDeclared`,
`KeepChunk`, `RefuseChunk` and `FinishBody` are `read_body_limited`; the
`...Outcome` operators are the status dispatch of each client's request
funnels, `BodyOutcome` picks the one of the call. A body is its length and what
a decoder would say of it.

### Simulator deadline: `SimDeadline`

One `POST /agents` in real time (seconds): the client connects, sends and waits
under one deadline; the simulator runs for at most its own budget. `Tick` is
blocked while something is `Due`, the usual way to write an upper bound.

### Policy edits: `PolicyVersions`

Editors read a policy with its body (`Read`, and what `ReceiveSuccess` leaves
on their screen: `view`), compose a request from it (`Compose`, `Drafts`), send
it, retry it, or give up; every copy may arrive late. A body is the set of edits
that went into it, and an editor only adds to the body it sees, so an edit that
is overwritten by someone who had not seen it is visibly gone. What an editor
sees is kept apart from the token of its requests: `CarriesToken` says which
request bodies have `expected_current_version`, and the row of a conflict
(`parse_conflict`) has no body, so its receiver has to read again
(`ReceiveConflict`). The engine (`Refuse`, `Conflict`, `Apply`) is external;
whether a state change makes a new version is not stated in the client, so both
are allowed.

### Audit pages: `LedgerPaging`

A reader puts each page together from one call per agent, as the docs of
`audit_agent_paged_after` describe, while the ledger grows between the calls.
`OffsetSlice`, `OlderSlice` and `NewerSlice` are the three query shapes; a row
carries whether `AuditFilterParams` keeps it. `BeginWalk` and `NextPage` are a
walk by offset, whose number of pages comes from a count taken at its start.

### Agent registry: `AgentRegistry`

Operators read (`List`, `Get`), create if absent (`CreateIfAbsent`, which is
`find_by_name`, `create_request_matches` and `create`), and send mutations that
carry no version. `Act`, `Reshape`, `Assign` and `SetBudget` compose the bodies,
envelopes from the record as it was read; `Create`, `Mutate`, `BudgetSet` and
`Refuse` are the identity service. Lists of a request keep order and
duplicates, sets of a record do not, because `same_set` is about this. `past`
is a history variable. `RegistryShapes` says what requests and records are made
of, and that `Absent` is neither.

## 4. The runs

| Run | Instance | What it shows |
|---|---|---|
| `governed` | 2 calls of any kind, 2 requests, one of whose receipts Proxy refuses, store that keeps the first completion | type correctness, `AtMostOnce`, `BoundaryBeforeExecutor`, `ReceiptsWitnessEffects`, `SuccessIsDurable`, `NoReceiptLost`, `UncertainHandlesCrossedBoundary`, and that every behaviour implements `EffectOnce` |
| `host` | 1 call that may be dropped, 1 patient host, store that appends | `EventuallyDelivered`, `EventuallyReconciled` without a second invocation |
| `binding` | 2 identities, 2 executors, 2 rounds, 4 drafts (one object in two key orders, a batch, an invalid batch), 3 calls one after the other | `ReleasedAsAuthorized`, `SiblingsInOrder`, `ResumedUnderItsReview`, `OutcomesAnswerTheirHandles`, `RestoredRequestsResume` |
| `review` | 2 reviewers of one tenant (bearer, session), 1 demo visitor, 1 row, quorum of 2, 3 requests | `TenantsStayApart`, `DecisionsNameTheirDeciders`, `ToldIsSettled`, and that every behaviour implements `ReviewRound` |
| `transport` | 2 installers, 2 reloads, 1 client, 2 sources, 2 generations, both kinds of rotation | type correctness, `SnapshotFromItsWindow`, `RequestsUseValidatedSources`, `RotationReachesEveryCommand` |
| `transport_overtaken` | the transport without its process | disagreement, below |
| `lifecycle` | 1 coordinator that crashes and restarts, 2 operations, 2 steps, 1 fence, 2 attempts, 3 requests under way | type correctness, `AppliedOnce`, `SuccessMeansApplied`, `EffectsInOrder`, `EventuallySettled` |
| `intake` | 10 statuses, limits 2 and 4, bodies up to 6, chunks up to 3 | type correctness, `BoundedBuffer`, `OutcomeIsTheMeaning`, `OutcomeNamesStatus`, `EventuallyAnswered` |
| `sim_deadline` | 20 s over 15 s, 5 s to connect, 1 s on the way | disagreement, below |
| `policy_versions` | 2 editors, 2 requests each, each sent up to twice | `UpdatesKeepWhatTheyReplace`, `RetriedEditsApplyOnce` |
| `registry` | 2 operators, 1 name wanted in 3 ways, 3 mutations | `EnsuredAsWanted`, `RefusedOnlyByARace` |
| `ledger_paging` | 2 agents, pages of 2, 6 rows | `TurnsSkipNothing`, `ShortPageIsTheLast`, `OffsetWalksMissOnlyWhatMoved` |

**Bounds.** Two concurrent calls are enough for every race between a first
attempt, a repetition, a resume, a reconciliation and a flush, because a call
keeps nothing when it returns: a third one can only repeat what a returned one
did. `LookupResult` differs from `ExecutorResult` in `governed`, so a
reconciliation that reports other bytes is among the cases; `host` has the other
kind of store, where executor and reconciler may both leave an entry. Two
generations make every order of old and new; two sources make every mixed
snapshot (the CA bundle, the certificate and the key are read back to back and
parsed together, and one stands for them). In `lifecycle` one coordinator is
enough to have several at work: when it crashes or gives up, its requests stay
under way, and with three of them a restarted coordinator races two of its
predecessors'. Two attempts make a step both retried and exhausted, and one
step has a fence and one has not. In `intake` the lengths cross both limits by
one and by a whole chunk. `EventuallyAnswered` is about the call, up to an outcome or an
open stream; it says nothing of the stream (section 5). In `policy_versions` an
editor that has used up its requests reads no more, since nothing depends on
what it then sees. Two editors with two tries cover an edit overtaken by
another and by its own retry. Six rows of two agents fill three pages of two
and leave appended rows on either side. Of the policy operations, `Offered`
leaves out those that behave as one of the offered: activate and deactivate
carry a token as delete does, install creates as create does, and one category
sweep stands for both. In `binding` a single task is enough: an answer may
arrive at any later call, so calls one after the other see every mixture of
answers that concurrent calls would; three calls are one that is parked, one
that resumes and one under a reused identity. Two rounds are a decision and the
new one of a Proxy that forgot. In `review` three requests are the two of a
quorum and one that comes late, repeats, or decides otherwise; a demo visitor
beside a tenant makes both kinds of partition. In `registry` three mutations
are two creates and an edit between a look and its create. The
theorems below do without any of these bounds, in every module. Named bounds:
`MaxGeneration`, `MaxInFlight`, `MaxLength`, `MaxChunk`, `Horizon`,
`MaxRequests`, `MaxTries`, `MaxRows`, `MaxSends`. The runs with
`CHECK_DEADLOCK FALSE` are those that really stop: the call of `intake`
returns, the clock of `sim_deadline` reaches its horizon, the editors use up
their requests.

Symmetry is used over the calls of `governed`, over editors, operators, agents,
identities and executors: only in runs without liveness properties, where no
constant names one of them. (`ImplementsReviewRound` is checked without.)

**Fairness.** `HostFairness`, for a call that is not dropped: its awaits resolve
(weak fairness of `Progress`); the host repeats its requests, takes the handle a
repetition answers with, reconciles the handles it retains and flushes, again
and again (strong fairness of the entry points and of `AttemptInFlight`, since a
task is idle only between two calls); and Proxy, store and lookup fail it any
number of times but not for ever (`<>[][~Outage(t)]_vars`, where `Outage` is a
failure of a peer that could have served the call: a refused receipt, a lookup
of an effect that has not landed or a repeated completion is none). This is what
the docs of `flush_execution_receipt_outbox` and of `UncertainExecution` ask of
a host; the code itself retries nothing. In `ProcessTransport` (`ProcessSpec`),
reload threads and requests go on and a write that has begun ends; rotations,
installs and new clients owe nothing. In
`TenantLifecycle`, the host of an active operation keeps claiming, requests
under way arrive, leases and retry timers run out; nothing is assumed of
crashes. In `ResponseIntake`, only the client's own clock is fair: the peer may
stay silent for ever.

## 5. Where code and documents disagree

Each is a run that expects a violation, with the quoted line in `PROJECT.json`.

| Run | Statement | What happens |
|---|---|---|
| `transport_overtaken` | `secure_transport.rs:72` later requests receive the new snapshot | an overlapping older reload publishes last and takes it back |
| `sim_deadline` | `sim.rs:91` no completion after a reported timeout | slow connecting uses up the margin |

Noticed while modelling, in the models and without a run of their own:

- `execution.rs:879` says that a flush attempts each entry once per call; the
  first entry that cannot be delivered ends it (`execution.rs:905`), and as the
  oldest come first, a refused receipt keeps later ones waiting. `RecordFails`
  ends the flush in the model; `EventuallyDelivered` is about a Proxy that
  refuses no receipt for ever.
- `http.rs:29-30` says that streaming APIs keep their own lifecycle;
  `stream_pending_inner` (`hil.rs:771`) sets no timeout of its own, and the total
  timeout of the default client (`http.rs:91`, 30 s) covers the body too, so it
  ends a stream in the middle of the caller's reading (`PassDeadline` in the
  phase `open`).
- `docs/SEQUENCES.md:359-361` has every policy mutation, rollback included, carry
  the token; the bodies of rollback (`policies.rs:157`) and of the creating calls
  have no such field (`CarriesToken`). So a rollback replaces a version that its
  author has never seen, and `UpdatesKeepWhatTheyReplace` is about updates.
- `policies.rs:113-115` says that the row of a conflict lets the caller re-render
  the editor against it; `PolicyRow` has no body. A caller that puts the row's
  version under the body it has already would overwrite the other edit
  (`ReceiveConflict` reads again).
- `validate_authorization` compares neither tenant nor method, and for a single
  tool a modified authorization may carry any payload whose digest it names
  (`Authorizes`): what a diff may change is then Proxy's to keep.
- `create_request_matches` compares no state, so *if absent* succeeds for an
  agent that is decommissioned; a *widen* composed from an old record takes back
  another operator's *narrow* (`Reshape`).
- The regulatory export window is cut to whole seconds on its way out.
- `contracts/pending-authorization-v1.json:34-37` wants stores without
  single-use claims to fail before the executor for human approvals;
  `begin_prepared_tool_execution` (`execution.rs:769`) does not ask, so a request
  that is begun again after its approval runs unclaimed (`StartBegin` has no
  guard, `StartResume` has). The effect marker still keeps it to one attempt.
- `execution.rs:579-581` calls an uncertain handle an effect without a trusted
  completion; a handle reconciled after its completion was stored answers
  *uncertain* again (`execution.rs:926`, `IntentUnavailable`).
- `policies.rs:772-774` and `:791-793` promise `Server` with the body for a 400;
  the shared dispatch (`http.rs:173`) makes it `BadRequest`.

## 6. What is proved

All theorems hold for every value of the constants that the modules' `ASSUME`s
allow; the proofs are in `...Proofs` modules and rest on no other assumption
unless stated.

**`GovernedExecutionProofs`.** `TypeCorrect` first: `TypeInv` adds to `TypeOK`
that a call with a next await of delivery holds an entry (`HoldsEntry`) and that
all but a flush have a request (`HasRequest`). `AtMostOnce` is not inductive: a
second invocation is excluded because a call that may still invoke is the only
one its marker admitted. `BoundaryInv` says so: of each authorization at
most one call stands before the invocation (`SingleAdmission`), and then nothing
has been invoked yet; a call about to claim has a granted decision, and one past
the claim a durable marker (`AwaitsOK`); a completion has an effect
(`CompletedHasEffect`). From it follow `AtMostOnceHolds`,
`BoundaryHolds` and `HandlesHold`. `ReceiptInv` adds the entries that calls hold
(`QueuesOK`) and gives `WitnessHolds` and `SuccessHolds`. `NothingLost` assumes
`OneReceipt`: the store keeps the first completion, or the lookup reports the
executor's result; the two disjuncts are the stores of `governed` and of `host`.
Without it an appending store holds two receipts for one outbox id, and marking
one delivered removes the other. `Refinement` shows that
every step is a step of `EffectOnce` or leaves its variables alone.

**`SecureTransportProofs`.** `TransportInv` relates what a reload has read so
far to its `floor` and to the sources (`ReadingInv`), says that a built snapshot
is complete (`BuiltInv`), and that published and used snapshots were validated
(`PublishedInv`). It gives `WindowTheorem` and `ValidatedTheorem`; and, because
a step of the process is one of the profile, none of it, or a request past it
(`ProcessStep`), `ProcessTheorem` says the same of `ProcessSpec`, which is what
the run checks. `SharingTheorem` is the safety half of
`RotationReachesEveryCommand`: whoever installs what, and in whichever order,
a client that was built by default after the profile's install was answered
uses the profile. It rests on `InstalledInv`, that an installer which was told
Ok has its provider in the slot.
`PromiseTheorem` assumes `OneAtATime`, at most one reload thread; the run
`transport_overtaken` shows that it is needed.

**`ExchangeProofs`.** *ResponseIntake:* `IntakeInv` adds to the properties that
a body being read is that of an answer which neither settles by its status nor
declares too much (`ReadingInv`). `StatusTheorem` rests on `DispatchNames`, a
fact about the dispatch operators of all calls.

*SimDeadline:* `DeadlineInv` bounds when each stage began. `Slack`, that
connecting, delay and budget together stay below the deadline, is the condition
under which `OverTheorem` and `DeadlineTheorem` say that no creation completes
late; the run `sim_deadline` has the defaults of the code and is just outside it
(5 + 1 + 15 is more than 20). `Durations`, that the constants are lengths of
time, is a hypothesis of its theorems.

**`AgentsProofs`.** *TenantLifecycle:* a claim outlives its lease in two places: in a
coordinator's hands and in requests that nobody waits for any more.
`LifecycleInv` says what still holds of it then (`Claimed`): its operation was
started, its step is at most one past the last that succeeded, and is exactly
that while its lease lives. A success that is reported, or about to be, is of an
effect that took place (`WorkOK`, `NetworkOK`), and an owner applied exactly
what it holds a receipt for (`OperationsOK`). `ClaimsStand` is the heart:
whatever the server does next (`ServerMovesOn`), claims stay so. From it follow
`OnceTheorem`, `SuccessTheorem` and, as an action property, `OrderTheorem`: an
effect without a receipt belongs to a step that has not succeeded, hence to the
current one, whichever steps are fenced. Fences are needed for none of them.

*AgentRegistry:* the two properties become inductive with the types and two
facts. `Recorded`: a record that is there is one that the name has had, so a
comparison with it is about the past. `CreatesAwaited`: an operator that awaits
a create has looked, found the name free, and heard nothing since, because it
sends nothing else before it stops waiting; a create of its own that it gave up
is not awaited, and its answer is not heard. The rest is that records, once
there, stay (`HeardStays`), and that `create_request_matches` decides exactly
whether the record has the wanted team and sets (`LandedFacts`). From it follow
`EnsuredTheorem` and `RaceTheorem`.

**`PolicyVersionsProofs`.** `KeepTheorem`: no update overwrites an edit its
editor had not seen. The token alone does not give it: an update whose token is
current may still carry a body made from another version. So `EditInv` follows
body and version from the screen to the history and back. What an editor sees
is a version with its own body (`ViewsAgree`); a request keeps the body of the
version it names, whatever the editor sees meanwhile (`RequestsDrafted`); and an
answer names the version that has the body asked for (`AnswersAgree`), which the
editor then sees. With a current token the update therefore contains what it
replaces. `OnceTheorem` rests on `AskedSettled`: a create, install, update or
delete that took effect has left the policy in a state that refuses it (a row
exists, its version is above the token, or it is deleted), and each of these
lasts (`Lasting`). So no later copy applies, also of a request that was given up.
That the engine compares the token is taken from the client's docs.

**`ReviewQueueProofs`.** The properties together with the types and `RowsOK`
(only approved rows are modified, requests are about rows that exist) are
inductive: `ApartTheorem`, `AttributionTheorem`, `SettledTheorem`. They rest on
`StampIsReviewer`: whatever credential a client presents, its own reviewer is
held responsible, from the assumption that a shared bearer comes with a tenant
scope and a demo credential with a prefix. `Refinement` shows that each step
opens or decides at most one round, and that nothing decided moves.

**`ExactBindingProofs`.** `BindingInv` ties answers, retained decisions and
handles to how their round stands: an authorization is one of a round that
needed no review or whose review approved it (`Grant`), a handle is one of a
round that was parked (`Parked`). Rounds only move on (`RoundsMoveOn`), and an
authorization that fits a handle has the handle's round, which was parked, so
its review approved it: `ResumeTheorem`, also when Proxy forgot and decided the
same identity anew. `OutcomeTheorem` follows from the checks of the intent and
the lookup. `UsesReviewRound` shows that the module uses reviews as
`ReviewRound` has them; with `Refinement` of the queue, what it says holds of
the real review.

About what is executed, `PayloadInv` says that every call, answer, retained
decision and handle carries the digest of a payload (`Carries`), that an
authorization whose payload is modified is of a round that a reviewer modified,
and that what was released is as authorized; an answer that is put together of
two others (`Arriving`) carries what its parts do or fails a check
(`ValidArriving`). `ReleaseTheorem` and `SiblingTheorem` follow; for the
latter, the envelope of a batch holds its siblings in their order, whatever is
sorted inside them (`EnvelopeFacts`, `SiblingsOfValue`).

All of this compares digests, so it needs that equal digests mean equal values.
A canonical form has at each place the pair of that rank, the number of pairs
whose keys are not greater. Ranks are distinct and fill `1..n` (`RankFacts`, by
cardinalities), so the form lists every pair once: it determines the object as
a value, and the value determines it (`CanonicalObject`, `CanonicalSame`,
`DigestIdentifies`). No induction over the sequence is needed. `RestoreTheorem`
follows: a restored request with its keys in another order resumes its handle,
and a different one does not. The theorems assume of drafts what the Rust types
say (`ExactBindingAssumption`): a list of calls whose arguments are objects.

**`LedgerPagingProofs`.** `SlicesInv` says of each slice that has been fetched
which rows it was cut from: those of its agent that were there when it was
fetched, up to some row no older than the start of the turn (`Pool`), on the
cursor's side. Rows are appended between the fetches, so the slices of one page
may be cut from ledgers of different lengths. What is left out of a cut, or of
the page merged from the cuts, is preceded by a full page (`NewestPage`,
`OldestPage`), and this is `TurnTheorem` and `ShortPageTheorem`. `WalkInv` is
the invariant of a walk by offset: what the offset has passed by now, of the
rows that were counted, has been got, although rows have moved under it since
(`NewestShrinks`); when the offset has reached the count, what is missing are
at most as many rows as were appended: `OffsetTheorem`. Least and greatest rows
exist because `<` is well founded on the naturals, a library theorem that takes
sets and no operator; how many rows a cut has is a counting argument with the
library's facts about cardinality.

Only model-checked is liveness, which is out of the prover's reach:
`EventuallyDelivered`, `EventuallyReconciled`, `RotationReachesEveryCommand` (of
which `SharingTheorem` is the safety half), `EventuallySettled` and
`EventuallyAnswered`. TLC checked each inductive invariant on the instances
above before it was proved.

`TypeOK` of `ExactBinding`, `PolicyVersions`, `ReviewQueue` and `LedgerPaging` and
`RegistryTypeOK` are not part of a run because they are proved.

## 7. What is not modelled

- The bytes of signatures and digests: a digest is the canonical value it is
  taken of, a signature is part of the answer that carries it. Policy packs
  (`pack.rs`) are a pure signature check over serialized bytes.
- URL joining, percent encoding, headers, request counters (`next_id`): no
  interleaving can disturb them.
- The services themselves (Proxy, identity, ledger, policy engine, HIL,
  simulator) beyond what the client's code and docs say of them; those
  definitions are marked external in the map.
- Ledger cases, exports, log verification and FinOps, HIL identities,
  notifications and the login proxy, policy templates, lab and mining: single
  requests without client state; their answers are in `ResponseIntake`.
- In `ExactBinding` a handle is compared by what binds it; `ttl_seconds` and
  `poll_after_ms`, which the code compares too (`execution.rs:801`, `:858`), are
  left out, so the model accepts at least what the code does. In
  `SecureTransport` an error of the HTTP client's builder
  (`secure_transport.rs:149-165`) is like any refused reload.
- `LedgerPaging` only appends; `tombstone_tenant` (`ledger.rs:1906`) is outside it.
- In `TenantLifecycle`, what a coordinator does after a timeout
  (`AfterTimeout`), the lease check (`ExactLiveLease`) and an owner's refusal
  (`EffectRefused`) belong to the host and the services; the SDK carries the
  tokens they compare.
- In `ReviewQueue`, HIL confines a decision link to its scope and a visitor uses
  the demo cookie; `TenantsStayApart` is about what the client attaches.
- Hazards without a property are in `PROJECT.json`, each with the reason. Two
  of them are real losses in combinations that the code leaves to its host: a
  lookup that reports another result over a store that appends every completion
  (outside `OneReceipt`, and in neither run of the core), and a receipt that is
  refused for good, which keeps later ones waiting (`host` has one request and
  no such refusal).
