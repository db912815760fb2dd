----------------------------- MODULE ReviewQueue -----------------------------
(***************************************************************************)
(* Human review: hil.rs, used by several reviewers at once.                *)
(*                                                                         *)
(* A row is one pending request of the HIL service.  Reviewers read rows   *)
(* (lists, single reads, the event stream, decision links) and decide from *)
(* what they saw, which may be old.  A request may be lost, may be applied *)
(* without its answer arriving, or may arrive after its sender gave up and *)
(* decided otherwise.  HilClient repeats nothing by itself and keeps no    *)
(* state but its tenant scope; the service is modelled as the client's     *)
(* comments describe it.                                                   *)
(***************************************************************************)
EXTENDS Naturals, FiniteSets

CONSTANTS
    Reviewers,     \* people, each behind a client of their own
    Rounds,        \* names of the rows: one review round is one row
    Tenants,       \* tenants, and demo prefixes, that rows belong to
    Scope,         \* with_tenant of each reviewer's client, or None
    Prefix,        \* the partition in each reviewer's demo cookie, or None
    Credential,    \* the decide credential each reviewer presents
    Required,      \* required_approvers of every row
    MaxTries,      \* requests that are sent in all (bound)
    Console,       \* the name behind a shared bearer token
    System,        \* "system:policy-tier"
    None

ASSUME ReviewQueueAssumption ==
    /\ Scope \in [Reviewers -> Tenants \cup {None}]
    /\ Prefix \in [Reviewers -> Tenants \cup {None}]
    /\ Credential \in [Reviewers -> {"session", "bearer", "demo", "disabled"}]
    /\ \A r \in Reviewers : /\ Credential[r] = "bearer" => Scope[r] # None
                            /\ Credential[r] = "demo" <=> Prefix[r] # None
    /\ Required \in Nat \ {0}
    /\ MaxTries \in Nat
    /\ None \notin Reviewers \cup Rounds \cup Tenants

VARIABLES
    rows,          \* HIL: every row
    sent,          \* requests under way to HIL
    waiting,       \* each reviewer: the request whose answer is awaited
    tries,         \* requests sent so far
    seen,          \* each reviewer: the status last shown of a row, or None
    told,          \* each reviewer: the last outcome reported for a row
    applied        \* history: requests that changed a row

vars == <<rows, sent, waiting, tries, seen, told, applied>>

Statuses  == {"absent", "pending", "approved", "denied", "expired"}
Decided   == {"approved", "denied", "expired"}
Decisions == {"approve", "deny", "modify"}
Marks     == {"assigned", "narrated", "held"}
Stamps    == Reviewers \cup {Console, System}

\* A PendingRequest, down to what decides and attributes it; who assigned,
\* annotated or held it is in the history of applied requests.
Row == [status : Statuses, tenant : Tenants, by : Stamps \cup {None},
        modified : BOOLEAN, approvals : SUBSET Stamps]

\* decide, assign, patch_incident_summary and legal_hold, as sent; the number
\* tells repeated requests apart while they are under way.
Request == [no : 0..MaxTries, from : Reviewers, row : Rounds, op : {"decide"} \cup Marks,
            decision : Decisions \cup {None}]

\* What a call returns: the row's status, or the status of a refusal.
Outcomes == Statuses \cup {"nothing", "404", "409", "422"}

\* Type correctness of rows, requests and what reviewers hold.
TypeOK ==
    /\ rows \in [Rounds -> Row]
    /\ sent \subseteq Request
    /\ waiting \in [Reviewers -> Request \cup {None}]
    /\ tries \in 0..MaxTries
    /\ seen \in [Reviewers -> [Rounds -> Statuses \cup {None}]]
    /\ told \in [Reviewers -> [Rounds -> Outcomes]]
    /\ applied \subseteq Request

\* No row exists yet; the tenant of a row is fixed when it is created.
Init ==
    /\ rows \in [Rounds -> {[status |-> "absent", tenant |-> t, by |-> None, modified |-> FALSE,
                             approvals |-> {}] : t \in Tenants}]
    /\ sent = {}
    /\ waiting = [r \in Reviewers |-> None]
    /\ tries = 0
    /\ seen = [r \in Reviewers |-> [id \in Rounds |-> None]]
    /\ told = [r \in Reviewers |-> [id \in Rounds |-> "nothing"]]
    /\ applied = {}

-----------------------------------------------------------------------------
(* Scope and credentials.                                                  *)

\* The partition a reviewer belongs to.
Confined(r, id) ==
    /\ Scope[r] # None => rows[id].tenant = Scope[r]
    /\ Prefix[r] # None => rows[id].tenant = Prefix[r]

\* Faulty variant: the scope is only attached to mutations.
Reaches_Unscoped(r, id) == rows[id].status # "absent"

\* apply_tenant_scope, and on lists and streams the demo cookie: HIL confines
\* the answer, and answers 404 for absent and foreign rows alike.
Reaches(r, id) == rows[id].status # "absent" /\ Confined(r, id)

\* Faulty variant: a bearer decision is sent without its principal claim.
Presented_NoPrincipal(r) ==
    [cookie    |-> IF Credential[r] \in {"session", "demo"} THEN r ELSE None,
     principal |-> None,
     tenant    |-> IF Credential[r] = "disabled" THEN Scope[r] ELSE None,
     decidedBy |-> r]

\* What decide presents beside its body, for each credential.
Presented(r) ==
    [cookie    |-> IF Credential[r] \in {"session", "demo"} THEN r ELSE None,
     principal |-> IF Credential[r] = "bearer" THEN r ELSE None,
     tenant    |-> IF Credential[r] = "disabled" THEN Scope[r] ELSE None,
     decidedBy |-> r]

\* Whom HIL holds responsible: the owner of a verified cookie, the principal
\* beside a bearer, and decided_by only where authentication is disabled.
Stamp(r) ==
    LET p == Presented(r)
    IN  CASE p.cookie # None               -> p.cookie
          [] p.principal # None            -> p.principal
          [] Credential[r] = "disabled"    -> p.decidedBy
          [] OTHER                         -> Console

-----------------------------------------------------------------------------
(* Reads: the reviewer's surface takes over what the answer shows.         *)

\* Of the asked rows those found are shown, the others are taken away.
Shows(r, asked, found) ==
    /\ seen' = [seen EXCEPT ![r] = [id \in Rounds |->
                   IF id \in found THEN rows[id].status ELSE IF id \in asked THEN None ELSE @[id]]]
    /\ UNCHANGED <<rows, sent, waiting, tries, told, applied>>

\* list_pending(_scoped): the queue replaces what was shown before.
ListPending(r) ==
    Shows(r, Rounds, {id \in Rounds : Reaches(r, id) /\ rows[id].status = "pending"})

\* list_auto_approved(_scoped): of the approved rows, those that the policy
\* tier decided.
ListAutoApproved(r) ==
    Shows(r, {}, {id \in Rounds : Reaches(r, id) /\ rows[id].status = "approved"
                                                /\ rows[id].by = System})

\* get_pending: None for a 404.  It carries no demo cookie, so visitors do
\* not use it, nor the read below.
GetPending(r, id) ==
    /\ Prefix[r] = None
    /\ Shows(r, {id}, {i \in {id} : Reaches(r, i)})

\* get_pending_by_correlation: only decided rows are found.
GetByCorrelation(r, id) ==
    /\ Prefix[r] = None
    /\ Shows(r, {id}, {i \in {id} : Reaches(r, i) /\ rows[i].status \in Decided})

\* A frame of stream_pending(_scoped) about one row of the reader's scope.
StreamEvent(r, id) == Reaches(r, id) /\ Shows(r, {id}, {id})

\* verify_decision_link: a link is redeemable while its row is live.  It is
\* the one read without a scope; HIL sends links to the row's own approvers.
VerifyLink(r, id) ==
    /\ Confined(r, id)
    /\ rows[id].status = "pending"
    /\ Shows(r, {id}, {id})

ReadRow(r) ==
    \/ ListPending(r) \/ ListAutoApproved(r)
    \/ \E id \in Rounds :
          GetPending(r, id) \/ GetByCorrelation(r, id) \/ StreamEvent(r, id) \/ VerifyLink(r, id)

-----------------------------------------------------------------------------
(* Requests.                                                               *)

SendRequest(r, id, op, decision) ==
    LET again(n) == [no |-> n, from |-> r, row |-> id, op |-> op, decision |-> decision]
        fresh    == {n \in 0..MaxTries : again(n) \notin sent}
    IN  /\ waiting[r] = None
        /\ tries < MaxTries
        /\ rows[id].status # "absent"
        /\ \E n \in fresh :
              /\ \A k \in fresh : n <= k
              /\ waiting' = [waiting EXCEPT ![r] = again(n)]
              /\ sent' = sent \cup {again(n)}
        /\ tries' = tries + 1
        /\ UNCHANGED <<rows, seen, told, applied>>

\* decide, from a row that was pending when it was shown, or from a deep link
\* to a row that was not shown.
SendDecide(r, id, d) ==
    /\ seen[r][id] \in {None, "pending"}
    /\ SendRequest(r, id, "decide", d)

\* assign, patch_incident_summary, legal_hold: without a demo cookie.
SendMark(r, id, mark) == Prefix[r] = None /\ SendRequest(r, id, mark, None)

\* The call times out; its request may still arrive.
StopWaiting(r) ==
    /\ waiting[r] # None
    /\ waiting' = [waiting EXCEPT ![r] = None]
    /\ UNCHANGED <<rows, sent, tries, seen, told, applied>>

\* The request never arrives.
LoseRequest(request) ==
    /\ sent' = sent \ {request}
    /\ UNCHANGED <<rows, waiting, tries, seen, told, applied>>

\* Faulty variant: a decision that was taken is reported as it was asked for.
OutcomeOf_AsAsked(request, row) ==
    CASE request.decision = "deny" -> "denied" [] request.decision = None -> row.status
      [] OTHER -> "approved"

\* A successful call returns the row as it is now.
OutcomeOf(request, row) == row.status

\* HIL answers: the answer arrives if its sender still waits for it.
Answered(request, outcome) ==
    /\ sent' = sent \ {request}
    /\ IF waiting[request.from] = request
       THEN /\ waiting' = [waiting EXCEPT ![request.from] = None]
            /\ told' = IF request.op = "decide"
                       THEN [told EXCEPT ![request.from][request.row] = outcome] ELSE told
       ELSE UNCHANGED <<waiting, told>>
    /\ UNCHANGED <<tries, seen>>

Changed(request, row) ==
    /\ rows' = [rows EXCEPT ![request.row] = row]
    /\ applied' = applied \cup {[request EXCEPT !.no = 0]}
    /\ Answered(request, OutcomeOf(request, row))

Refused(request, status) == UNCHANGED <<rows, applied>> /\ Answered(request, status)

\* The row after a decision: a denial is final at once, an approval when
\* enough distinct people gave theirs.
AfterDecision(request) ==
    LET row       == rows[request.row]
        approvals == row.approvals \cup {Stamp(request.from)}
    IN  IF request.decision = "deny"
        THEN [row EXCEPT !.status = "denied", !.by = Stamp(request.from)]
        ELSE IF Cardinality(approvals) < Required
        THEN [row EXCEPT !.approvals = approvals]
        ELSE [row EXCEPT !.status = "approved", !.by = Stamp(request.from), !.approvals = approvals,
                         !.modified = request.decision = "modify"]

\* Which statuses a mark may be set in: assign while the row is live,
\* patch_incident_summary once it is decided, legal_hold always.
MarkFits(mark, status) ==
    CASE mark = "assigned" -> status = "pending"
      [] mark = "narrated" -> status \in Decided
      [] OTHER -> TRUE

\* 404 for an absent or foreign row, 409 in the wrong status, 422 for an
\* action that HIL does not take on this row.
RequestRefused(request) ==
    \/ ~Reaches(request.from, request.row) /\ Refused(request, "404")
    \/ /\ Reaches(request.from, request.row)
       /\ IF request.op = "decide" THEN rows[request.row].status # "pending"
          ELSE ~MarkFits(request.op, rows[request.row].status)
       /\ Refused(request, "409")
    \/ Reaches(request.from, request.row) /\ Refused(request, "422")

\* Faulty variant: a decision is taken on a row that is already decided.
DecisionApplied_Again(request) ==
    /\ request.op = "decide"
    /\ Reaches(request.from, request.row)
    /\ rows[request.row].status # "absent"
    /\ Changed(request, AfterDecision(request))

DecisionApplied(request) ==
    /\ request.op = "decide"
    /\ Reaches(request.from, request.row)
    /\ rows[request.row].status = "pending"
    /\ Changed(request, AfterDecision(request))

MarkApplied(request) ==
    /\ request.op \in Marks
    /\ Reaches(request.from, request.row)
    /\ MarkFits(request.op, rows[request.row].status)
    /\ Changed(request, rows[request.row])

Handle(request) == RequestRefused(request) \/ DecisionApplied(request) \/ MarkApplied(request)

-----------------------------------------------------------------------------
(* Rows come from Proxy or from create_pending, which is not scoped, and   *)
(* end by decision, by the policy tier or by their time to live.           *)

CreateRow(id) ==
    /\ rows[id].status = "absent"
    /\ \/ rows' = [rows EXCEPT ![id].status = "pending"]
       \/ rows' = [rows EXCEPT ![id].status = "approved", ![id].by = System]
    /\ UNCHANGED <<sent, waiting, tries, seen, told, applied>>

ExpireRow(id) ==
    /\ rows[id].status = "pending"
    /\ rows' = [rows EXCEPT ![id].status = "expired"]
    /\ UNCHANGED <<sent, waiting, tries, seen, told, applied>>

Next ==
    \/ \E r \in Reviewers :
          \/ ReadRow(r) \/ StopWaiting(r)
          \/ \E id \in Rounds :
                \/ \E d \in Decisions : SendDecide(r, id, d)
                \/ \E mark \in Marks : SendMark(r, id, mark)
    \/ \E request \in sent : LoseRequest(request) \/ Handle(request)
    \/ \E id \in Rounds : CreateRow(id) \/ ExpireRow(id)

Spec == Init /\ [][Next]_vars

-----------------------------------------------------------------------------
(* Properties.                                                             *)

\* Tenants and demo visitors stay apart: nobody is shown a row of another
\* partition, and no request of theirs changes one, whichever of the calls
\* is used and however late it arrives (with_tenant, apply_tenant_scope).
TenantsStayApart ==
    /\ \A r \in Reviewers : \A id \in Rounds : seen[r][id] # None => Confined(r, id)
    /\ \A request \in applied : Confined(request.from, request.row)

\* A decided row names the person whose request decided it, and its approvals
\* are the people whose approvals were applied, once each, whatever was lost,
\* repeated or sent late: after a lost answer a reviewer can read the row and
\* know (HilDecideCredential, PendingRequest::approvals).
DecisionsNameTheirDeciders ==
    \A id \in Rounds :
        LET decisions == {request \in applied : request.row = id /\ request.op = "decide"}
            approvers == {request.from : request \in {d \in decisions : d.decision # "deny"}}
        IN  /\ rows[id].approvals = approvers
            /\ rows[id].status = "approved" /\ rows[id].by # System
                  => rows[id].by \in approvers /\ Cardinality(approvers) >= Required
            /\ rows[id].status = "denied"
                  => \E d \in decisions : d.from = rows[id].by /\ d.decision = "deny"

\* What decide reported stays true: an approval or a denial that a reviewer
\* was told of is never reversed, also not by an older request of the same
\* reviewer that arrives later, and a 409 means that the row is decided.
ToldIsSettled ==
    \A r \in Reviewers : \A id \in Rounds :
        /\ told[r][id] \in {"approved", "denied"} => rows[id].status = told[r][id]
        /\ told[r][id] = "409" => rows[id].status \in Decided
        /\ told[r][id] = "404" => ~Confined(r, id)

Standing(row) ==
    CASE row.status = "absent"  -> "none"
      [] row.status = "pending" -> "open"
      [] row.status = "approved" /\ row.modified -> "modified"
      [] row.status = "approved" -> "approved"
      [] OTHER -> "denied"

\* What ExactBinding builds on.
Abstract == INSTANCE ReviewRound WITH review <- [id \in Rounds |-> Standing(rows[id])]

\* Human review with all its people and retries implements the abstract
\* review: one decision, never undone (HIL answers 409 to any other).
ImplementsReviewRound == Abstract!ReviewSpec
==============================================================================
