-------------------------- MODULE ReviewQueueProofs --------------------------
(* Theorems about ReviewQueue, for every value of its constants. *)
EXTENDS ReviewQueue, FiniteSetTheorems, TLAPS

-----------------------------------------------------------------------------
(* What the actions have in common.                                        *)

\* Whatever credential a client presents, its reviewer is held responsible.
LEMMA StampIsReviewer ==
    ASSUME NEW r \in Reviewers
    PROVE  Stamp(r) = r
<1>1. r # None /\ Credential[r] \in {"session", "bearer", "demo", "disabled"}
  BY ReviewQueueAssumption
<1>2. CASE Credential[r] \in {"session", "demo"}
  BY <1>1, <1>2 DEF Stamp, Presented
<1>3. CASE Credential[r] = "bearer"
  BY <1>1, <1>3 DEF Stamp, Presented
<1>4. CASE Credential[r] = "disabled"
  BY <1>1, <1>4 DEF Stamp, Presented
<1> QED BY <1>1, <1>2, <1>3, <1>4

\* A read changes nothing but what its reader has seen, and shows only rows
\* of the reader's own partition.
LEMMA ReadFacts ==
    ASSUME TypeOK, NEW r \in Reviewers, ReadRow(r)
    PROVE  /\ UNCHANGED <<rows, sent, waiting, tries, told, applied>>
           /\ seen' \in [Reviewers -> [Rounds -> Statuses \cup {None}]]
           /\ \A v \in Reviewers, id \in Rounds :
                 seen'[v][id] \in {seen[v][id], None} \/ Confined(v, id)
<1> DEFINE own == {id \in Rounds : Confined(r, id)}
<1>1. PICK asked \in SUBSET Rounds, found \in SUBSET own : Shows(r, asked, found)
  <2>1. ASSUME NEW asked \in SUBSET Rounds, NEW found \in SUBSET own, Shows(r, asked, found)
        PROVE  \E a \in SUBSET Rounds, f \in SUBSET own : Shows(r, a, f)
    BY <2>1
  <2>2. CASE ListPending(r)
    <3> DEFINE found == {id \in Rounds : Reaches(r, id) /\ rows[id].status = "pending"}
    <3>1. Shows(r, Rounds, found) /\ found \subseteq own /\ Rounds \in SUBSET Rounds
      BY <2>2 DEF ListPending, Reaches
    <3> QED BY <3>1, <2>1
  <2>3. CASE ListAutoApproved(r)
    <3> DEFINE found == {id \in Rounds : Reaches(r, id) /\ rows[id].status = "approved"
                                                      /\ rows[id].by = System}
    <3>1. Shows(r, {}, found) /\ found \subseteq own /\ {} \in SUBSET Rounds
      BY <2>3 DEF ListAutoApproved, Reaches
    <3> QED BY <3>1, <2>1
  <2>4. ASSUME NEW id \in Rounds, GetPending(r, id)
        PROVE  \E a \in SUBSET Rounds, f \in SUBSET own : Shows(r, a, f)
    <3> DEFINE found == {i \in {id} : Reaches(r, i)}
    <3>1. Shows(r, {id}, found) /\ found \subseteq own /\ {id} \in SUBSET Rounds
      BY <2>4 DEF GetPending, Reaches
    <3> QED BY <3>1, <2>1
  <2>5. ASSUME NEW id \in Rounds, GetByCorrelation(r, id)
        PROVE  \E a \in SUBSET Rounds, f \in SUBSET own : Shows(r, a, f)
    <3> DEFINE found == {i \in {id} : Reaches(r, i) /\ rows[i].status \in Decided}
    <3>1. Shows(r, {id}, found) /\ found \subseteq own /\ {id} \in SUBSET Rounds
      BY <2>5 DEF GetByCorrelation, Reaches
    <3> QED BY <3>1, <2>1
  <2>6. ASSUME NEW id \in Rounds, StreamEvent(r, id) \/ VerifyLink(r, id)
        PROVE  \E a \in SUBSET Rounds, f \in SUBSET own : Shows(r, a, f)
    <3>1. Shows(r, {id}, {id}) /\ {id} \subseteq own /\ {id} \in SUBSET Rounds
      BY <2>6 DEF StreamEvent, VerifyLink, Reaches
    <3> QED BY <3>1, <2>1
  <2> HIDE DEF own
  <2> QED BY <2>2, <2>3, <2>4, <2>5, <2>6 DEF ReadRow
<1>2. rows \in [Rounds -> Row] /\ \A id \in Rounds : rows[id].status \in Statuses
  BY DEF TypeOK, Row
<1>3. /\ UNCHANGED <<rows, sent, waiting, tries, told, applied>>
      /\ seen' = [seen EXCEPT ![r] = [id \in Rounds |->
              IF id \in found THEN rows[id].status ELSE IF id \in asked THEN None ELSE seen[r][id]]]
  BY <1>1 DEF Shows
<1>4. seen \in [Reviewers -> [Rounds -> Statuses \cup {None}]]
  BY DEF TypeOK
<1>5. seen' \in [Reviewers -> [Rounds -> Statuses \cup {None}]]
  BY <1>2, <1>3, <1>4
<1>6. ASSUME NEW v \in Reviewers, NEW id \in Rounds
      PROVE  seen'[v][id] \in {seen[v][id], None} \/ Confined(v, id)
  BY <1>1, <1>3, <1>4
<1> QED BY <1>3, <1>5, <1>6

\* An answer ends its request, and changes only what its sender was told, and
\* only of a decision.
LEMMA AnswerFacts ==
    ASSUME TypeOK, NEW request \in sent, NEW outcome \in Outcomes, Answered(request, outcome)
    PROVE  /\ sent' \subseteq sent /\ UNCHANGED <<tries, seen>>
           /\ waiting' \in [Reviewers -> Request \cup {None}]
           /\ told' \in [Reviewers -> [Rounds -> Outcomes]]
           /\ \A v \in Reviewers, id \in Rounds :
                 \/ told'[v][id] = told[v][id]
                 \/ /\ v = request.from /\ id = request.row /\ request.op = "decide"
                    /\ told'[v][id] = outcome
<1>1. request \in Request /\ request.from \in Reviewers /\ request.row \in Rounds
  BY DEF TypeOK, Request
<1>2. /\ waiting \in [Reviewers -> Request \cup {None}]
      /\ told \in [Reviewers -> [Rounds -> Outcomes]]
  BY DEF TypeOK
<1>3. sent' \subseteq sent /\ UNCHANGED <<tries, seen>>
  BY DEF Answered
<1>4. CASE UNCHANGED <<waiting, told>>
  BY <1>2, <1>3, <1>4
<1>5. CASE /\ waiting' = [waiting EXCEPT ![request.from] = None]
           /\ told' = IF request.op = "decide"
                      THEN [told EXCEPT ![request.from][request.row] = outcome] ELSE told
  BY <1>1, <1>2, <1>3, <1>5
<1> QED BY <1>4, <1>5 DEF Answered

\* The row of a request, and what its sender is.
LEMMA RequestFacts ==
    ASSUME TypeOK, NEW request \in sent
    PROVE  /\ request \in Request /\ request.from \in Reviewers /\ request.row \in Rounds
           /\ request.op \in {"decide"} \cup Marks /\ request.decision \in Decisions \cup {None}
           /\ rows[request.row] \in Row
           /\ [request EXCEPT !.no = 0] \in Request
<1>1. request \in Request /\ 0 \in 0..MaxTries
  BY ReviewQueueAssumption DEF TypeOK
<1> QED BY <1>1 DEF Request, TypeOK

\* The row that a decision makes of a pending one.
LEMMA DecisionFacts ==
    ASSUME TypeOK, NEW request \in sent
    PROVE  LET old == rows[request.row]
               new == AfterDecision(request)
           IN  /\ new \in Row /\ new.tenant = old.tenant
               /\ \/ /\ request.decision = "deny" /\ new.status = "denied"
                     /\ new.by = request.from
                     /\ new.approvals = old.approvals /\ new.modified = old.modified
                  \/ /\ request.decision # "deny"
                     /\ new.approvals = old.approvals \cup {request.from}
                     /\ \/ /\ Cardinality(new.approvals) < Required
                           /\ new.status = old.status /\ new.by = old.by
                           /\ new.modified = old.modified
                        \/ /\ ~(Cardinality(new.approvals) < Required)
                           /\ new.status = "approved" /\ new.by = request.from
                           /\ new.modified = (request.decision = "modify")
<1> DEFINE old == rows[request.row]
           who == request.from
           approvals == old.approvals \cup {who}
<1>1. old \in Row /\ who \in Reviewers /\ Stamp(who) = who /\ who \in Stamps
  BY RequestFacts, StampIsReviewer DEF Stamps
<1>2. CASE request.decision = "deny"
  <2>1. AfterDecision(request) = [old EXCEPT !.status = "denied", !.by = who]
    BY <1>1, <1>2 DEF AfterDecision
  <2> HIDE DEF old, who
  <2> QED BY <1>1, <1>2, <2>1 DEF Row, Statuses, old, who
<1>3. CASE request.decision # "deny" /\ Cardinality(approvals) < Required
  <2>1. AfterDecision(request) = [old EXCEPT !.approvals = approvals]
    BY <1>1, <1>3 DEF AfterDecision
  <2>2. approvals \in SUBSET Stamps
    BY <1>1 DEF Row
  <2> QED BY <1>1, <1>3, <2>1, <2>2 DEF Row
<1>4. CASE request.decision # "deny" /\ ~(Cardinality(approvals) < Required)
  <2>1. AfterDecision(request) =
           [old EXCEPT !.status = "approved", !.by = who, !.approvals = approvals,
                       !.modified = request.decision = "modify"]
    BY <1>1, <1>4 DEF AfterDecision
  <2>2. approvals \in SUBSET Stamps
    BY <1>1 DEF Row
  <2> QED BY <1>1, <1>4, <2>1, <2>2 DEF Row, Statuses
<1> QED BY <1>2, <1>3, <1>4

-----------------------------------------------------------------------------
(* The inductive invariant.                                                *)

\* Only approved rows are modified, approvals can be counted, and requests are
\* about rows that exist.
RowsOK ==
    /\ \A id \in Rounds : /\ rows[id].status # "approved" => ~rows[id].modified
                          /\ IsFiniteSet(rows[id].approvals)
    /\ \A request \in sent : rows[request.row].status # "absent"

\* DecisionsNameTheirDeciders, of one row.
DecisionsOn(i) == {request \in applied : request.row = i /\ request.op = "decide"}
Approvers(i)   == {request.from : request \in {d \in DecisionsOn(i) : d.decision # "deny"}}
Attributed(i) ==
    /\ rows[i].approvals = Approvers(i)
    /\ rows[i].status = "approved" /\ rows[i].by # System
          => rows[i].by \in Approvers(i) /\ Cardinality(Approvers(i)) >= Required
    /\ rows[i].status = "denied"
          => \E d \in DecisionsOn(i) : d.from = rows[i].by /\ d.decision = "deny"

LEMMA Attribution == DecisionsNameTheirDeciders <=> \A i \in Rounds : Attributed(i)
  BY DEF DecisionsNameTheirDeciders, Attributed, Approvers, DecisionsOn

QueueInv == TypeOK /\ RowsOK /\ TenantsStayApart /\ DecisionsNameTheirDeciders /\ ToldIsSettled

LEMMA QueueInit == Init => QueueInv
<1> SUFFICES ASSUME Init PROVE QueueInv
  OBVIOUS
<1>1. \A id \in Rounds : \E t \in Tenants :
         rows[id] = [status |-> "absent", tenant |-> t, by |-> None, modified |-> FALSE,
                     approvals |-> {}]
  BY DEF Init
<1>2. TypeOK
  <2>1. \A t \in Tenants : [status |-> "absent", tenant |-> t, by |-> None, modified |-> FALSE,
                            approvals |-> {}] \in Row
    BY DEF Row, Statuses
  <2>2. rows \in [Rounds -> Row]
    BY <2>1 DEF Init
  <2> QED BY <2>2, ReviewQueueAssumption DEF Init, TypeOK, Outcomes
<1>3. RowsOK
  <2>1. IsFiniteSet({}) /\ sent = {}
    BY FS_EmptySet DEF Init
  <2>2. ASSUME NEW id \in Rounds
        PROVE  ~rows[id].modified /\ rows[id].approvals = {}
    <3>1. PICK t \in Tenants :
             rows[id] = [status |-> "absent", tenant |-> t, by |-> None, modified |-> FALSE,
                         approvals |-> {}]
      BY <1>1
    <3> QED BY <3>1
  <2> QED BY <2>1, <2>2 DEF RowsOK
<1>4. TenantsStayApart /\ ToldIsSettled
  BY DEF Init, TenantsStayApart, ToldIsSettled
<1>5. DecisionsNameTheirDeciders
  BY <1>1 DEF Init, DecisionsNameTheirDeciders
<1> QED BY <1>2, <1>3, <1>4, <1>5 DEF QueueInv

\* Steps that leave the rows alone and at most empty somebody's view or the
\* list of requests.
LEMMA QuietStep ==
    ASSUME QueueInv, UNCHANGED <<rows, applied, told>>, TypeOK',
           \A v \in Reviewers, id \in Rounds :
              seen'[v][id] \in {seen[v][id], None} \/ Confined(v, id),
           \A request \in sent' : request \in sent \/ rows[request.row].status # "absent"
    PROVE  QueueInv'
<1> USE DEF QueueInv
<1>1. RowsOK'
  BY DEF RowsOK
<1>2. TenantsStayApart'
  BY DEF TenantsStayApart, Confined
<1>3. DecisionsNameTheirDeciders'
  BY DEF DecisionsNameTheirDeciders
<1>4. ToldIsSettled'
  BY DEF ToldIsSettled, Confined
<1> QED BY <1>1, <1>2, <1>3, <1>4

\* Steps that only tell a reviewer how a decision was refused.
LEMMA RefusalStep ==
    ASSUME QueueInv, NEW request \in sent, RequestRefused(request)
    PROVE  QueueInv'
<1> USE DEF QueueInv
<1>1. PICK status \in {"404", "409", "422"} :
        /\ Refused(request, status)
        /\ status = "404" => ~Reaches(request.from, request.row)
        /\ status = "409" /\ request.op = "decide" =>
              /\ Reaches(request.from, request.row)
              /\ rows[request.row].status # "pending"
  BY DEF RequestRefused
<1>2. UNCHANGED <<rows, applied>> /\ Answered(request, status) /\ status \in Outcomes
  BY <1>1 DEF Refused, Outcomes
<1>3. TypeOK'
  BY <1>2, AnswerFacts DEF TypeOK
<1>4. RowsOK' /\ TenantsStayApart' /\ DecisionsNameTheirDeciders'
  <2>1. sent' \subseteq sent /\ UNCHANGED <<rows, applied, seen>>
    BY <1>2, AnswerFacts
  <2>2. RowsOK'
    BY <2>1 DEF RowsOK
  <2>3. TenantsStayApart'
    BY <2>1 DEF TenantsStayApart, Confined
  <2>4. DecisionsNameTheirDeciders'
    BY <2>1 DEF DecisionsNameTheirDeciders
  <2> QED BY <2>2, <2>3, <2>4
<1>5. ToldIsSettled'
  <2>1. /\ request.row \in Rounds /\ rows[request.row].status \in Statuses
        /\ rows[request.row].status # "absent"
    BY RequestFacts DEF RowsOK, Row
  <2>2. ASSUME NEW v \in Reviewers, NEW id \in Rounds
        PROVE  \/ told'[v][id] = told[v][id]
               \/ /\ told'[v][id] \in {"404", "409", "422"}
                  /\ told'[v][id] = "409" => rows[id].status \in Decided
                  /\ told'[v][id] = "404" => ~Confined(v, id)
    BY <1>1, <1>2, <2>1, AnswerFacts DEF Reaches, Statuses, Decided
  <2> QED BY <1>2, <2>2 DEF ToldIsSettled, Confined
<1> QED BY <1>3, <1>4, <1>5

\* What the first decision of a pending row brings about.
LEMMA DecisionStep ==
    ASSUME QueueInv, NEW request \in sent, DecisionApplied(request)
    PROVE  QueueInv'
<1> USE DEF QueueInv
<1> DEFINE id  == request.row
           who == request.from
           old == rows[id]
           new == AfterDecision(request)
           note == [request EXCEPT !.no = 0]
<1>1. /\ request.op = "decide" /\ Reaches(who, id) /\ old.status = "pending"
      /\ rows' = [rows EXCEPT ![id] = new] /\ applied' = applied \cup {note}
      /\ Answered(request, new.status)
  BY DEF DecisionApplied, Changed, OutcomeOf
<1>2. /\ id \in Rounds /\ who \in Reviewers /\ who # None /\ note \in Request
      /\ note.from = who /\ note.row = id /\ note.op = "decide"
      /\ note.decision = request.decision /\ old \in Row
  <2>1. /\ request \in Request /\ note \in Request /\ id \in Rounds /\ who \in Reviewers
        /\ old \in Row /\ who # None
    BY RequestFacts, ReviewQueueAssumption
  <2> QED BY <2>1, <1>1 DEF Request
<1>3. /\ new \in Row /\ new.tenant = old.tenant
      /\ \/ /\ note.decision = "deny" /\ new.status = "denied" /\ new.by = who
            /\ new.approvals = old.approvals /\ new.modified = old.modified
         \/ /\ note.decision # "deny" /\ new.approvals = old.approvals \cup {who}
            /\ \/ /\ new.status = "pending" /\ new.modified = old.modified
               \/ /\ ~(Cardinality(new.approvals) < Required)
                  /\ new.status = "approved" /\ new.by = who
  BY <1>1, <1>2, DecisionFacts
<1>4. /\ rows \in [Rounds -> Row] /\ rows'[id] = new
      /\ \A i \in Rounds : i # id => rows'[i] = rows[i]
      /\ \A i \in Rounds : rows'[i].tenant = rows[i].tenant
  BY <1>1, <1>2, <1>3 DEF TypeOK
<1>5. new.status \in Outcomes
  BY <1>3 DEF Outcomes, Statuses
<1> HIDE DEF new, old, note, id, who
<1>6. /\ sent' \subseteq sent /\ UNCHANGED <<tries, seen>>
      /\ waiting' \in [Reviewers -> Request \cup {None}]
      /\ told' \in [Reviewers -> [Rounds -> Outcomes]]
      /\ \A v \in Reviewers, i \in Rounds :
            \/ told'[v][i] = told[v][i]
            \/ i = id /\ told'[v][i] = new.status
  BY <1>1, <1>5, AnswerFacts DEF id
<1>7. TypeOK'
  BY <1>1, <1>2, <1>3, <1>6 DEF TypeOK
<1>8. RowsOK'
  <2>1. IsFiniteSet(old.approvals) /\ ~old.modified
    BY <1>1, <1>2 DEF RowsOK, old
  <2>2. IsFiniteSet(new.approvals)
    BY <1>3, <2>1, FS_AddElement
  <2>3. new.status # "approved" => ~new.modified
    BY <1>3, <2>1
  <2>4. \A i \in Rounds : rows'[i].status # "absent" \/ rows[i].status = "absent"
    BY <1>3, <1>4
  <2>5. \A r \in sent : r.row \in Rounds
    BY RequestFacts
  <2> QED BY <1>4, <1>6, <2>2, <2>3, <2>4, <2>5 DEF RowsOK
<1>9. TenantsStayApart'
  <2>1. \A v \in Reviewers, i \in Rounds : Confined(v, i)' <=> Confined(v, i)
    BY <1>4 DEF Confined
  <2>2. Confined(note.from, note.row)
    BY <1>1, <1>2 DEF Reaches
  <2>3. \A r \in applied : r.from \in Reviewers /\ r.row \in Rounds
    BY DEF TypeOK, Request
  <2> QED BY <1>1, <1>2, <1>6, <2>1, <2>2, <2>3 DEF TenantsStayApart
<1>10. DecisionsNameTheirDeciders'
  <2>1. ASSUME NEW i \in Rounds, i # id
        PROVE  Attributed(i)'
    <3>1. DecisionsOn(i)' = DecisionsOn(i)
      BY <1>1, <1>2, <2>1 DEF DecisionsOn
    <3>2. Approvers(i)' = Approvers(i) /\ rows'[i] = rows[i]
      BY <3>1, <2>1, <1>4 DEF Approvers
    <3> QED BY <3>1, <3>2, Attribution DEF Attributed
  <2>2. DecisionsOn(id)' = DecisionsOn(id) \cup {note}
    BY <1>1, <1>2 DEF DecisionsOn
  <2>3. /\ note.decision = "deny" => Approvers(id)' = Approvers(id)
        /\ note.decision # "deny" => Approvers(id)' = Approvers(id) \cup {who}
    <3>1. CASE note.decision = "deny"
      BY <2>2, <3>1 DEF Approvers
    <3>2. CASE note.decision # "deny"
      <4>1. {d \in DecisionsOn(id)' : d.decision # "deny"}
               = {d \in DecisionsOn(id) : d.decision # "deny"} \cup {note}
        BY <2>2, <3>2
      <4> QED BY <4>1, <3>2, <1>2 DEF Approvers
    <3> QED BY <3>1, <3>2
  <2>4. old.approvals = Approvers(id)
    BY <1>2, Attribution DEF Attributed, old
  <2>5. new.approvals = Approvers(id)'
    BY <1>3, <2>3, <2>4
  <2>6. new.status = "approved"
           => new.by \in Approvers(id)' /\ Cardinality(Approvers(id)') >= Required
    <3>1. IsFiniteSet(new.approvals)
      BY <1>2, <1>4, <1>8 DEF RowsOK
    <3>2. Cardinality(new.approvals) \in Nat /\ Required \in Nat
      BY <3>1, FS_CardinalityType, ReviewQueueAssumption
    <3> QED BY <1>3, <2>5, <3>2
  <2>7. new.status = "denied" => \E d \in DecisionsOn(id)' : d.from = new.by /\ d.decision = "deny"
    BY <1>2, <1>3, <2>2
  <2>8. Attributed(id)'
    <3>1. rows'[id] = new
      BY <1>4
    <3> QED BY <3>1, <2>5, <2>6, <2>7 DEF Attributed
  <2>9. \A i \in Rounds : Attributed(i)'
    BY <2>1, <2>8
  <2> QED BY <2>9 DEF DecisionsNameTheirDeciders, Attributed, Approvers, DecisionsOn
<1>11. ToldIsSettled'
  <2>1. new.status \in {"pending", "approved", "denied"}
    BY <1>3
  <2>2. ASSUME NEW v \in Reviewers, NEW i \in Rounds
        PROVE  /\ told'[v][i] \in {"approved", "denied"} => rows'[i].status = told'[v][i]
               /\ told'[v][i] = "409" => rows'[i].status \in Decided
               /\ told'[v][i] = "404" => ~Confined(v, i)'
    <3>1. /\ told[v][i] \in {"approved", "denied"} => rows[i].status = told[v][i]
          /\ told[v][i] = "409" => rows[i].status \in Decided
          /\ told[v][i] = "404" => ~Confined(v, i)
      BY DEF ToldIsSettled
    <3>2. CASE i = id
      <4>1. told[v][i] \notin {"approved", "denied", "409"}
        BY <3>1, <3>2, <1>1 DEF Decided, old
      <4> QED BY <3>1, <3>2, <4>1, <1>4, <1>6, <2>1 DEF Confined
    <3>3. CASE i # id
      BY <3>1, <3>3, <1>4, <1>6 DEF Confined
    <3> QED BY <3>2, <3>3
  <2> QED BY <2>2 DEF ToldIsSettled
<1> QED BY <1>7, <1>8, <1>9, <1>10, <1>11

\* A mark changes nothing that the invariant speaks of.
LEMMA MarkStep ==
    ASSUME QueueInv, NEW request \in sent, MarkApplied(request)
    PROVE  QueueInv'
<1> USE DEF QueueInv
<1> DEFINE note == [request EXCEPT !.no = 0]
<1>1. /\ request.op # "decide" /\ Reaches(request.from, request.row)
      /\ rows' = rows /\ applied' = applied \cup {note}
      /\ Answered(request, rows[request.row].status)
  BY DEF MarkApplied, Marks, Changed, OutcomeOf, TypeOK
<1>2. /\ note \in Request /\ rows[request.row].status \in Outcomes
      /\ note.from = request.from /\ note.row = request.row /\ note.op # "decide"
  BY <1>1, RequestFacts DEF Row, Outcomes, Request
<1>3. sent' \subseteq sent /\ UNCHANGED <<tries, seen, told>>
  <2>1. UNCHANGED told
    BY <1>1, RequestFacts DEF Answered
  <2> QED BY <2>1, <1>1, <1>2, AnswerFacts
<1>4. TypeOK'
  BY <1>1, <1>2, <1>3, AnswerFacts DEF TypeOK
<1>5. RowsOK' /\ ToldIsSettled'
  BY <1>1, <1>3 DEF RowsOK, ToldIsSettled, Confined
<1>6. TenantsStayApart'
  BY <1>1, <1>2, <1>3 DEF TenantsStayApart, Confined, Reaches
<1>7. DecisionsNameTheirDeciders'
  <2>1. ASSUME NEW i \in Rounds
        PROVE  Attributed(i)'
    <3>1. DecisionsOn(i)' = DecisionsOn(i)
      BY <1>1, <1>2 DEF DecisionsOn
    <3>2. Approvers(i)' = Approvers(i)
      BY <3>1 DEF Approvers
    <3> QED BY <1>1, <3>1, <3>2, Attribution DEF Attributed
  <2> QED BY <2>1 DEF DecisionsNameTheirDeciders, Attributed, Approvers, DecisionsOn
<1> QED BY <1>4, <1>5, <1>6, <1>7

\* Rows come and expire.
LEMMA RowStep ==
    ASSUME QueueInv, NEW id \in Rounds, CreateRow(id) \/ ExpireRow(id)
    PROVE  QueueInv'
<1> USE DEF QueueInv
<1> DEFINE old == rows[id]
           new == rows'[id]
<1>1. UNCHANGED <<sent, waiting, tries, seen, told, applied>>
  BY DEF CreateRow, ExpireRow
<1>2. /\ rows \in [Rounds -> Row] /\ old \in Row
      /\ rows' \in [Rounds -> Row] /\ \A i \in Rounds : i # id => rows'[i] = rows[i]
      /\ new.tenant = old.tenant /\ new.approvals = old.approvals /\ new.modified = old.modified
      /\ \/ old.status = "absent" /\ new.status = "pending"
         \/ old.status = "absent" /\ new.status = "approved" /\ new.by = System
         \/ old.status = "pending" /\ new.status = "expired"
  <2>1. rows \in [Rounds -> Row] /\ old \in Row /\ System \in Stamps
    BY DEF TypeOK, Stamps
  <2>2. CASE CreateRow(id) /\ rows' = [rows EXCEPT ![id].status = "pending"]
    BY <2>1, <2>2 DEF CreateRow, Row, Statuses
  <2>3. CASE CreateRow(id) /\ rows' = [rows EXCEPT ![id].status = "approved", ![id].by = System]
    <3>1. rows' = [rows EXCEPT ![id] = [old EXCEPT !.status = "approved", !.by = System]]
      BY <2>3
    <3>2. [old EXCEPT !.status = "approved", !.by = System] \in Row
      BY <2>1 DEF Row, Statuses
    <3> QED BY <2>1, <2>3, <3>1, <3>2 DEF CreateRow, Row
  <2>4. CASE ExpireRow(id)
    BY <2>1, <2>4 DEF ExpireRow, Row, Statuses
  <2> QED BY <2>2, <2>3, <2>4 DEF CreateRow
<1> HIDE DEF old, new
<1>3. /\ new = rows'[id] /\ old = rows[id]
      /\ \A i \in Rounds : rows'[i].tenant = rows[i].tenant
  BY <1>2 DEF old, new
<1>4. TypeOK'
  BY <1>1, <1>2 DEF TypeOK
<1>5. RowsOK'
  <2>1. \A i \in Rounds : /\ rows'[i].status # "approved" => ~rows'[i].modified
                          /\ IsFiniteSet(rows'[i].approvals)
                          /\ rows'[i].status # "absent" \/ rows[i].status = "absent"
    BY <1>2, <1>3 DEF RowsOK
  <2>2. \A r \in sent : r.row \in Rounds
    BY RequestFacts
  <2> QED BY <1>1, <2>1, <2>2 DEF RowsOK
<1>6. TenantsStayApart'
  <2>1. \A v \in Reviewers, i \in Rounds : Confined(v, i)' <=> Confined(v, i)
    BY <1>3 DEF Confined
  <2>2. \A r \in applied : r.from \in Reviewers /\ r.row \in Rounds
    BY DEF TypeOK, Request
  <2> QED BY <1>1, <2>1, <2>2 DEF TenantsStayApart
<1>7. DecisionsNameTheirDeciders'
  <2>1. ASSUME NEW i \in Rounds
        PROVE  Attributed(i)'
    <3>1. DecisionsOn(i)' = DecisionsOn(i) /\ Approvers(i)' = Approvers(i)
      BY <1>1 DEF DecisionsOn, Approvers
    <3> QED BY <1>2, <1>3, <3>1, Attribution DEF Attributed
  <2> QED BY <2>1 DEF DecisionsNameTheirDeciders, Attributed, Approvers, DecisionsOn
<1>8. ToldIsSettled'
  BY <1>1, <1>2, <1>3 DEF ToldIsSettled, Confined, Decided
<1> QED BY <1>4, <1>5, <1>6, <1>7, <1>8

LEMMA QueueStep ==
    ASSUME QueueInv, [Next]_vars
    PROVE  QueueInv'
<1> USE DEF QueueInv
<1>1. ASSUME NEW r \in Reviewers, ReadRow(r)
      PROVE  QueueInv'
  <2>1. TypeOK'
    BY <1>1, ReadFacts DEF TypeOK
  <2> QED BY <1>1, <2>1, ReadFacts, QuietStep
<1>2. ASSUME NEW r \in Reviewers, StopWaiting(r)
      PROVE  QueueInv'
  <2>1. TypeOK'
    BY <1>2 DEF StopWaiting, TypeOK
  <2>2. UNCHANGED <<rows, applied, told, seen, sent>>
    BY <1>2 DEF StopWaiting
  <2> QED BY <2>1, <2>2, QuietStep
<1>3. ASSUME NEW r \in Reviewers, NEW id \in Rounds, NEW op \in {"decide"} \cup Marks,
             NEW decision \in Decisions \cup {None}, SendRequest(r, id, op, decision)
      PROVE  QueueInv'
  <2>1. PICK n \in 0..MaxTries :
           LET request == [no |-> n, from |-> r, row |-> id, op |-> op, decision |-> decision]
           IN  waiting' = [waiting EXCEPT ![r] = request] /\ sent' = sent \cup {request}
    BY <1>3 DEF SendRequest
  <2> DEFINE request == [no |-> n, from |-> r, row |-> id, op |-> op, decision |-> decision]
  <2>2. request \in Request
    BY DEF Request
  <2>3. /\ UNCHANGED <<rows, applied, told, seen>> /\ tries' \in 0..MaxTries
        /\ rows[id].status # "absent" /\ request.row = id
    BY <1>3, ReviewQueueAssumption DEF SendRequest, TypeOK
  <2>4. waiting' = [waiting EXCEPT ![r] = request] /\ sent' = sent \cup {request}
    BY <2>1
  <2> HIDE DEF request
  <2>5. TypeOK'
    BY <2>2, <2>3, <2>4 DEF TypeOK
  <2> QED BY <2>3, <2>4, <2>5, QuietStep
<1>4. ASSUME NEW request \in sent, LoseRequest(request)
      PROVE  QueueInv'
  <2>1. TypeOK' /\ sent' \subseteq sent /\ UNCHANGED <<rows, applied, told, seen>>
    BY <1>4 DEF LoseRequest, TypeOK
  <2> QED BY <2>1, QuietStep
<1>5. CASE UNCHANGED vars
  <2>1. TypeOK' /\ UNCHANGED <<rows, applied, told, seen, sent>>
    BY <1>5 DEF vars, TypeOK
  <2> QED BY <2>1, QuietStep
<1>6. ASSUME NEW r \in Reviewers, NEW id \in Rounds, NEW d \in Decisions, SendDecide(r, id, d)
      PROVE  QueueInv'
  BY <1>3, <1>6 DEF SendDecide
<1>7. ASSUME NEW r \in Reviewers, NEW id \in Rounds, NEW mark \in Marks, SendMark(r, id, mark)
      PROVE  QueueInv'
  BY <1>3, <1>7 DEF SendMark
<1> HIDE DEF QueueInv
<1> QED BY <1>1, <1>2, <1>4, <1>5, <1>6, <1>7, RefusalStep, DecisionStep, MarkStep, RowStep
        DEF Next, Handle

\* The inductive invariant holds throughout.
THEOREM QueueInvariant == Spec => []QueueInv
  BY QueueInit, QueueStep, PTL DEF Spec

-----------------------------------------------------------------------------
(* The theorems.                                                           *)

\* Rows, requests and what reviewers hold have their types.
THEOREM TypeCorrect == Spec => []TypeOK
  BY QueueInvariant, PTL DEF QueueInv

\* Nobody is shown, and nobody changes, a row of another tenant or demo
\* prefix (with_tenant, apply_tenant_scope and the demo cookie).
THEOREM ApartTheorem == Spec => []TenantsStayApart
  BY QueueInvariant, PTL DEF QueueInv

\* A decided row names who decided it and its approvals are those that were
\* given (decide, HilDecideCredential), however many requests were lost or late.
THEOREM AttributionTheorem == Spec => []DecisionsNameTheirDeciders
  BY QueueInvariant, PTL DEF QueueInv

\* What decide has reported is never reversed.
THEOREM SettledTheorem == Spec => []ToldIsSettled
  BY QueueInvariant, PTL DEF QueueInv

\* A step of the queue opens or decides at most one round.
LEMMA ReviewStep ==
    ASSUME QueueInv, [Next]_vars
    PROVE  LET review == [id \in Rounds |-> Standing(rows[id])]
           IN  (\E n \in Rounds : Abstract!Open(n) \/ Abstract!Decide(n)) \/ UNCHANGED review
<1> USE DEF QueueInv
<1>1. CASE UNCHANGED rows
  BY <1>1
<1>2. ASSUME NEW id \in Rounds, NEW row \in Row, rows' = [rows EXCEPT ![id] = row],
             \/ /\ Standing(rows[id]) = "none"
                /\ Standing(row) \in {"open", "approved"}
             \/ /\ Standing(rows[id]) = "open"
                /\ Standing(row) \in {"open", "approved", "modified", "denied"}
      PROVE  \/ Abstract!Open(id) \/ Abstract!Decide(id)
             \/ UNCHANGED [i \in Rounds |-> Standing(rows[i])]
  <2> DEFINE before == [i \in Rounds |-> Standing(rows[i])]
             after  == [i \in Rounds |-> Standing(rows'[i])]
  <2>1. rows \in [Rounds -> Row]
    BY DEF TypeOK
  <2>2. after = [before EXCEPT ![id] = Standing(row)]
    BY <1>2, <2>1
  <2>3. before[id] = Standing(rows[id])
    OBVIOUS
  <2>4. CASE Standing(rows[id]) = "none"
    BY <1>2, <2>2, <2>3, <2>4 DEF Abstract!Open
  <2>5. CASE Standing(rows[id]) = "open" /\ Standing(row) = "open"
    BY <2>2, <2>3, <2>5
  <2>6. CASE Standing(rows[id]) = "open" /\ Standing(row) # "open"
    BY <1>2, <2>2, <2>3, <2>6 DEF Abstract!Decide
  <2> QED BY <1>2, <2>4, <2>5, <2>6
<1>3. ASSUME NEW id \in Rounds, CreateRow(id) \/ ExpireRow(id)
      PROVE  \E row \in Row :
                /\ rows' = [rows EXCEPT ![id] = row]
                /\ \/ Standing(rows[id]) = "none" /\ Standing(row) \in {"open", "approved"}
                   \/ Standing(rows[id]) = "open" /\ Standing(row) = "denied"
  <2>1. rows[id] \in Row /\ System \in Stamps /\ (rows[id].status # "approved" => ~rows[id].modified)
    BY DEF TypeOK, Stamps, RowsOK
  <2>2. CASE CreateRow(id) /\ rows' = [rows EXCEPT ![id].status = "pending"]
    <3> DEFINE row == [rows[id] EXCEPT !.status = "pending"]
    <3>1. row \in Row /\ rows' = [rows EXCEPT ![id] = row] /\ row.status = "pending"
      BY <2>1, <2>2 DEF Row, Statuses
    <3> QED BY <2>1, <2>2, <3>1 DEF CreateRow, Standing
  <2>3. CASE CreateRow(id) /\ rows' = [rows EXCEPT ![id].status = "approved", ![id].by = System]
    <3> DEFINE row == [rows[id] EXCEPT !.status = "approved", !.by = System]
    <3>1. /\ row \in Row /\ rows' = [rows EXCEPT ![id] = row] /\ row.status = "approved"
          /\ ~row.modified
      BY <2>1, <2>3 DEF CreateRow, Row, Statuses
    <3> QED BY <2>1, <2>3, <3>1 DEF CreateRow, Standing
  <2>4. CASE ExpireRow(id)
    <3> DEFINE row == [rows[id] EXCEPT !.status = "expired"]
    <3>1. row \in Row /\ rows' = [rows EXCEPT ![id] = row] /\ row.status = "expired"
      BY <2>1, <2>4 DEF ExpireRow, Row, Statuses
    <3> QED BY <2>1, <2>4, <3>1 DEF ExpireRow, Standing
  <2> QED BY <1>3, <2>2, <2>3, <2>4 DEF CreateRow
<1>4. ASSUME NEW request \in sent, DecisionApplied(request)
      PROVE  \E id \in Rounds, row \in Row :
                /\ rows' = [rows EXCEPT ![id] = row]
                /\ Standing(rows[id]) = "open"
                /\ Standing(row) \in {"open", "approved", "modified", "denied"}
  <2> DEFINE id  == request.row
             row == AfterDecision(request)
  <2>1. /\ id \in Rounds /\ row \in Row /\ rows' = [rows EXCEPT ![id] = row]
        /\ rows[id].status = "pending" /\ row.status \in {"pending", "approved", "denied"}
    BY <1>4, RequestFacts, DecisionFacts DEF DecisionApplied, Changed
  <2> HIDE DEF row
  <2>2. Standing(rows[id]) = "open" /\ Standing(row) \in {"open", "approved", "modified", "denied"}
    BY <2>1 DEF Standing
  <2> QED BY <2>1, <2>2
<1>5. CASE \E r \in Reviewers : ReadRow(r) \/ StopWaiting(r) \/ \E id \in Rounds :
              (\E d \in Decisions : SendDecide(r, id, d)) \/ (\E mark \in Marks : SendMark(r, id, mark))
  <2>1. UNCHANGED rows
    BY <1>5, ReadFacts DEF StopWaiting, SendDecide, SendMark, SendRequest
  <2> QED BY <2>1, <1>1
<1>6. ASSUME NEW request \in sent,
             LoseRequest(request) \/ RequestRefused(request) \/ MarkApplied(request)
      PROVE  UNCHANGED rows
  <2>1. rows \in [Rounds -> Row]
    BY DEF TypeOK
  <2> QED BY <1>6, <2>1 DEF LoseRequest, RequestRefused, Refused, MarkApplied, Changed
<1> HIDE DEF QueueInv
<1>7. CASE \E id \in Rounds : CreateRow(id) \/ ExpireRow(id)
  BY <1>2, <1>3, <1>7
<1>8. CASE \E request \in sent : LoseRequest(request) \/ Handle(request)
  BY <1>1, <1>2, <1>4, <1>6, <1>8 DEF Handle
<1> QED BY <1>1, <1>5, <1>7, <1>8 DEF Next, vars

\* Human review, with its people, retries and quorums, implements the review
\* rounds on which exact binding rests.
THEOREM Refinement == Spec => ImplementsReviewRound
<1>1. Init => Abstract!ReviewInit
  BY DEF Init, Abstract!ReviewInit, Standing
<1> QED BY <1>1, ReviewStep, QueueInvariant, PTL
        DEF Spec, ImplementsReviewRound, Abstract!ReviewSpec

==============================================================================
