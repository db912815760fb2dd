---------------------------- MODULE AgentRegistry ----------------------------
(***************************************************************************)
(* The agent registry, used by several operators at once: agents.rs        *)
(* without the tenant lifecycle, which is TenantLifecycle's.               *)
(*                                                                         *)
(* Operators look agents up, create them if absent, compare an existing    *)
(* record with what they want, move it through its states and replace its  *)
(* envelopes, attestation kinds, team and description.  A request carries  *)
(* no version: what its author read may be old when it arrives, and it may *)
(* be lost, or arrive after its author gave up, or be applied without its  *)
(* answer.  The identity service is modelled as the client describes it.   *)
(***************************************************************************)
EXTENDS Naturals, Sequences, SequencesExt

CONSTANTS
    Operators,
    Names,          \* agent names of one tenant
    Wants,          \* agents that operators ask for: CreateAgentRequest
    Entries,        \* entries of envelopes
    Kinds,          \* attestation kinds
    Teams,
    Budgets,        \* monthly budgets of the tenant, in micro-USD
    MaxTries,       \* mutations that are sent in all (bound)
    Absent

States == {"active", "suspended", "decommissioned"}

\* AgentRecord: the server keeps envelopes and kinds as sorted sets.  The
\* remark stands for the description, the certification and the containment
\* flag, which no comparison reads.
Record == [state : States, team : Teams, scope : SUBSET Entries, yellow : SUBSET Entries,
           kinds : SUBSET Kinds, remark : BOOLEAN]

Verbs == {"create", "suspend", "unsuspend", "decommission", "narrow", "widen", "attestation-kinds",
          "owner-team", "remark", "budget"}

\* The body that goes with a verb: the calls that only name an agent have none.
Bodies(verb) ==
    CASE verb = "create"             -> Wants
      [] verb \in {"narrow", "widen"} -> [scope : SUBSET Entries, yellow : SUBSET Entries,
                                         narrows : BOOLEAN]
      [] verb = "attestation-kinds"  -> SUBSET Kinds
      [] verb = "owner-team"         -> Teams
      [] verb = "budget"             -> Budgets
      [] OTHER                       -> {Absent}

Mutations(verb) ==
    [no : Nat, from : Operators, name : Names, verb : {verb}, body : Bodies(verb)]

\* An absent record, or request, is none.
RegistryShapes ==
    /\ Wants \subseteq [team : Teams, scope : Seq(Entries), yellow : Seq(Entries), kinds : Seq(Kinds)]
    /\ Budgets \subseteq Nat
    /\ MaxTries \in Nat
    /\ Absent \notin Record
    /\ \A verb \in Verbs : Absent \notin Mutations(verb)

ASSUME AgentRegistryAssumption == RegistryShapes

VARIABLES
    rows,           \* identity: the record of each name, if there is one
    budget,         \* identity: the budget of the tenant, if one is set
    sent,           \* mutations under way to identity
    waiting,        \* each operator: the mutation whose answer is awaited, if any
    tries,          \* mutations sent so far
    known,          \* each operator: the record last read of a name, if any
    told,           \* each operator: the last answer about a wanted agent
    past            \* history: the records that each name has had

registryVars == <<rows, budget, sent, waiting, tries, known, told, past>>

Answers == {"nothing", "created", "in place", "differs", "taken"}

Nothing == [answer |-> "nothing"]

\* Type correctness of records, requests and what operators hold.
RegistryTypeOK ==
    /\ rows \in [Names -> Record \cup {Absent}]
    /\ budget \in Budgets \cup {Absent}
    /\ \A request \in sent : request.verb \in Verbs /\ request \in Mutations(request.verb)
    /\ DOMAIN waiting = Operators
    /\ \A o \in Operators : waiting[o] # Absent => waiting[o].from = o
    /\ tries \in 0..MaxTries
    /\ known \in [Operators -> [Names -> Record \cup {Absent}]]
    /\ told \in [Operators -> [Names -> {Nothing} \cup [answer : Answers, want : Wants, free : BOOLEAN]]]
    /\ past \in [Names -> SUBSET Record]

RegistryInit ==
    /\ rows = [n \in Names |-> Absent]
    /\ budget = Absent
    /\ sent = {}
    /\ waiting = [o \in Operators |-> Absent]
    /\ tries = 0
    /\ known = [o \in Operators |-> [n \in Names |-> Absent]]
    /\ told = [o \in Operators |-> [n \in Names |-> Nothing]]
    /\ past = [n \in Names |-> {}]

-----------------------------------------------------------------------------
(* What create_request_matches compares.                                   *)

\* Faulty variant: duplicates are not removed.
Same_Duplicates(list, set) == ToSet(list) = set /\ Len(list) = Cardinality(set)

\* same_set, of a list of the request and the sorted list of the record.
Same(list, set) == ToSet(list) = set

\* create_request_matches; the name is equal already, and neither the state
\* nor the description is compared.
Matches(want, record) ==
    /\ want.team = record.team
    /\ Same(want.scope, record.scope)
    /\ Same(want.yellow, record.yellow)
    /\ Same(want.kinds, record.kinds)

\* The record that a create request lands.
Landed(want) ==
    [state |-> "active", team |-> want.team, scope |-> ToSet(want.scope),
     yellow |-> ToSet(want.yellow), kinds |-> ToSet(want.kinds),
     remark |-> FALSE]

-----------------------------------------------------------------------------
(* Reads.                                                                  *)

\* Faulty variant: the list is filtered by the active state.
FindByName_Active(n) == IF rows[n] # Absent /\ rows[n].state = "active" THEN rows[n] ELSE Absent

\* find_by_name: list without a filter, so in every state.
FindByName(n) == rows[n]

Reads(o, n) ==
    /\ known' = [known EXCEPT ![o][n] = rows[n]]
    /\ UNCHANGED <<rows, budget, sent, waiting, tries, told, past>>

\* list, with an optional state and team.
List(o, n) ==
    \E states \in {States} \cup {{s} : s \in States}, teams \in {Teams} \cup {{t} : t \in Teams} :
        /\ rows[n] # Absent /\ rows[n].state \in states /\ rows[n].team \in teams
        /\ Reads(o, n)

\* get, with its 404 for a record that does not exist.
Get(o, n) == Reads(o, n)

-----------------------------------------------------------------------------
(* Mutations.                                                              *)

SendMutation(o, n, verb, body) ==
    LET request == [no |-> tries, from |-> o, name |-> n, verb |-> verb, body |-> body]
    IN  /\ waiting[o] = Absent
        /\ tries < MaxTries
        /\ sent' = sent \cup {request}
        /\ waiting' = [waiting EXCEPT ![o] = request]
        /\ tries' = tries + 1
        /\ UNCHANGED <<rows, budget, past>>

\* agents create --if-absent: a record that is found is compared, and only an
\* absent one is created.  "free" notes whether the name was free at the time.
CreateIfAbsent(o, n, want) ==
    LET found     == FindByName(n)
        hears(a)  == told' = [told EXCEPT ![o][n] = [answer |-> a, want |-> want, free |-> rows[n] = Absent]]
    IN  /\ waiting[o] = Absent
        /\ known' = [known EXCEPT ![o][n] = found]
        /\ \/ /\ found = Absent
              /\ hears("nothing")
              /\ SendMutation(o, n, "create", want)
           \/ /\ found # Absent
              /\ hears(IF Matches(want, found) THEN "in place" ELSE "differs")
              /\ UNCHANGED <<rows, budget, sent, waiting, tries, past>>

\* suspend, unsuspend, decommission, clear_containment, record_certification
\* and set_description, of an agent that was read.
Act(o, n) ==
    /\ known[o][n] # Absent
    /\ \E verb \in {"suspend", "unsuspend", "decommission", "remark"} :
          SendMutation(o, n, verb, Absent)
    /\ UNCHANGED <<known, told>>

\* envelope_narrow and envelope_widen: the full new envelope, computed from
\* the record that was read.
Reshape(o, n) ==
    /\ known[o][n] # Absent
    /\ LET old == known[o][n]
       IN  \/ \E scope \in SUBSET old.scope, yellow \in SUBSET old.yellow :
                 SendMutation(o, n, "narrow", [scope |-> scope, yellow |-> yellow, narrows |-> TRUE])
           \/ \E e \in Entries :
                 SendMutation(o, n, "widen", [scope |-> old.scope \cup {e}, yellow |-> old.yellow,
                                      narrows |-> FALSE])
    /\ UNCHANGED <<known, told>>

\* attestation_kinds and transfer_owner_team.
Assign(o, n) ==
    /\ known[o][n] # Absent
    /\ \/ \E kinds \in SUBSET Kinds : SendMutation(o, n, "attestation-kinds", kinds)
       \/ \E team \in Teams : SendMutation(o, n, "owner-team", team)
    /\ UNCHANGED <<known, told>>

\* set_budget.
SetBudget(o, n) ==
    /\ \E micros \in Budgets : SendMutation(o, n, "budget", micros)
    /\ UNCHANGED <<known, told>>

\* The call fails or times out; its request may still arrive.
StopWaiting(o) ==
    /\ waiting[o] # Absent
    /\ waiting' = [waiting EXCEPT ![o] = Absent]
    /\ UNCHANGED <<rows, budget, sent, tries, known, told, past>>

LoseRequest(request) ==
    /\ sent' = sent \ {request}
    /\ UNCHANGED <<rows, budget, waiting, tries, known, told, past>>

-----------------------------------------------------------------------------
(* The identity service.                                                   *)

\* The answer, with the record after it, arrives if it is still awaited.
Answered(request, answer) ==
    LET o == request.from n == request.name
    IN  /\ sent' = sent \ {request}
        /\ IF waiting[o] = request
           THEN /\ waiting' = [waiting EXCEPT ![o] = Absent]
                /\ known' = [known EXCEPT ![o][n] = rows'[n]]
                /\ told' = IF answer = "nothing" THEN told ELSE [told EXCEPT ![o][n].answer = answer]
           ELSE UNCHANGED <<waiting, known, told>>
        /\ UNCHANGED tries

Becomes(request, record, answer) ==
    /\ rows' = [rows EXCEPT ![request.name] = record]
    /\ past' = [past EXCEPT ![request.name] = @ \cup {record}]
    /\ UNCHANGED budget
    /\ Answered(request, answer)

\* A create lands unless the name was ever taken.
Create(request) ==
    /\ request.verb = "create"
    /\ rows[request.name] = Absent
    /\ Becomes(request, Landed(request.body), "created")

\* EnvelopeRequest carries the full new envelope, which is compared with the
\* current record and refused if it goes the other way.
RightDirection(record, request) ==
    LET body == request.body
    IN  IF request.verb = "narrow"
        THEN body.scope \subseteq record.scope /\ body.yellow \subseteq record.yellow
        ELSE record.scope \subseteq body.scope /\ record.yellow \subseteq body.yellow

\* Which record a mutation makes of a live one.
Mutated(record, request) ==
    LET body == request.body
    IN  CASE request.verb = "suspend" /\ record.state = "active" ->
                 {[record EXCEPT !.state = "suspended"]}
          [] request.verb = "unsuspend" /\ record.state = "suspended" ->
                 {[record EXCEPT !.state = "active"]}
          [] request.verb = "decommission" -> {[record EXCEPT !.state = "decommissioned"]}
          [] request.verb \in {"narrow", "widen"} /\ RightDirection(record, request) ->
                 {[record EXCEPT !.scope = body.scope, !.yellow = body.yellow]}
          [] request.verb = "attestation-kinds" -> {[record EXCEPT !.kinds = body]}
          [] request.verb = "owner-team" -> {[record EXCEPT !.team = body]}
          [] request.verb = "remark" -> {[record EXCEPT !.remark = ~@]}
          [] OTHER -> {}

Mutate(request) ==
    /\ rows[request.name] # Absent
    /\ rows[request.name].state # "decommissioned"
    /\ \E record \in Mutated(rows[request.name], request) : Becomes(request, record, "nothing")

BudgetSet(request) ==
    /\ request.verb = "budget"
    /\ budget' = request.body
    /\ UNCHANGED <<rows, past>>
    /\ Answered(request, "nothing")

\* 401, 403, 404, 409, 422: the request changes nothing.
Refuse(request) ==
    /\ UNCHANGED <<rows, budget, past>>
    /\ Answered(request, IF request.verb = "create" /\ rows[request.name] # Absent
                         THEN "taken" ELSE "nothing")

-----------------------------------------------------------------------------
RegistryNext ==
    \/ \E o \in Operators :
          \/ StopWaiting(o)
          \/ \E n \in Names :
                \/ List(o, n) \/ Get(o, n) \/ Act(o, n) \/ Reshape(o, n) \/ Assign(o, n) \/ SetBudget(o, n)
                \/ \E want \in Wants : CreateIfAbsent(o, n, want)
    \/ \E request \in sent :
          LoseRequest(request) \/ Create(request) \/ Mutate(request) \/ BudgetSet(request)
                               \/ Refuse(request)

RegistrySpec == RegistryInit /\ [][RegistryNext]_registryVars

-----------------------------------------------------------------------------
(* Properties.                                                             *)

Agrees(want, record) ==
    [Landed(want) EXCEPT !.state = record.state, !.remark = record.remark] = record

\* An --if-absent that succeeds had its agent in place, as a set of the same
\* entries under the same team; one that reports a difference met a record
\* that did differ, whoever created or edited it in between
\* (create_request_matches, same_set).
EnsuredAsWanted ==
    \A o \in Operators : \A n \in Names :
        LET t == told[o][n]
        IN  /\ t.answer \in {"created", "in place"} => \E record \in past[n] : Agrees(t.want, record)
            /\ t.answer = "differs" => \E record \in past[n] : ~Agrees(t.want, record)

\* Whoever looks first and creates only what is absent is refused only by a
\* race: by a create, another's or an older one of the same operator, that
\* arrived after the look (find_by_name lists agents in every state).
RefusedOnlyByARace ==
    \A o \in Operators : \A n \in Names :
        told[o][n].answer = "taken" => told[o][n].free /\ rows[n] # Absent
==============================================================================
