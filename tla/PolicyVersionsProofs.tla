------------------------- MODULE PolicyVersionsProofs -------------------------
(* Theorems about PolicyVersions, for every value of its constants. *)
EXTENDS PolicyVersions, TLAPS

Versions == [op : Operations, body : Bodies]

-----------------------------------------------------------------------------
(* The invariant.                                                          *)

\* An editor that awaits something has asked for it, and only it has an answer.
InOrder ==
    /\ \A e \in Editors : tries[e] > 0 => Len(asked[e]) > 0
    /\ \A e \in Editors : answer[e] # None => tries[e] > 0
    /\ \A m \in network : m.n <= Len(asked[m.editor])
    /\ \A e \in Editors : \A n \in 1..MaxRequests : n > Len(asked[e]) => applied[e][n] = 0

\* The policy has moved past a request: a second copy would be refused.
Spent(r) ==
    /\ r.op \in Creating => version > 0
    /\ r.op = "update" => version > r.seen
    /\ r.op = "delete" => deleted

\* A request was applied at most once, and if so the policy has moved past it.
Settled(r, times) == r.op \in OnceOnly => times <= 1 /\ (times = 1 => Spent(r))

AskedSettled ==
    \A e \in Editors : \A n \in 1..Len(asked[e]) : Settled(asked[e][n], applied[e][n])

\* A version and a body that belong together.
Shows(v, body) == v \in 1..version /\ history[v].body = body

\* An editor sees nothing, or a version with its body.
ViewsAgree == \A e \in Editors : view[e] = NoView \/ Shows(view[e].version, view[e].body)

\* A draft keeps the body of the version that its request names, or is it.
Drafted(r) ==
    /\ r.op = "update" => r.seen \in 1..version /\ history[r.seen].body \subseteq r.draft
    /\ r.op \in StateChanges => Shows(r.seen, r.draft)

RequestsDrafted == \A e \in Editors : \A n \in 1..Len(asked[e]) : Drafted(asked[e][n])

\* The version in an answer has the body that its request was to bring about.
AnswersAgree ==
    \A e \in Editors :
        answer[e] # None /\ answer[e].kind = "done" /\ Last(e).op \notin Sweeps
        => Shows(answer[e].version, Last(e).draft)

EditInv ==
    /\ TypeOK /\ InOrder /\ AskedSettled
    /\ ViewsAgree /\ RequestsDrafted /\ AnswersAgree
    /\ deleted => version > 0
    /\ UpdatesKeepWhatTheyReplace

-----------------------------------------------------------------------------
(* Types.                                                                  *)

LEMMA TypeInit == Init => TypeOK
<1> SUFFICES ASSUME Init PROVE TypeOK
  OBVIOUS
<1>1. 0 \in 0..MaxRequests /\ 0 \in 0..MaxTries /\ MaxRequests \in Nat
  BY EditorAssumption
<1>2. NoView \in [version : Nat, body : Bodies]
  BY DEF NoView, Bodies
<1>3. history \in Seq([op : Operations, body : Bodies]) /\ deleted \in BOOLEAN
  <2>1. \A S : <<>> \in Seq(S)
    OBVIOUS
  <2> QED BY <2>1 DEF Init
<1>4. asked \in [Editors -> Seq(Requests)] /\ \A e \in Editors : Len(asked[e]) <= MaxRequests
  BY <1>1 DEF Init
<1>5. view \in [Editors -> [version : Nat, body : Bodies]]
  BY <1>2 DEF Init
<1>6. /\ tries \in [Editors -> 0..MaxTries]
      /\ answer \in [Editors -> [kind : {"done", "conflict", "refused"}, version : Nat] \cup {None}]
      /\ network \subseteq [editor : Editors, n : 1..MaxRequests, try : 1..MaxTries]
      /\ applied \in [Editors -> [1..MaxRequests -> Nat]]
  BY <1>1 DEF Init
<1> QED BY <1>3, <1>4, <1>5, <1>6 DEF TypeOK

\* The bodies that an editor may want are bodies.
LEMMA DraftTypes ==
    ASSUME TypeOK, ViewsAgree, NEW e \in Editors, NEW op \in Operations,
           Len(asked[e]) < MaxRequests, NEW draft \in Drafts(e, op)
    PROVE  draft \in Bodies
<1>1. Len(asked[e]) \in Nat /\ Len(asked[e]) + 1 \in 1..MaxRequests
  BY EditorAssumption DEF TypeOK
<1>2. <<e, Len(asked[e]) + 1>> \in Edits
  <2> DEFINE n == Len(asked[e]) + 1
  <2>1. n \in 1..MaxRequests
    BY <1>1
  <2> HIDE DEF n
  <2>2. <<e, n>> \in Editors \X (1..MaxRequests)
    BY <2>1
  <2> QED BY <2>2 DEF Edits, n
<1>3. view[e].body \in Bodies
  BY DEF TypeOK
<1>4. CASE op \in Creating \cup {"update"}
  <2>1. draft = view[e].body \cup {<<e, Len(asked[e]) + 1>>}
    BY <1>4 DEF Drafts
  <2> QED BY <1>2, <1>3, <2>1 DEF Bodies
<1>5. CASE op = "rollback"
  <2>1. draft \in {history[v].body : v \in 1..view[e].version}
    BY <1>5 DEF Drafts, Creating
  <2>2. PICK v \in 1..view[e].version : draft = history[v].body
    BY <2>1
  <2>3. history \in Seq(Versions) /\ v \in 1..Len(history)
    BY DEF TypeOK, Versions, ViewsAgree, Shows, NoView, version
  <2>4. history[v] \in Versions
    BY <2>3
  <2> QED BY <2>2, <2>4 DEF Versions
<1>6. CASE op \in StateChanges
  BY <1>3, <1>6 DEF Drafts, Creating, StateChanges
<1>7. CASE op \in Sweeps
  BY <1>7 DEF Drafts, Creating, StateChanges, Sweeps, Bodies
<1> QED BY <1>4, <1>5, <1>6, <1>7 DEF Operations

\* What composing a request leaves behind.
Composed(e, r) ==
    /\ r \in Requests /\ asked' \in [Editors -> Seq(Requests)]
    /\ Len(asked[e]) \in Nat /\ Len(asked[e]) + 1 \in 1..MaxRequests
    /\ Len(asked'[e]) = Len(asked[e]) + 1
    /\ asked'[e][Len(asked[e]) + 1] = r
    /\ \A n \in 1..Len(asked[e]) : asked'[e][n] = asked[e][n]
    /\ \A v \in Editors : v # e => asked'[v] = asked[v]

LEMMA ComposeFacts ==
    ASSUME TypeOK, ViewsAgree, NEW e \in Editors, NEW op \in Operations, Compose(e, op)
    PROVE  \E draft \in Drafts(e, op) :
              Composed(e, [op |-> op, seen |-> view[e].version, draft |-> draft])
<1>1. PICK draft \in Drafts(e, op) :
          asked' = [asked EXCEPT ![e] =
                      Append(@, [op |-> op, seen |-> view[e].version, draft |-> draft])]
  BY DEF Compose
<1> DEFINE r == [op |-> op, seen |-> view[e].version, draft |-> draft]
<1>2. Len(asked[e]) < MaxRequests
  BY DEF Compose, HasRequests
<1>3. draft \in Bodies /\ view[e].version \in Nat
  BY <1>2, DraftTypes DEF TypeOK
<1>4. r \in Requests
  BY <1>3 DEF Requests
<1>5. asked \in [Editors -> Seq(Requests)]
  BY DEF TypeOK
<1> HIDE DEF r
<1>6. asked' = [asked EXCEPT ![e] = Append(asked[e], r)]
  BY <1>1 DEF r
<1>7. asked'[e] = Append(asked[e], r)
  BY <1>5, <1>6
<1>8. asked[e] \in Seq(Requests) /\ Append(asked[e], r) \in Seq(Requests)
  BY <1>4, <1>5
<1>9. asked' \in [Editors -> Seq(Requests)]
  BY <1>5, <1>6, <1>8
<1>10. Len(asked[e]) + 1 \in 1..MaxRequests
  BY <1>2, <1>8, EditorAssumption
<1>11. \A v \in Editors : v # e => asked'[v] = asked[v]
  BY <1>5, <1>6
<1>12. /\ Len(asked[e]) \in Nat /\ Len(asked'[e]) = Len(asked[e]) + 1
       /\ asked'[e][Len(asked[e]) + 1] = r
       /\ \A n \in 1..Len(asked[e]) : asked'[e][n] = asked[e][n]
  BY <1>4, <1>7, <1>8
<1>13. Composed(e, r)
  BY <1>4, <1>9, <1>10, <1>11, <1>12 DEF Composed
<1> QED BY <1>13 DEF r

\* A copy of the request that e awaits is well formed.
LEMMA PostTypes ==
    ASSUME TypeOK, NEW e \in Editors, Post(e),
           asked' \in [Editors -> Seq(Requests)],
           \A v \in Editors : Len(asked'[v]) <= MaxRequests,
           Len(asked'[e]) > 0,
           tries' \in [Editors -> 0..MaxTries], tries'[e] # 0
    PROVE  TypeOK'
<1> DEFINE copy == [editor |-> e, n |-> Len(asked'[e]), try |-> tries'[e]]
<1>1. tries'[e] \in 1..MaxTries /\ Len(asked'[e]) \in 1..MaxRequests
  BY EditorAssumption
<1>2. copy \in [editor : Editors, n : 1..MaxRequests, try : 1..MaxTries]
  BY <1>1
<1>3. /\ answer' = [answer EXCEPT ![e] = None] /\ network' = network \cup {copy}
      /\ UNCHANGED <<history, deleted, view, applied>>
  BY DEF Post, engine
<1> HIDE DEF copy
<1> QED BY <1>2, <1>3 DEF TypeOK

LEMMA ReplyTypes ==
    ASSUME TypeOK, NEW m \in network, NEW kind \in {"done", "conflict", "refused"}, NEW v \in Nat,
           Reply(m, kind, v)
    PROVE  /\ network' \subseteq network
           /\ answer' \in [Editors -> [kind : {"done", "conflict", "refused"}, version : Nat]
                                      \cup {None}]
           /\ \A e \in Editors :
                 answer'[e] # answer[e] =>
                    /\ e = m.editor /\ m.n = Len(asked[e]) /\ tries[e] = m.try
                    /\ answer'[e] = [kind |-> kind, version |-> v]
<1>1. m.editor \in Editors /\ answer \in [Editors -> [kind : {"done", "conflict", "refused"},
                                                      version : Nat] \cup {None}]
  BY DEF TypeOK
<1>2. [kind |-> kind, version |-> v] \in [kind : {"done", "conflict", "refused"}, version : Nat]
  OBVIOUS
<1> QED BY <1>1, <1>2 DEF Reply

\* A copy on its way is of a request that was asked.
LEMMA AskedFacts ==
    ASSUME TypeOK, InOrder, NEW m \in network
    PROVE  /\ m.editor \in Editors /\ m.n \in 1..MaxRequests /\ m.try \in 1..MaxTries
           /\ m.n \in 1..Len(asked[m.editor])
           /\ Asked(m) = asked[m.editor][m.n] /\ Asked(m) \in Requests
<1>1. m.editor \in Editors /\ m.n \in 1..MaxRequests /\ m.try \in 1..MaxTries
  BY DEF TypeOK
<1>2. m.n \in 1..Len(asked[m.editor])
  BY <1>1, EditorAssumption DEF TypeOK, InOrder
<1> QED BY <1>1, <1>2 DEF TypeOK, Asked

\* The history only grows.
Grows ==
    /\ Len(history') >= Len(history)
    /\ \A v \in 1..Len(history) : history'[v] = history[v]

LEMMA ApplyFacts ==
    ASSUME TypeOK, InOrder, NEW m \in network, Apply(m)
    PROVE  /\ history' \in Seq(Versions) /\ Grows
           /\ Len(history') \in Nat /\ Len(history) \in Nat
           /\ \/ UNCHANGED history /\ Asked(m).op \notin Writing
              \/ /\ Len(history') = Len(history) + 1
                 /\ history'[Len(history) + 1] = NewVersion(Asked(m))
           /\ deleted' \in BOOLEAN /\ (deleted' <=> Asked(m).op = "delete")
           /\ applied' = [applied EXCEPT ![m.editor][m.n] = @ + 1]
           /\ Reply(m, "done", Len(history'))
           /\ UNCHANGED <<view, asked, tries>>
<1> DEFINE r == Asked(m)
<1>1. r \in Requests
  BY AskedFacts
<1>2. history \in Seq(Versions)
  BY DEF TypeOK, Versions
<1>3. NewVersion(r) \in Versions
  <2>1. r.op \in Operations /\ r.draft \in Bodies
    BY <1>1 DEF Requests
  <2>2. r.op \in Writing \/ version > 0
    BY <1>2, <2>1 DEF Apply, Missing, Writing, version
  <2>3. version > 0 => history[version].body \in Bodies
    <3>1. version > 0 => history[version] \in Versions
      BY <1>2 DEF version
    <3> QED BY <3>1 DEF Versions
  <2> HIDE DEF r
  <2> QED BY <2>1, <2>2, <2>3 DEF NewVersion, Versions
<1>4. \/ UNCHANGED history /\ r.op \notin Writing
      \/ history' = Append(history, NewVersion(r))
  BY DEF Apply
<1>5. deleted' \in BOOLEAN /\ (deleted' <=> Asked(m).op = "delete")
  <2>1. deleted' = (Asked(m).op = "delete")
    BY DEF Apply
  <2> QED BY <2>1, Zenon
<1>6. /\ applied' = [applied EXCEPT ![m.editor][m.n] = @ + 1]
      /\ Reply(m, "done", Len(history'))
      /\ UNCHANGED <<view, asked, tries>>
  BY DEF Apply, editors
<1> HIDE DEF r
<1>7. CASE UNCHANGED history /\ r.op \notin Writing
  BY <1>2, <1>5, <1>6, <1>7 DEF Grows, r
<1>8. CASE history' = Append(history, NewVersion(r))
  <2>1. /\ history' \in Seq(Versions) /\ Len(history) \in Nat
        /\ Len(history') = Len(history) + 1
        /\ history'[Len(history) + 1] = NewVersion(r)
        /\ \A v \in 1..Len(history) : history'[v] = history[v]
    BY <1>2, <1>3, <1>8
  <2> QED BY <1>5, <1>6, <2>1 DEF Grows, r
<1> QED BY <1>4, <1>7, <1>8

LEMMA TypeStep ==
    ASSUME TypeOK, InOrder, ViewsAgree, [Next]_vars
    PROVE  TypeOK'
<1>1. ASSUME NEW e \in Editors, Read(e)
      PROVE  TypeOK'
  <2>0. history[version].body \in Bodies
    <3>1. history \in Seq(Versions) /\ version \in 1..Len(history)
      BY <1>1 DEF Read, TypeOK, Versions, version
    <3>2. history[version] \in Versions
      BY <3>1
    <3> QED BY <3>2 DEF Versions
  <2>1. /\ version \in Nat
        /\ view' = [view EXCEPT ![e] = [version |-> version, body |-> history[version].body]]
        /\ UNCHANGED <<history, deleted, asked, tries, answer, network, applied>>
    BY <1>1 DEF Read, TypeOK, engine, version
  <2>2. [version |-> version, body |-> history[version].body] \in [version : Nat, body : Bodies]
    BY <2>0, <2>1
  <2>3. view' \in [Editors -> [version : Nat, body : Bodies]]
    BY <2>1, <2>2 DEF TypeOK
  <2> QED BY <2>1, <2>3 DEF TypeOK
<1>2. ASSUME NEW e \in Editors, NEW op \in Operations, Compose(e, op)
      PROVE  TypeOK'
  <2>1. /\ asked' \in [Editors -> Seq(Requests)]
        /\ Len(asked'[e]) = Len(asked[e]) + 1 /\ Len(asked[e]) + 1 \in 1..MaxRequests
        /\ \A v \in Editors : v # e => asked'[v] = asked[v]
    BY <1>2, ComposeFacts DEF Composed
  <2>2. /\ tries' \in [Editors -> 0..MaxTries] /\ tries'[e] = 1 /\ Post(e)
    BY <1>2, EditorAssumption DEF Compose, TypeOK
  <2>3. ASSUME NEW v \in Editors
        PROVE  Len(asked'[v]) <= MaxRequests
    <3>1. CASE v = e
      BY <2>1, <3>1, EditorAssumption
    <3>2. CASE v # e
      BY <2>1, <3>2 DEF TypeOK
    <3> QED BY <3>1, <3>2
  <2>4. Len(asked'[e]) > 0
    BY <2>1, EditorAssumption
  <2> QED BY <2>1, <2>2, <2>3, <2>4, PostTypes
<1>3. ASSUME NEW e \in Editors, Retry(e)
      PROVE  TypeOK'
  <2>1. tries' \in [Editors -> 0..MaxTries] /\ tries'[e] # 0 /\ Post(e) /\ UNCHANGED asked
    BY <1>3, EditorAssumption DEF Retry, TypeOK
  <2>2. Len(asked[e]) > 0
    BY <1>3, EditorAssumption DEF Retry, InOrder
  <2> QED BY <2>1, <2>2, PostTypes DEF TypeOK
<1>4. ASSUME NEW e \in Editors, Finish(e), view' \in [Editors -> [version : Nat, body : Bodies]]
      PROVE  TypeOK'
  <2>1. /\ tries' = [tries EXCEPT ![e] = 0]
        /\ answer' = [answer EXCEPT ![e] = None] /\ 0 \in 0..MaxTries
        /\ UNCHANGED <<history, deleted, asked, network, applied>>
    BY <1>4, EditorAssumption DEF Finish, engine
  <2> QED BY <1>4, <2>1 DEF TypeOK
<1>5. ASSUME NEW e \in Editors, GiveUp(e) \/ ReceiveRefusal(e)
      PROVE  TypeOK'
  BY <1>4, <1>5 DEF GiveUp, ReceiveRefusal, TypeOK
<1>6. ASSUME NEW e \in Editors, ReceiveConflict(e)
      PROVE  TypeOK'
  <2>1. NoView \in [version : Nat, body : Bodies]
    BY DEF NoView, Bodies
  <2> QED BY <1>4, <1>6, <2>1 DEF ReceiveConflict, TypeOK
<1>7. ASSUME NEW e \in Editors, ReceiveSuccess(e)
      PROVE  TypeOK'
  <2>1. NoView \in [version : Nat, body : Bodies]
    BY DEF NoView, Bodies
  <2>2. Len(asked[e]) > 0 /\ Last(e) \in Requests /\ answer[e].version \in Nat
    BY <1>7 DEF ReceiveSuccess, InOrder, Last, TypeOK
  <2>3. [version |-> answer[e].version, body |-> Last(e).draft] \in [version : Nat, body : Bodies]
    BY <2>2 DEF Requests
  <2>4. view' \in [Editors -> [version : Nat, body : Bodies]]
    BY <1>7, <2>1, <2>3 DEF ReceiveSuccess, TypeOK
  <2> QED BY <1>4, <1>7, <2>4 DEF ReceiveSuccess
<1>8. ASSUME NEW m \in network, Refuse(m) \/ Conflict(m)
      PROVE  TypeOK'
  <2>1. /\ UNCHANGED <<history, deleted, view, asked, tries, applied>>
        /\ Reply(m, "refused", 0) \/ Reply(m, "conflict", Len(history))
    BY <1>8 DEF Refuse, Conflict, engine, editors, version
  <2>2. Len(history) \in Nat
    BY DEF TypeOK
  <2>3. /\ network' \subseteq network
        /\ answer' \in [Editors -> [kind : {"done", "conflict", "refused"}, version : Nat]
                                   \cup {None}]
    BY <2>1, <2>2, ReplyTypes
  <2> QED BY <2>1, <2>3 DEF TypeOK
<1>9. ASSUME NEW m \in network, Apply(m)
      PROVE  TypeOK'
  <2>1. /\ history' \in Seq([op : Operations, body : Bodies]) /\ deleted' \in BOOLEAN
        /\ UNCHANGED <<view, asked, tries>> /\ Reply(m, "done", Len(history'))
        /\ Len(history') \in Nat /\ applied' = [applied EXCEPT ![m.editor][m.n] = @ + 1]
    BY <1>9, ApplyFacts DEF Versions
  <2>2. applied' \in [Editors -> [1..MaxRequests -> Nat]]
    <3>1. applied \in [Editors -> [1..MaxRequests -> Nat]]
      BY DEF TypeOK
    <3>2. m.editor \in Editors /\ m.n \in 1..MaxRequests
      BY AskedFacts
    <3>3. applied[m.editor][m.n] \in Nat
      BY <3>1, <3>2, ZenonT(60)
    <3>4. applied' = [applied EXCEPT ![m.editor][m.n] = @ + 1]
      BY <2>1
    <3> QED BY <3>1, <3>2, <3>3, <3>4
  <2>3. /\ network' \subseteq network
        /\ answer' \in [Editors -> [kind : {"done", "conflict", "refused"}, version : Nat]
                                   \cup {None}]
    BY <2>1, ReplyTypes
  <2> QED BY <2>1, <2>2, <2>3 DEF TypeOK
<1>10. CASE UNCHANGED vars
  BY <1>10 DEF vars, TypeOK
<1> QED BY <1>1, <1>2, <1>3, <1>5, <1>6, <1>7, <1>8, <1>9, <1>10, EditorAssumption DEF Next

-----------------------------------------------------------------------------
(* The invariant is inductive.                                             *)

LEMMA EditInit == Init => EditInv
<1> SUFFICES ASSUME Init PROVE EditInv
  OBVIOUS
<1>1. TypeOK
  BY TypeInit
<1>2. \A e \in Editors : Len(asked[e]) = 0 /\ tries[e] = 0 /\ answer[e] = None /\ view[e] = NoView
  BY DEF Init
<1>3. network = {} /\ version = 0 /\ deleted = FALSE
      /\ \A e \in Editors : \A n \in 1..MaxRequests : applied[e][n] = 0
  BY DEF Init, version
<1> QED BY <1>1, <1>2, <1>3 DEF EditInv, InOrder, AskedSettled, ViewsAgree, RequestsDrafted,
                                AnswersAgree, UpdatesKeepWhatTheyReplace

\* Steps that leave the policy and what was asked alone.
LEMMA QuietStep ==
    ASSUME EditInv, TypeOK', InOrder', ViewsAgree', AnswersAgree',
           UNCHANGED <<history, deleted, asked, applied>>
    PROVE  EditInv'
<1>1. AskedSettled' /\ RequestsDrafted'
  BY DEF EditInv, AskedSettled, Settled, Spent, RequestsDrafted, Drafted, Shows, version
<1>2. UpdatesKeepWhatTheyReplace' /\ (deleted' => version' > 0)
  BY DEF EditInv, UpdatesKeepWhatTheyReplace, version
<1> QED BY <1>1, <1>2 DEF EditInv

LEMMA ReadStep ==
    ASSUME EditInv, TypeOK', NEW e \in Editors, Read(e)
    PROVE  EditInv'
<1>1. /\ UNCHANGED <<history, deleted, asked, tries, answer, network, applied>>
      /\ version > 0 /\ version \in Nat
      /\ view' = [view EXCEPT ![e] = [version |-> version, body |-> history[version].body]]
      /\ view \in [Editors -> [version : Nat, body : Bodies]]
  BY DEF Read, engine, EditInv, TypeOK, version
<1>2. InOrder' /\ AnswersAgree'
  BY <1>1 DEF EditInv, InOrder, AnswersAgree, Shows, Last, version
<1>3. ViewsAgree'
  <2>1. ASSUME NEW v \in Editors
        PROVE  view'[v] = NoView \/ Shows(view'[v].version, view'[v].body)
    <3>1. CASE v = e
      BY <1>1, <3>1 DEF Shows, version
    <3>2. CASE v # e
      BY <1>1, <3>2 DEF EditInv, ViewsAgree
    <3> QED BY <3>1, <3>2
  <2> QED BY <1>1, <2>1 DEF ViewsAgree, Shows, version, NoView
<1> QED BY <1>1, <1>2, <1>3, QuietStep

LEMMA RetryStep ==
    ASSUME EditInv, TypeOK', NEW e \in Editors, Retry(e)
    PROVE  EditInv'
<1>1. /\ UNCHANGED <<history, deleted, view, asked, applied>>
      /\ answer' = [answer EXCEPT ![e] = None]
      /\ tries' = [tries EXCEPT ![e] = @ + 1] /\ tries[e] \in 1..(MaxTries - 1)
      /\ network' = network \cup {[editor |-> e, n |-> Len(asked[e]), try |-> tries'[e]]}
  BY DEF Retry, Post, engine
<1>2. /\ tries \in [Editors -> 0..MaxTries] /\ Len(asked[e]) \in Nat
      /\ \A v \in Editors : answer'[v] = IF v = e THEN None ELSE answer[v]
  BY <1>1 DEF EditInv, TypeOK
<1>3. InOrder'
  <2>1. \A v \in Editors : tries'[v] > 0 => Len(asked'[v]) > 0
    BY <1>1, <1>2, EditorAssumption DEF EditInv, InOrder
  <2>2. \A v \in Editors : answer'[v] # None => tries'[v] > 0
    BY <1>1, <1>2 DEF EditInv, InOrder
  <2>3. \A m \in network' : m.n <= Len(asked'[m.editor])
    BY <1>1, <1>2 DEF EditInv, InOrder
  <2> QED BY <1>1, <2>1, <2>2, <2>3 DEF EditInv, InOrder
<1>4. ViewsAgree' /\ AnswersAgree'
  BY <1>1, <1>2 DEF EditInv, ViewsAgree, AnswersAgree, Shows, Last, NoView, version
<1> QED BY <1>1, <1>3, <1>4, QuietStep

\* An editor stops waiting, with a view that is true.
LEMMA FinishStep ==
    ASSUME EditInv, TypeOK', NEW e \in Editors, Finish(e),
           \A v \in Editors : v # e => view'[v] = view[v],
           view'[e] = NoView \/ Shows(view'[e].version, view'[e].body)
    PROVE  EditInv'
<1>1. /\ UNCHANGED <<history, deleted, asked, network, applied>>
      /\ answer' = [answer EXCEPT ![e] = None] /\ tries' = [tries EXCEPT ![e] = 0]
  BY DEF Finish, engine
<1>2. /\ \A v \in Editors : answer'[v] = IF v = e THEN None ELSE answer[v]
      /\ \A v \in Editors : tries'[v] = IF v = e THEN 0 ELSE tries[v]
  BY <1>1 DEF EditInv, TypeOK
<1>3. InOrder'
  BY <1>1, <1>2 DEF EditInv, InOrder
<1>4. ViewsAgree'
  <2>1. \A v \in Editors : view'[v] = NoView \/ Shows(view'[v].version, view'[v].body)
    BY DEF EditInv, ViewsAgree
  <2> QED BY <1>1, <2>1 DEF ViewsAgree, Shows, version, NoView
<1>5. AnswersAgree'
  BY <1>1, <1>2 DEF EditInv, AnswersAgree, Shows, Last, version
<1> QED BY <1>1, <1>3, <1>4, <1>5, QuietStep

\* The answer of a success names the version with the body that was wanted;
\* that of a conflict names a version without a body.
LEMMA ReceiveStep ==
    ASSUME EditInv, TypeOK', NEW e \in Editors,
           GiveUp(e) \/ ReceiveSuccess(e) \/ ReceiveConflict(e) \/ ReceiveRefusal(e)
    PROVE  EditInv'
<1>1. view \in [Editors -> [version : Nat, body : Bodies]]
  BY DEF EditInv, TypeOK
<1>2. CASE GiveUp(e) \/ ReceiveRefusal(e)
  <2>1. Finish(e) /\ UNCHANGED view
    BY <1>2 DEF GiveUp, ReceiveRefusal
  <2> QED BY <2>1, FinishStep DEF EditInv, ViewsAgree
<1>3. CASE ReceiveConflict(e)
  <2>1. Finish(e) /\ view' = [view EXCEPT ![e] = NoView]
    BY <1>3 DEF ReceiveConflict
  <2> QED BY <1>1, <2>1, FinishStep
<1>4. CASE ReceiveSuccess(e)
  <2>1. /\ Finish(e) /\ answer[e] # None /\ answer[e].kind = "done"
        /\ view' = [view EXCEPT ![e] =
                     IF Last(e).op \in Sweeps THEN NoView
                     ELSE [version |-> answer[e].version, body |-> Last(e).draft]]
    BY <1>4 DEF ReceiveSuccess
  <2>2. CASE Last(e).op \in Sweeps
    <3>1. view' = [view EXCEPT ![e] = NoView]
      BY <2>1, <2>2
    <3> QED BY <1>1, <2>1, <3>1, FinishStep
  <2>3. CASE Last(e).op \notin Sweeps
    <3>1. Shows(answer[e].version, Last(e).draft)
      BY <2>1, <2>3 DEF EditInv, AnswersAgree
    <3>2. view'[e] = [version |-> answer[e].version, body |-> Last(e).draft]
          /\ \A v \in Editors : v # e => view'[v] = view[v]
      BY <1>1, <2>1, <2>3
    <3>3. view'[e].version = answer[e].version /\ view'[e].body = Last(e).draft
      BY <3>2
    <3> QED BY <2>1, <3>1, <3>2, <3>3, FinishStep
  <2> QED BY <2>2, <2>3
<1> QED BY <1>2, <1>3, <1>4

\* What is composed drafts what its editor sees.
LEMMA ComposeStep ==
    ASSUME EditInv, TypeOK', NEW e \in Editors, NEW op \in Operations, Compose(e, op)
    PROVE  EditInv'
<1>1. PICK draft \in Drafts(e, op) :
          Composed(e, [op |-> op, seen |-> view[e].version, draft |-> draft])
  BY ComposeFacts DEF EditInv
<1> DEFINE r == [op |-> op, seen |-> view[e].version, draft |-> draft]
<1>2. r.op = op /\ r.seen = view[e].version /\ r.draft = draft /\ Composed(e, r)
  BY <1>1
<1> HIDE DEF r
<1>3. /\ UNCHANGED <<history, deleted, view, applied>>
      /\ answer' = [answer EXCEPT ![e] = None] /\ tries' = [tries EXCEPT ![e] = 1]
      /\ network' = network \cup {[editor |-> e, n |-> Len(asked'[e]), try |-> tries'[e]]}
      /\ (op \in Creating) <=> (view[e] = NoView)
  BY DEF Compose, Post, engine
<1>4. /\ \A v \in Editors : answer'[v] = IF v = e THEN None ELSE answer[v]
      /\ \A v \in Editors : tries'[v] = IF v = e THEN 1 ELSE tries[v]
      /\ \A v \in Editors : Len(asked[v]) \in Nat /\ Len(asked[v]) <= MaxRequests
      /\ \A m \in network : m.editor \in Editors /\ m.n \in 1..MaxRequests
  BY <1>3 DEF EditInv, TypeOK
<1>5. \A v \in Editors : Len(asked'[v]) = IF v = e THEN Len(asked[e]) + 1 ELSE Len(asked[v])
  BY <1>2 DEF Composed
<1>6. \A v \in Editors : \A n \in 1..Len(asked'[v]) :
          \/ n \in 1..Len(asked[v]) /\ asked'[v][n] = asked[v][n]
          \/ v = e /\ n = Len(asked[e]) + 1 /\ asked'[v][n] = r
  <2>1. ASSUME NEW v \in Editors, NEW n \in 1..Len(asked'[v])
        PROVE  \/ n \in 1..Len(asked[v]) /\ asked'[v][n] = asked[v][n]
               \/ v = e /\ n = Len(asked[e]) + 1 /\ asked'[v][n] = r
    <3>1. CASE v = e
      BY <1>2, <1>4, <2>1, <3>1 DEF Composed
    <3>2. CASE v # e
      BY <1>2, <2>1, <3>2 DEF Composed
    <3> QED BY <3>1, <3>2
  <2> QED BY <2>1
<1>7. InOrder'
  <2>1. \A v \in Editors : tries'[v] > 0 => Len(asked'[v]) > 0
    BY <1>4, <1>5 DEF EditInv, InOrder
  <2>2. \A v \in Editors : answer'[v] # None => tries'[v] > 0
    BY <1>4 DEF EditInv, InOrder
  <2>3. ASSUME NEW m \in network'
        PROVE  m.n <= Len(asked'[m.editor])
    <3>1. CASE m \in network
      <4>1. m.n <= Len(asked[m.editor]) /\ m.n \in Nat /\ m.editor \in Editors
        BY <1>4, <3>1, EditorAssumption DEF EditInv, InOrder
      <4>2. Len(asked'[m.editor]) >= Len(asked[m.editor])
        BY <1>4, <1>5, <4>1
      <4> QED BY <1>4, <1>5, <4>1, <4>2
    <3>2. CASE m = [editor |-> e, n |-> Len(asked'[e]), try |-> tries'[e]]
      <4>1. m.editor = e /\ m.n = Len(asked'[e])
        BY <3>2
      <4> QED BY <1>4, <1>5, <4>1
    <3> QED BY <1>3, <3>1, <3>2
  <2>4. ASSUME NEW v \in Editors, NEW n \in 1..MaxRequests, n > Len(asked'[v])
        PROVE  applied'[v][n] = 0
    <3>1. n > Len(asked[v])
      BY <1>4, <1>5, <2>4, EditorAssumption
    <3> QED BY <1>3, <3>1 DEF EditInv, InOrder
  <2> QED BY <2>1, <2>2, <2>3, <2>4 DEF InOrder
<1>8. AskedSettled'
  <2>1. applied[e][Len(asked[e]) + 1] = 0
    BY <1>2, <1>4 DEF EditInv, InOrder, Composed
  <2>2. ASSUME NEW v \in Editors, NEW n \in 1..Len(asked'[v])
        PROVE  Settled(asked'[v][n], applied[v][n])
    <3>1. CASE n \in 1..Len(asked[v]) /\ asked'[v][n] = asked[v][n]
      BY <3>1 DEF EditInv, AskedSettled
    <3>2. CASE v = e /\ n = Len(asked[e]) + 1
      BY <2>1, <3>2 DEF Settled
    <3> QED BY <1>6, <2>2, <3>1, <3>2
  <2> QED BY <1>3, <2>2 DEF AskedSettled, Settled, Spent, version
<1>9. Drafted(r)
  <2>1. op \notin Creating => Shows(view[e].version, view[e].body)
    BY <1>3 DEF EditInv, ViewsAgree
  <2>2. CASE op = "update"
    <3>1. draft = view[e].body \cup {<<e, Len(asked[e]) + 1>>}
      BY <2>2 DEF Drafts
    <3>2. op \notin Creating /\ op \notin StateChanges
      BY <2>2 DEF Creating, StateChanges
    <3> QED BY <1>2, <2>1, <2>2, <3>1, <3>2 DEF Drafted, Shows
  <2>3. CASE op \in StateChanges
    <3>1. op \notin Creating /\ op # "update" /\ op # "rollback"
      BY <2>3 DEF Creating, StateChanges
    <3>2. draft = view[e].body
      BY <2>3, <3>1 DEF Drafts
    <3> QED BY <1>2, <2>1, <3>1, <3>2 DEF Drafted
  <2> QED BY <1>2, <2>2, <2>3 DEF Drafted
<1>10. RequestsDrafted'
  <2>1. ASSUME NEW v \in Editors, NEW n \in 1..Len(asked'[v])
        PROVE  Drafted(asked'[v][n])
    <3>1. CASE n \in 1..Len(asked[v]) /\ asked'[v][n] = asked[v][n]
      BY <3>1 DEF EditInv, RequestsDrafted
    <3>2. CASE asked'[v][n] = r
      BY <1>9, <3>2
    <3> QED BY <1>6, <2>1, <3>1, <3>2
  <2> QED BY <1>3, <2>1 DEF RequestsDrafted, Drafted, Shows, version
<1>11. AnswersAgree'
  <2>1. \A v \in Editors : v # e => asked'[v] = asked[v]
    BY <1>2 DEF Composed
  <2> QED BY <1>3, <1>4, <2>1 DEF EditInv, AnswersAgree, Shows, Last, version
<1>12. ViewsAgree'
  BY <1>3 DEF EditInv, ViewsAgree, Shows, NoView, version
<1>13. UpdatesKeepWhatTheyReplace' /\ (deleted' => version' > 0)
  BY <1>3 DEF EditInv, UpdatesKeepWhatTheyReplace, version
<1> QED BY <1>7, <1>8, <1>10, <1>11, <1>12, <1>13 DEF EditInv

\* A refused request leaves everything as it was.
LEMMA RefuseStep ==
    ASSUME EditInv, TypeOK', NEW m \in network, Refuse(m) \/ Conflict(m)
    PROVE  EditInv'
<1>1. /\ UNCHANGED <<history, deleted, view, asked, tries, applied>>
      /\ Reply(m, "refused", 0) \/ Reply(m, "conflict", Len(history))
  BY DEF Refuse, Conflict, engine, editors, version
<1>2. /\ network' \subseteq network
      /\ \A e \in Editors :
            answer'[e] # answer[e] => tries[e] = m.try /\ answer'[e].kind # "done"
  <2>1. Len(history) \in Nat
    BY DEF EditInv, TypeOK
  <2>2. TypeOK
    BY DEF EditInv
  <2>3. CASE Reply(m, "refused", 0)
    <3>1. /\ network' \subseteq network
          /\ \A e \in Editors :
                answer'[e] # answer[e] =>
                   tries[e] = m.try /\ answer'[e] = [kind |-> "refused", version |-> 0]
      BY <2>2, <2>3, ReplyTypes
    <3> QED BY <3>1
  <2>4. CASE Reply(m, "conflict", Len(history))
    <3>1. /\ network' \subseteq network
          /\ \A e \in Editors :
                answer'[e] # answer[e] =>
                   tries[e] = m.try /\ answer'[e] = [kind |-> "conflict", version |-> Len(history)]
      BY <2>1, <2>2, <2>4, ReplyTypes
    <3> QED BY <3>1
  <2> QED BY <1>1, <2>3, <2>4
<1>3. m.try \in 1..MaxTries
  BY DEF EditInv, TypeOK
<1>4. InOrder'
  <2>1. \A e \in Editors : answer'[e] # None => tries'[e] > 0
    BY <1>1, <1>2, <1>3, EditorAssumption DEF EditInv, InOrder
  <2> QED BY <1>1, <1>2, <2>1 DEF EditInv, InOrder
<1>5. AnswersAgree'
  <2>1. ASSUME NEW e \in Editors, answer'[e] # None, answer'[e].kind = "done"
        PROVE  answer'[e] = answer[e]
    BY <1>2, <2>1
  <2> QED BY <1>1, <2>1 DEF EditInv, AnswersAgree, Shows, Last, version
<1>6. ViewsAgree'
  BY <1>1 DEF EditInv, ViewsAgree, Shows, NoView, version
<1> QED BY <1>1, <1>4, <1>5, <1>6, QuietStep

\* What is shown, spent or drafted stays so, as long as nothing is undeleted.
LEMMA Lasting ==
    ASSUME TypeOK, history' \in Seq(Versions), Grows, deleted => deleted'
    PROVE  /\ \A v, body : Shows(v, body) => v \in 1..Len(history') /\ history'[v].body = body
           /\ \A r : Spent(r) => /\ r.op \in Creating => Len(history') > 0
                                 /\ r.op = "update" /\ r.seen \in Nat => Len(history') > r.seen
                                 /\ r.op = "delete" => deleted'
           /\ \A r : Drafted(r) =>
                 /\ r.op = "update" => /\ r.seen \in 1..Len(history')
                                       /\ history'[r.seen].body \subseteq r.draft
                 /\ r.op \in StateChanges => /\ r.seen \in 1..Len(history')
                                             /\ history'[r.seen].body = r.draft
<1>1. Len(history) \in Nat /\ Len(history') \in Nat
  BY DEF TypeOK
<1>2. \A v, body : Shows(v, body) => v \in 1..Len(history') /\ history'[v].body = body
  BY <1>1 DEF Shows, Grows, version
<1>3. \A r : Spent(r) => /\ r.op \in Creating => Len(history') > 0
                         /\ r.op = "update" /\ r.seen \in Nat => Len(history') > r.seen
                         /\ r.op = "delete" => deleted'
  <2>1. ASSUME NEW r, Spent(r), r.op = "update", r.seen \in Nat
        PROVE  Len(history') > r.seen
    BY <1>1, <2>1 DEF Spent, Grows, version
  <2> QED BY <1>1, <2>1 DEF Spent, Grows, version
<1>4. \A r : Drafted(r) =>
                 /\ r.op = "update" => /\ r.seen \in 1..Len(history')
                                       /\ history'[r.seen].body \subseteq r.draft
                 /\ r.op \in StateChanges => /\ r.seen \in 1..Len(history')
                                             /\ history'[r.seen].body = r.draft
  BY <1>1 DEF Drafted, Shows, Grows, version
<1> QED BY <1>2, <1>3, <1>4

\* A request that is applied was not applied before, and is spent by it; an
\* update is applied to the very version that its draft was made from.
LEMMA ApplyStep ==
    ASSUME EditInv, TypeOK', NEW m \in network, Apply(m)
    PROVE  EditInv'
<1> DEFINE r == Asked(m)
<1>0. TypeOK /\ InOrder
  BY DEF EditInv
<1>1. /\ m.editor \in Editors /\ m.n \in 1..MaxRequests /\ m.try \in 1..MaxTries
      /\ m.n \in 1..Len(asked[m.editor])
      /\ r = asked[m.editor][m.n] /\ r \in Requests
  BY <1>0, AskedFacts
<1>2. /\ history' \in Seq(Versions) /\ Grows
      /\ Len(history') \in Nat /\ Len(history) \in Nat
      /\ \/ UNCHANGED history /\ r.op \notin Writing
         \/ /\ Len(history') = Len(history) + 1
            /\ history'[Len(history) + 1] = NewVersion(r)
      /\ UNCHANGED <<view, asked, tries>>
  BY <1>0, ApplyFacts
<1>3. deleted' <=> r.op = "delete"
  BY <1>0, ApplyFacts, Zenon
<1>4. /\ r.op \in Creating => Len(history) = 0
      /\ r.op \notin Creating => Len(history) > 0 /\ ~deleted
      /\ r.op \in StateChanges \cup {"update"} => r.seen = Len(history)
  BY <1>2 DEF Apply, Missing, Stale, CarriesToken, version
<1>5. ~deleted
  BY <1>4 DEF EditInv, version
<1>6. Settled(r, applied[m.editor][m.n]) /\ Drafted(r)
  BY <1>1 DEF EditInv, AskedSettled, RequestsDrafted
<1>7. /\ applied \in [Editors -> [1..MaxRequests -> Nat]]
      /\ applied' = [applied EXCEPT ![m.editor][m.n] = @ + 1]
  BY <1>0, ApplyFacts DEF TypeOK
<1>8. /\ network' \subseteq network
      /\ \A e \in Editors :
            answer'[e] # answer[e] =>
               /\ e = m.editor /\ m.n = Len(asked[e]) /\ tries[e] = m.try
               /\ answer'[e] = [kind |-> "done", version |-> Len(history')]
  <2>1. Reply(m, "done", Len(history'))
    BY <1>0, ApplyFacts
  <2> QED BY <1>0, <1>2, <2>1, ReplyTypes
<1>9. r.op \in Operations /\ r.draft \in Bodies /\ r.seen \in Nat
  BY <1>1 DEF Requests
<1> HIDE DEF r
<1>10. (deleted' => Len(history') > 0)
       /\ (r.op = "update" => Len(history') > r.seen)
       /\ (r.op \in Creating => Len(history') > 0)
       /\ (r.op = "delete" => deleted')
  <2>1. r.op \in Writing => Len(history') = Len(history) + 1
    BY <1>2
  <2>2. "update" \in Writing /\ (r.op \in Creating => r.op \in Writing)
    BY DEF Writing
  <2>3. "delete" \notin Creating
    BY DEF Creating
  <2> QED BY <1>2, <1>3, <1>4, <2>1, <2>2, <2>3 DEF Grows
<1>11. InOrder'
  <2>1. \A e \in Editors : answer'[e] # None => tries'[e] > 0
    BY <1>1, <1>2, <1>8, EditorAssumption DEF EditInv, InOrder
  <2>2. ASSUME NEW e \in Editors, NEW n \in 1..MaxRequests, n > Len(asked[e])
        PROVE  applied'[e][n] = applied[e][n]
    <3>1. ~(e = m.editor /\ n = m.n)
      BY <1>0, <1>1, <2>2, EditorAssumption DEF TypeOK
    <3> QED BY <1>1, <1>7, <3>1
  <2> QED BY <1>2, <1>8, <2>1, <2>2 DEF EditInv, InOrder
<1>12. AskedSettled'
  <2>1. r.op \in OnceOnly => applied[m.editor][m.n] = 0
    <3>1. r.op \in OnceOnly => ~Spent(r)
      BY <1>4, <1>5, <1>9 DEF Spent, OnceOnly, Creating, StateChanges, version
    <3>2. applied[m.editor][m.n] \in Nat
      BY <1>1, <1>7, ZenonT(60)
    <3> QED BY <1>6, <3>1, <3>2 DEF Settled
  <2>2. ASSUME NEW e \in Editors, NEW n \in 1..Len(asked[e])
        PROVE  asked[e][n].op \in OnceOnly =>
                  /\ applied'[e][n] <= 1
                  /\ applied'[e][n] = 1 =>
                        /\ asked[e][n].op \in Creating => Len(history') > 0
                        /\ asked[e][n].op = "update" => Len(history') > asked[e][n].seen
                        /\ asked[e][n].op = "delete" => deleted'
    <3>1. CASE e = m.editor /\ n = m.n
      <4>0. applied'[m.editor][m.n] = applied[m.editor][m.n] + 1
        BY <1>1, <1>7
      <4>1. r.op \in OnceOnly => applied'[e][n] = 1
        BY <2>1, <3>1, <4>0
      <4> QED BY <1>1, <1>10, <3>1, <4>1
    <3>2. CASE ~(e = m.editor /\ n = m.n)
      <4>1. n \in 1..MaxRequests
        BY <1>0, <2>2, EditorAssumption DEF TypeOK
      <4>2. applied'[e][n] = applied[e][n]
        BY <1>1, <1>7, <3>2, <4>1
      <4>3. Settled(asked[e][n], applied[e][n])
        BY <2>2 DEF EditInv, AskedSettled
      <4>4. asked[e][n].seen \in Nat
        <5>1. asked[e] \in Seq(Requests)
          BY <1>0 DEF TypeOK
        <5>2. asked[e][n] \in Requests
          BY <2>2, <5>1
        <5> QED BY <5>2 DEF Requests
      <4> QED BY <1>0, <1>2, <1>5, <4>2, <4>3, <4>4, Lasting DEF Settled
    <3> QED BY <3>1, <3>2
  <2> QED BY <1>2, <2>2 DEF AskedSettled, Settled, Spent, version
<1>13. ViewsAgree'
  <2>1. \A e \in Editors :
           \/ view[e] = NoView
           \/ view[e].version \in 1..Len(history') /\ history'[view[e].version].body = view[e].body
    BY <1>0, <1>2, <1>5, Lasting DEF EditInv, ViewsAgree
  <2> QED BY <1>2, <2>1 DEF ViewsAgree, Shows, NoView, version
<1>14. RequestsDrafted'
  <2>1. ASSUME NEW e \in Editors, NEW n \in 1..Len(asked[e])
        PROVE  /\ asked[e][n].op = "update" =>
                     /\ asked[e][n].seen \in 1..Len(history')
                     /\ history'[asked[e][n].seen].body \subseteq asked[e][n].draft
               /\ asked[e][n].op \in StateChanges =>
                     /\ asked[e][n].seen \in 1..Len(history')
                     /\ history'[asked[e][n].seen].body = asked[e][n].draft
    <3>1. Drafted(asked[e][n])
      BY <2>1 DEF EditInv, RequestsDrafted
    <3> QED BY <1>0, <1>2, <1>5, <3>1, Lasting
  <2> QED BY <1>2, <2>1 DEF RequestsDrafted, Drafted, Shows, version
<1>15. r.op \notin Sweeps => Len(history') > 0 /\ history'[Len(history')].body = r.draft
  <2>1. CASE r.op \in StateChanges
    <3>1. Len(history) > 0 /\ history[Len(history)].body = r.draft /\ r.op \notin Writing
      BY <1>4, <1>6, <2>1 DEF Drafted, Shows, StateChanges, Creating, Writing, version
    <3>2. CASE UNCHANGED history
      BY <3>1, <3>2
    <3>3. CASE /\ Len(history') = Len(history) + 1
               /\ history'[Len(history) + 1] = NewVersion(r)
      BY <1>2, <3>1, <3>3 DEF NewVersion, version
    <3> QED BY <1>2, <3>2, <3>3
  <2>2. CASE r.op \in Writing
    <3>1. Len(history') = Len(history) + 1 /\ history'[Len(history) + 1] = NewVersion(r)
      BY <1>2, <2>2
    <3> QED BY <1>2, <2>2, <3>1 DEF NewVersion
  <2> QED BY <1>9, <2>1, <2>2 DEF Operations, Writing
<1>16. AnswersAgree'
  <2>1. ASSUME NEW e \in Editors, answer'[e] # None, answer'[e].kind = "done",
               Last(e).op \notin Sweeps
        PROVE  /\ answer'[e].version \in 1..Len(history')
               /\ history'[answer'[e].version].body = Last(e).draft
    <3>1. CASE answer'[e] = answer[e]
      BY <1>0, <1>2, <1>5, <2>1, <3>1, Lasting DEF EditInv, AnswersAgree
    <3>2. CASE answer'[e] # answer[e]
      <4>1. Last(e) = r /\ answer'[e] = [kind |-> "done", version |-> Len(history')]
        BY <1>1, <1>8, <3>2 DEF Last
      <4>2. answer'[e].version = Len(history')
        BY <4>1
      <4>3. Len(history') > 0 /\ history'[Len(history')].body = Last(e).draft
        BY <1>15, <2>1, <4>1
      <4> QED BY <1>2, <4>2, <4>3
    <3> QED BY <3>1, <3>2
  <2> QED BY <1>2, <2>1 DEF AnswersAgree, Shows, Last, version
<1>17. UpdatesKeepWhatTheyReplace'
  <2>1. ASSUME NEW v \in 2..Len(history'), history'[v].op = "update"
        PROVE  history'[v - 1].body \subseteq history'[v].body
    <3>1. CASE v <= Len(history)
      <4>1. history'[v] = history[v] /\ history'[v - 1] = history[v - 1] /\ v \in 2..Len(history)
        BY <1>2, <3>1 DEF Grows
      <4> QED BY <2>1, <4>1 DEF EditInv, UpdatesKeepWhatTheyReplace, version
    <3>2. CASE v = Len(history) + 1
      <4>1. history'[v] = NewVersion(r) /\ v - 1 = Len(history) /\ Len(history) > 0
            /\ history'[v - 1] = history[v - 1]
        BY <1>2, <2>1, <3>2 DEF Grows
      <4>2. r.op = "update" /\ history'[v].body = r.draft
        BY <2>1, <4>1 DEF NewVersion, Writing
      <4>3. history[Len(history)].body \subseteq r.draft
        BY <1>4, <1>6, <4>2 DEF Drafted
      <4> QED BY <4>1, <4>2, <4>3
    <3> QED BY <1>2, <2>1, <3>1, <3>2
  <2> QED BY <2>1 DEF UpdatesKeepWhatTheyReplace, version
<1> QED BY <1>10, <1>11, <1>12, <1>13, <1>14, <1>16, <1>17 DEF EditInv, version

LEMMA EditStep ==
    ASSUME EditInv, [Next]_vars
    PROVE  EditInv'
<1>1. TypeOK'
  BY TypeStep DEF EditInv
<1>2. CASE UNCHANGED vars
  <2>1. UNCHANGED <<history, deleted, view, asked, tries, answer, network, applied>>
    BY <1>2 DEF vars
  <2>2. InOrder' /\ ViewsAgree' /\ AnswersAgree'
    BY <2>1 DEF EditInv, InOrder, ViewsAgree, AnswersAgree, Shows, Last, NoView, version
  <2> QED BY <1>1, <2>1, <2>2, QuietStep
<1> QED BY <1>1, <1>2, ReadStep, RetryStep, ReceiveStep, ComposeStep, RefuseStep, ApplyStep,
           EditorAssumption DEF Next

\* The inductive invariant holds throughout.
THEOREM EditInvariant == Spec => []EditInv
  BY EditInit, EditStep, PTL DEF Spec

-----------------------------------------------------------------------------
(* The theorems.                                                           *)

\* The policy, its editors and their requests have their types.
THEOREM TypeCorrect == Spec => []TypeOK
  BY EditInvariant, PTL DEF EditInv

\* No update overwrites an edit that its editor has not seen: the token of an
\* update (expected_current_version) is the version of the very body that it
\* was made from, because a view is replaced only as a whole: by a read, by an
\* answer to the editor's own request, or by nothing after a conflict.
THEOREM KeepTheorem == Spec => []UpdatesKeepWhatTheyReplace
  BY EditInvariant, PTL DEF EditInv

\* A create, install, update or delete sent any number of times takes effect
\* at most once: creating needs an absent name, an update or deletion the
\* version or the existence that the first one takes away.
THEOREM OnceTheorem == Spec => []RetriedEditsApplyOnce
<1>1. EditInv => RetriedEditsApplyOnce
  <2>1. TypeOK => \A e \in Editors : DOMAIN asked[e] = 1..Len(asked[e])
    BY DEF TypeOK
  <2> QED BY <2>1 DEF EditInv, RetriedEditsApplyOnce, AskedSettled, Settled
<1> QED BY <1>1, EditInvariant, PTL

==============================================================================
