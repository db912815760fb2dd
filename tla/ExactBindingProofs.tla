-------------------------- MODULE ExactBindingProofs --------------------------
(* Theorems about ExactBinding, for every value of its constants. *)
EXTENDS ExactBinding, FiniteSetTheorems, TLAPS

-----------------------------------------------------------------------------
(* Payloads and digests.                                                    *)

\* The value of an object has as many pairs as the object.
LEMMA ObjectValue ==
    ASSUME NEW args \in Objects
    PROVE  /\ IsFiniteSet(AsValue(args)) /\ Cardinality(AsValue(args)) = Len(args)
           /\ DOMAIN args = 1..Len(args) /\ Len(args) \in Nat
           /\ \A p \in AsValue(args) : p \in Nat \X Values /\ p[1] \in Nat
           /\ \A p, q \in AsValue(args) : p[1] = q[1] => p = q
<1>1. args \in Seq(Nat \X Values) /\ Len(args) \in Nat /\ DOMAIN args = 1..Len(args)
  BY DEF Objects
<1>2. \A i \in 1..Len(args) : args[i] \in Nat \X Values
  BY <1>1
<1>3. \A p \in AsValue(args) : p \in Nat \X Values /\ p[1] \in Nat
  BY <1>1, <1>2 DEF AsValue
<1>4. \A p, q \in AsValue(args) : p[1] = q[1] => p = q
  BY DEF AsValue, Objects
<1>5. args \in Bijection(1..Len(args), AsValue(args))
  <2>1. args \in [1..Len(args) -> AsValue(args)]
    BY <1>1 DEF AsValue
  <2>2. \A i, j \in 1..Len(args) : args[i] = args[j] => i = j
    BY <1>1 DEF Objects
  <2>3. \A p \in AsValue(args) : \E i \in 1..Len(args) : args[i] = p
    BY <1>1 DEF AsValue
  <2> QED BY <2>1, <2>2, <2>3 DEF Bijection, Injection, Surjection, IsInjective
<1>6. IsFiniteSet(1..Len(args)) /\ Cardinality(1..Len(args)) = Len(args)
  BY <1>1, FS_Interval
<1> QED BY <1>1, <1>3, <1>4, <1>5, <1>6, FS_Bijection DEF ExistsBijection

\* Pairs with different keys have different ranks, and every place is taken.
LEMMA RankFacts ==
    ASSUME NEW S, IsFiniteSet(S), \A p \in S : p[1] \in Nat, \A p, q \in S : p[1] = q[1] => p = q
    PROVE  /\ \A p \in S : Rank(p, S) \in 1..Cardinality(S)
           /\ \A p, q \in S : Rank(p, S) = Rank(q, S) => p = q
           /\ \A k \in 1..Cardinality(S) : \E p \in S : Rank(p, S) = k
<1> DEFINE UpTo(p) == {q \in S : q[1] <= p[1]}
<1>1. ASSUME NEW p \in S
      PROVE  /\ IsFiniteSet(UpTo(p)) /\ Cardinality(UpTo(p)) = Rank(p, S)
             /\ Rank(p, S) \in 1..Cardinality(S)
  <2>1. UpTo(p) \subseteq S /\ p \in UpTo(p)
    OBVIOUS
  <2>2. Cardinality(UpTo(p)) \in Nat /\ Cardinality(S) \in Nat /\ Cardinality(UpTo(p)) <= Cardinality(S)
    BY <2>1, FS_Subset, FS_CardinalityType
  <2>3. IsFiniteSet(UpTo(p))
    BY <2>1, FS_Subset
  <2>4. Cardinality(UpTo(p)) # 0
    BY <2>1, <2>3, FS_EmptySet
  <2> QED BY <2>2, <2>3, <2>4 DEF Rank
<1>2. ASSUME NEW p \in S, NEW q \in S, p[1] < q[1]
      PROVE  Rank(p, S) # Rank(q, S)
  <2>1. UpTo(p) \subseteq UpTo(q) /\ q \in UpTo(q) /\ q \notin UpTo(p)
    BY <1>2
  <2>2. UpTo(p) # UpTo(q)
    BY <2>1
  <2> HIDE DEF UpTo
  <2> QED BY <1>1, <2>1, <2>2, FS_Subset
<1>3. \A p, q \in S : Rank(p, S) = Rank(q, S) => p = q
  BY <1>2
<1> DEFINE T == 1..Cardinality(S)
           f == [p \in S |-> Rank(p, S)]
<1>4. IsFiniteSet(T) /\ Cardinality(T) = Cardinality(S)
  BY FS_CardinalityType, FS_Interval
<1>5. f \in Injection(S, T)
  <2>1. f \in [S -> T]
    BY <1>1
  <2> QED BY <2>1, <1>3 DEF Injection, IsInjective
<1>6. f \in Surjection(S, T)
  <2> HIDE DEF f, T
  <2> QED BY <1>4, <1>5, FS_Injection
<1>7. \A k \in T : \E p \in S : f[p] = k
  <2> HIDE DEF f, T
  <2> QED BY <1>6 DEF Surjection
<1> QED BY <1>1, <1>3, <1>7

\* The canonical form of an object is the object, in one order.
LEMMA CanonicalObject ==
    ASSUME NEW args \in Objects
    PROVE  Canonical(args) \in Objects /\ AsValue(Canonical(args)) = AsValue(args)
<1> DEFINE S == AsValue(args)
           n == Len(args)
           c == Canonical(args)
<1>1. /\ IsFiniteSet(S) /\ Cardinality(S) = n /\ DOMAIN args = 1..n /\ n \in Nat
      /\ \A p \in S : p \in Nat \X Values /\ p[1] \in Nat
      /\ \A p, q \in S : p[1] = q[1] => p = q
  BY ObjectValue
<1>2. /\ \A p \in S : Rank(p, S) \in 1..n
      /\ \A p, q \in S : Rank(p, S) = Rank(q, S) => p = q
      /\ \A k \in 1..n : \E p \in S : Rank(p, S) = k
  BY <1>1, RankFacts
<1>3. DOMAIN c = 1..n /\ \A k \in 1..n : c[k] \in S /\ Rank(c[k], S) = k
  BY <1>1, <1>2 DEF Canonical
<1>4. c \in [1..n -> S]
  BY <1>1 , <1>3 DEF Canonical
<1>5. c \in Seq(Nat \X Values)
  <2> HIDE DEF c, S, n
  <2>1. c \in [1..n -> Nat \X Values]
    BY <1>1, <1>4
  <2> QED BY <1>1, <2>1
<1>6. ASSUME NEW i \in DOMAIN c, NEW j \in DOMAIN c, c[i][1] = c[j][1]
      PROVE  i = j
  BY <1>1, <1>3, <1>6
<1>7. \A p \in S : c[Rank(p, S)] = p
  BY <1>2, <1>3
<1>8. AsValue(c) = S
  <2> HIDE DEF c, S, n
  <2> QED BY <1>2, <1>3, <1>7 DEF AsValue
<1> QED BY <1>5, <1>6, <1>8 DEF Objects

\* Objects are equal as values just when their canonical forms are the same.
LEMMA CanonicalSame ==
    ASSUME NEW a \in Objects, NEW b \in Objects
    PROVE  Canonical(a) = Canonical(b) <=> AsValue(a) = AsValue(b)
<1>1. ASSUME AsValue(a) = AsValue(b)
      PROVE  Canonical(a) = Canonical(b)
  <2>1. DOMAIN a = DOMAIN b
    BY <1>1, ObjectValue
  <2> QED BY <1>1, <2>1 DEF Canonical
<1> QED BY <1>1, CanonicalObject

Payloads == [id : Ids, method : {"tool", "batch"}, calls : Seq(CallRecords)]

\* The calls of a payload in their canonical form, and as values.
WithArgs(c, args) == [id |-> c.id, name |-> c.name, args |-> args]
CanonicalCalls(p) == [i \in 1..Len(p.calls) |-> WithArgs(p.calls[i], Canonical(p.calls[i].args))]
CallValues(p) == [i \in 1..Len(p.calls) |-> WithArgs(p.calls[i], AsValue(p.calls[i].args))]
Bearing(p, calls_) == [id |-> p.id, method |-> p.method, calls |-> calls_]

LEMMA PayloadFacts ==
    ASSUME NEW p \in Payloads
    PROVE  /\ p = Bearing(p, p.calls)
           /\ Len(p.calls) \in Nat /\ DOMAIN p.calls = 1..Len(p.calls)
           /\ \A i \in 1..Len(p.calls) : p.calls[i] \in CallRecords /\ p.calls[i].args \in Objects
<1>1. p.calls \in Seq(CallRecords) /\ p = Bearing(p, p.calls)
  BY DEF Payloads, Bearing
<1>2. \A i \in 1..Len(p.calls) : p.calls[i] \in CallRecords
  BY <1>1
<1> QED BY <1>1, <1>2 DEF CallRecords

LEMMA EachCallForms ==
    ASSUME NEW p \in Payloads
    PROVE  Digest(p) = Bearing(p, CanonicalCalls(p)) /\ EachCall(p, AsValue) = Bearing(p, CallValues(p))
<1>1. DOMAIN p.calls = 1..Len(p.calls)
  BY PayloadFacts
<1>2. Digest(p) = [p EXCEPT !.calls = CanonicalCalls(p)]
  BY <1>1 DEF Digest, EachCall, CanonicalCalls, WithArgs
<1>3. EachCall(p, AsValue) = [p EXCEPT !.calls = CallValues(p)]
  BY <1>1 DEF EachCall, CallValues, WithArgs
<1>4. \A c : [p EXCEPT !.calls = c] = Bearing(p, c)
  BY DEF Payloads, Bearing
<1> QED BY <1>2, <1>3, <1>4

LEMMA BearingFacts ==
    /\ \A p, c : Bearing(p, c).id = p.id /\ Bearing(p, c).method = p.method /\ Bearing(p, c).calls = c
    /\ \A c, v : WithArgs(c, v).id = c.id /\ WithArgs(c, v).name = c.name /\ WithArgs(c, v).args = v
  BY DEF Bearing, WithArgs

\* A digest is a payload of the same value.
LEMMA DigestFacts ==
    ASSUME NEW p \in Payloads
    PROVE  Digest(p) \in Payloads /\ SameValue(Digest(p), p)
<1> DEFINE n == Len(p.calls)
<1>1. PICK d : d = Digest(p)
  OBVIOUS
<1>2. d = Bearing(p, CanonicalCalls(p)) /\ n \in Nat
  BY <1>1, EachCallForms, PayloadFacts
<1>3. d.id = p.id /\ d.method = p.method /\ d.calls = CanonicalCalls(p)
  BY <1>2, BearingFacts
<1>4. \A i \in 1..n :
         /\ d.calls[i] \in CallRecords
         /\ WithArgs(d.calls[i], AsValue(d.calls[i].args)) = WithArgs(p.calls[i], AsValue(p.calls[i].args))
  <2> TAKE i \in 1..n
  <2>1. p.calls[i] \in CallRecords /\ p.calls[i].args \in Objects
    BY PayloadFacts
  <2>2. PICK c : c = Canonical(p.calls[i].args)
    OBVIOUS
  <2>3. c \in Objects /\ AsValue(c) = AsValue(p.calls[i].args)
    BY <2>1, <2>2, CanonicalObject
  <2>4. d.calls[i] = WithArgs(p.calls[i], c)
    BY <1>3, <2>2 DEF CanonicalCalls
  <2>5. d.calls[i] \in CallRecords
    BY <2>1, <2>3, <2>4 DEF CallRecords, WithArgs
  <2>6. d.calls[i].id = p.calls[i].id /\ d.calls[i].name = p.calls[i].name /\ d.calls[i].args = c
    BY <2>4, BearingFacts
  <2> QED BY <2>3, <2>5, <2>6 DEF WithArgs
<1>5. d.calls \in Seq(CallRecords) /\ Len(d.calls) = n
  <2>1. d.calls = [i \in 1..n |-> d.calls[i]]
    BY <1>3 DEF CanonicalCalls
  <2>2. d.calls \in [1..n -> CallRecords]
    BY <1>4, <2>1
  <2> QED BY <1>2, <2>2
<1>6. d \in Payloads
  BY <1>2, <1>3, <1>5 DEF Payloads, Bearing
<1>7. CallValues(d) = CallValues(p)
  BY <1>4, <1>5 DEF CallValues
<1>8. EachCall(d, AsValue) = EachCall(p, AsValue)
  BY <1>3, <1>6, <1>7, EachCallForms DEF Bearing
<1> QED BY <1>1, <1>6, <1>8 DEF SameValue

\* A digest identifies a payload up to the order of the keys in its objects.
LEMMA DigestIdentifies ==
    ASSUME NEW p \in Payloads, NEW q \in Payloads
    PROVE  Digest(p) = Digest(q) <=> SameValue(p, q)
<1>1. ASSUME SameValue(p, q)
      PROVE  Digest(p) = Digest(q)
  <2>1. Bearing(p, CallValues(p)) = Bearing(q, CallValues(q))
    BY <1>1, EachCallForms DEF SameValue
  <2>2. p.id = q.id /\ p.method = q.method /\ CallValues(p) = CallValues(q)
    BY <2>1, BearingFacts
  <2>3. 1..Len(p.calls) = 1..Len(q.calls)
    <3>1. DOMAIN CallValues(p) = 1..Len(p.calls) /\ DOMAIN CallValues(q) = 1..Len(q.calls)
      BY DEF CallValues
    <3> QED BY <2>2, <3>1
  <2>4. ASSUME NEW i \in 1..Len(p.calls)
        PROVE  WithArgs(p.calls[i], Canonical(p.calls[i].args)) = WithArgs(q.calls[i], Canonical(q.calls[i].args))
    <3>1. WithArgs(p.calls[i], AsValue(p.calls[i].args)) = WithArgs(q.calls[i], AsValue(q.calls[i].args))
      <4>1. CallValues(p)[i] = WithArgs(p.calls[i], AsValue(p.calls[i].args))
        BY <2>4 DEF CallValues
      <4>2. CallValues(q)[i] = WithArgs(q.calls[i], AsValue(q.calls[i].args))
        BY <2>3, <2>4 DEF CallValues
      <4> QED BY <2>2, <4>1, <4>2
    <3>2. /\ p.calls[i].id = q.calls[i].id /\ p.calls[i].name = q.calls[i].name
          /\ AsValue(p.calls[i].args) = AsValue(q.calls[i].args)
      BY <3>1, BearingFacts
    <3>3. p.calls[i].args \in Objects /\ q.calls[i].args \in Objects
      BY <2>3, PayloadFacts
    <3>4. Canonical(p.calls[i].args) = Canonical(q.calls[i].args)
      BY <3>2, <3>3, CanonicalSame
    <3> QED BY <3>2, <3>4 DEF WithArgs
  <2>5. CanonicalCalls(p) = CanonicalCalls(q)
    BY <2>3, <2>4 DEF CanonicalCalls
  <2> QED BY <2>2, <2>5, EachCallForms DEF Bearing
<1>2. ASSUME Digest(p) = Digest(q)
      PROVE  SameValue(p, q)
  BY <1>2, DigestFacts DEF SameValue
<1> QED BY <1>1, <1>2

\* Siblings keep their ids, in order, as values.
LEMMA SiblingsOfValue ==
    ASSUME NEW p \in Payloads
    PROVE  /\ SiblingIds(EachCall(p, AsValue)) = SiblingIds(p)
           /\ EachCall(p, AsValue).id = p.id /\ EachCall(p, AsValue).method = p.method
<1>1. PICK v : v = EachCall(p, AsValue)
  OBVIOUS
<1>2. v.calls = CallValues(p) /\ v.id = p.id /\ v.method = p.method
  BY <1>1, EachCallForms, BearingFacts
<1>3. DOMAIN v.calls = 1..Len(p.calls) /\ \A i \in 1..Len(p.calls) : v.calls[i].id = p.calls[i].id
  BY <1>2, BearingFacts DEF CallValues
<1>4. SiblingIds(v) = SiblingIds(p)
  BY <1>3, PayloadFacts DEF SiblingIds
<1> QED BY <1>1, <1>2, <1>4

LEMMA EnvelopeFacts ==
    ASSUME NEW id \in Ids, NEW draft \in Drafts
    PROVE  Envelope(id, draft) \in Payloads /\ Envelope(id, draft).id = id
  BY ExactBindingAssumption DEF ExactBindingAssumption, Envelope, Payloads

\* A reviewer's diff makes a payload of a payload.
LEMMA CandidatesFacts ==
    ASSUME NEW p \in Payloads, NEW granted \in Candidates(p)
    PROVE  granted \in Payloads
<1>1. PICK e : e = [p EXCEPT !.calls[1].args[1][2] = Edited]
  OBVIOUS
<1>2. e \in Payloads
  <2>1. Edited \in Values
    BY ExactBindingAssumption DEF ExactBindingAssumption
  <2>2. CASE 1 \notin 1..Len(p.calls)
    <3>1. p.calls = [i \in 1..Len(p.calls) |-> p.calls[i]] /\ p.calls \in Seq(CallRecords)
      BY PayloadFacts DEF Payloads
    <3>2. e = [p EXCEPT !.calls = @]
      BY <1>1, <2>2, <3>1, PayloadFacts
    <3> QED BY <3>2 DEF Payloads
  <2>3. CASE 1 \in 1..Len(p.calls)
    <3>1. PICK c : c = p.calls[1]
      OBVIOUS
    <3>2. PICK s : s = c.args
      OBVIOUS
    <3>3. c \in CallRecords /\ s \in Objects
      BY <2>3, <3>1, <3>2, PayloadFacts
    <3>4. PICK s1 : s1 = [s EXCEPT ![1][2] = Edited]
      OBVIOUS
    <3>5. s1 \in Objects
      <4>1. s \in Seq(Nat \X Values) /\ DOMAIN s = 1..Len(s)
        BY <3>3 DEF Objects
      <4>2. \A i \in 1..Len(s) : s[i] \in Nat \X Values
        BY <4>1
      <4>3. DOMAIN s1 = 1..Len(s) /\ \A i \in 1..Len(s) : s1[i] = IF i = 1 THEN [s[i] EXCEPT ![2] = Edited] ELSE s[i]
        BY <3>4, <4>1
      <4>4. \A i \in 1..Len(s) : [s[i] EXCEPT ![2] = Edited] = <<s[i][1], Edited>>
        BY <4>2
      <4>5. \A i \in 1..Len(s) : s1[i] \in Nat \X Values /\ s1[i][1] = s[i][1]
        BY <2>1, <4>2, <4>3, <4>4
      <4>6. s1 \in Seq(Nat \X Values)
        <5>1. s = [i \in 1..Len(s) |-> s[i]] /\ Len(s) \in Nat
          BY <4>1
        <5>2. s1 = [i \in 1..Len(s) |-> s1[i]]
          BY <3>4, <5>1
        <5> QED BY <4>5, <5>1, <5>2
      <4>7. \A i, j \in DOMAIN s1 : s1[i][1] = s1[j][1] => i = j
        BY <3>3, <4>1, <4>3, <4>5 DEF Objects
      <4> QED BY <4>6, <4>7 DEF Objects
    <3>6. PICK c1 : c1 = [c EXCEPT !.args = s1]
      OBVIOUS
    <3>7. c1 \in CallRecords
      BY <3>3, <3>5, <3>6 DEF CallRecords
    <3>8. [p.calls EXCEPT ![1] = c1] \in Seq(CallRecords)
      <4>1. PICK q : q = p.calls
        OBVIOUS
      <4>2. q \in [1..Len(q) -> CallRecords] /\ Len(q) \in Nat
        BY <4>1 DEF Payloads
      <4>3. [q EXCEPT ![1] = c1] \in [1..Len(q) -> CallRecords]
        BY <3>7, <4>2
      <4> QED BY <4>1, <4>2, <4>3
    <3>9. e = [p EXCEPT !.calls = [p.calls EXCEPT ![1] = c1]]
      BY <1>1, <3>1, <3>2, <3>4, <3>6
    <3> QED BY <3>8, <3>9 DEF Payloads
  <2> QED BY <2>2, <2>3
<1>3. [e EXCEPT !.calls = Reverse(@)] \in Payloads
  <2>1. e.calls \in Seq(CallRecords) /\ Len(e.calls) \in Nat /\ DOMAIN e.calls = 1..Len(e.calls)
    BY <1>2 DEF Payloads
  <2>2. \A i \in 1..Len(e.calls) : (Len(e.calls) - i) + 1 \in 1..Len(e.calls)
    BY <2>1
  <2>3. Reverse(e.calls) \in Seq(CallRecords)
    BY <2>1, <2>2 DEF Reverse
  <2> QED BY <1>2, <2>3 DEF Payloads
<1> QED BY <1>1, <1>2, <1>3 DEF Candidates

-----------------------------------------------------------------------------
(* The inductive invariant.                                                *)

Shapes ==
    /\ review \in [Rounds -> Standings]
    /\ retained = [id \in Ids |-> retained[id]]
    /\ calls = [t \in Tasks |-> calls[t]]

\* An authorization is given for a round that needed no review, or whose
\* review approved.
Grant(a) ==
    /\ a = [kind |-> "authorization", round |-> a.round, id |-> a.id, payload |-> a.payload,
            digest |-> a.digest, modified |-> a.modified]
    /\ a.round \in Rounds
    /\ review[a.round] \in {"none", "approved", "modified"}

\* A handle is given for a round that is, or was, under review.
Parked(h) == h.kind = "pending" /\ h.round \in Rounds /\ review[h.round] # "none"

AnswersOK == \A a \in answers : Grant(a) \/ Parked(a)

RetainedOK ==
    \A id \in Ids :
        retained[id] # None =>
            /\ retained[id].round \in Rounds
            /\ retained[id].authorization # None =>
                  /\ Grant(retained[id].authorization)
                  /\ retained[id].authorization.round = retained[id].round

HandlesOK ==
    /\ \A h \in handles : Parked(h)
    /\ \A t \in Tasks :
          calls[t] # None => calls[t].id \in Ids /\ calls[t].handle \in handles \cup {None}

ReleasedOK ==
    \A x \in released :
        x.handle # None => /\ x.handle.round \in Rounds
                           /\ review[x.handle.round] \in {"approved", "modified"}

BindingInv ==
    /\ Shapes /\ AnswersOK /\ RetainedOK /\ HandlesOK
    /\ ReleasedOK /\ OutcomesAnswerTheirHandles

LEMMA BindingInit == Init => BindingInv
<1> SUFFICES ASSUME Init PROVE BindingInv
  OBVIOUS
<1>1. Shapes
  BY DEF Init, ReviewInit, Standings, Shapes
<1> QED BY <1>1 DEF Init, BindingInv, AnswersOK, RetainedOK, HandlesOK, ReleasedOK,
                    OutcomesAnswerTheirHandles

-----------------------------------------------------------------------------
(* Rounds move on, and what was said of them stays true.                   *)

\* How a step may move the rounds: only one that nobody was told of opens.
RoundsMoveOn ==
    \/ UNCHANGED review
    \/ \E n \in Rounds \ Used : Open(n)
    \/ \E n \in Rounds : Decide(n)

LEMMA RoundFacts ==
    ASSUME Shapes, RoundsMoveOn
    PROVE  /\ review' \in [Rounds -> Standings]
           /\ \A n \in Rounds : /\ review[n] # "none" => review'[n] # "none"
                                /\ review[n] \in {"approved", "modified"} => review'[n] = review[n]
                                /\ n \in Used /\ review[n] = "none" => review'[n] = "none"
<1>1. CASE UNCHANGED review
  BY <1>1 DEF Shapes
<1>2. ASSUME NEW n \in Rounds, (Open(n) /\ n \notin Used) \/ Decide(n)
      PROVE  /\ review[n] \in {"none", "open"} /\ (review[n] = "none" => n \notin Used)
             /\ \E s \in Standings \ {"none"} : review' = [review EXCEPT ![n] = s]
  BY <1>2 DEF Open, Decide, Standings
<1> QED BY <1>1, <1>2 DEF Shapes, RoundsMoveOn, Standings

\* What is retained or was answered is about a round in use.
LEMMA InUse ==
    /\ \A a \in answers : a.round \in Used
    /\ \A id \in Ids : retained[id] # None => retained[id].round \in Used
  BY DEF Used

LEMMA RecordsKeep ==
    ASSUME Shapes, RoundsMoveOn
    PROVE  /\ \A a : Grant(a) /\ a.round \in Used => Grant(a)'
           /\ \A h : Parked(h) => Parked(h)'
<1>1. ASSUME NEW a, Grant(a), a.round \in Used
      PROVE  Grant(a)'
  <2>1. review'[a.round] = review[a.round]
    BY <1>1, RoundFacts DEF Grant
  <2> QED BY <1>1, <2>1 DEF Grant
<1>2. ASSUME NEW h, Parked(h)
      PROVE  Parked(h)'
  BY <1>2, RoundFacts DEF Parked
<1> QED BY <1>1, <1>2

\* The invariant, when a step adds only well-founded answers, retained
\* decisions, handles and calls, and releases nothing.
LEMMA BindingKeeps ==
    ASSUME BindingInv, RoundsMoveOn, Shapes',
           \A a \in answers' \ answers : (Grant(a) \/ Parked(a))',
           \A id \in Ids : retained'[id] = retained[id] \/ retained'[id] = None \/
              /\ retained'[id].round \in Rounds
              /\ retained'[id].authorization # None =>
                    \E a : /\ a = retained'[id].authorization /\ Grant(a)'
                           /\ a.round = retained'[id].round,
           handles \subseteq handles', \A h \in handles' \ handles : Parked(h),
           \A t \in Tasks : calls'[t] # None =>
              \/ calls'[t] = calls[t]
              \/ calls'[t].id \in Ids /\ calls'[t].handle \in handles \cup {None}
    PROVE  AnswersOK' /\ RetainedOK' /\ HandlesOK'
<1> USE DEF BindingInv
<1>1. AnswersOK'
  <2>1. ASSUME NEW a \in answers
        PROVE  (Grant(a) \/ Parked(a))'
    BY RecordsKeep, InUse DEF AnswersOK
  <2> QED BY <2>1 DEF AnswersOK
<1>2. RetainedOK'
  <2> SUFFICES ASSUME NEW id \in Ids, retained'[id] # None
               PROVE  /\ retained'[id].round \in Rounds
                      /\ retained'[id].authorization # None =>
                            /\ Grant(retained[id].authorization)'
                            /\ retained'[id].authorization.round = retained'[id].round
    BY DEF RetainedOK
  <2>1. CASE retained'[id] = retained[id]
    <3> DEFINE a == retained[id].authorization
    <3>1. retained[id].round \in Rounds /\ retained[id].round \in Used
      BY <2>1, InUse DEF RetainedOK
    <3>2. CASE a # None
      <4>1. Grant(a) /\ a.round = retained[id].round
        BY <2>1, <3>2 DEF RetainedOK
      <4>2. PICK b : b = a
        OBVIOUS
      <4>3. Grant(b)'
        BY <3>1, <4>1, <4>2, RecordsKeep
      <4> QED BY <2>1, <3>1, <4>1, <4>2, <4>3 DEF Grant
    <3> QED BY <2>1, <3>1, <3>2
  <2>2. CASE retained'[id] # retained[id]
    BY <2>2 DEF Grant
  <2> QED BY <2>1, <2>2
<1>3. HandlesOK'
  BY RecordsKeep DEF HandlesOK
<1> QED BY <1>1, <1>2, <1>3

LEMMA ReleasedKeeps ==
    ASSUME BindingInv, RoundsMoveOn,
           released \subseteq released',
           \A x \in released' \ released :
              x.handle # None => /\ x.handle.round \in Rounds
                                 /\ review[x.handle.round] \in {"approved", "modified"},
           \A o \in reconciled' \ reconciled :
              /\ o.receipt = o.asked
              /\ \E x \in released : x.round = o.asked.round /\ x.id = o.asked.id
                                    /\ x.executor = o.asked.executor /\ Digest(x.payload) = o.asked.digest
    PROVE  ReleasedOK' /\ OutcomesAnswerTheirHandles'
<1> USE DEF BindingInv
<1>1. ReleasedOK'
  BY RoundFacts DEF ReleasedOK
<1>2. OutcomesAnswerTheirHandles'
  BY DEF OutcomesAnswerTheirHandles
<1> QED BY <1>1, <1>2

\* A step of one task, by what it leaves alone.
LEMMA CallEndFacts ==
    ASSUME Shapes, NEW t \in Tasks, CallEnds(t)
    PROVE  /\ Shapes' /\ RoundsMoveOn /\ UNCHANGED <<retained, answers>>
           /\ \A v \in Tasks : calls'[v] # None => calls'[v] = calls[v]
  BY DEF Shapes, CallEnds, RoundsMoveOn

\* Who receives an authorization, received one that was given for its round,
\* even if its payload is another's.
LEMMA ArrivingFacts ==
    ASSUME AnswersOK, NEW a \in Arriving, a.kind = "authorization"
    PROVE  a.round \in Rounds /\ review[a.round] \in {"none", "approved", "modified"}
<1>1. CASE a \in answers
  BY <1>1 DEF AnswersOK, Grant, Parked
<1>2. ASSUME NEW b \in answers, NEW c \in answers, b.kind = "authorization",
             a = [b EXCEPT !.payload = c.payload]
      PROVE  a.round \in Rounds /\ review[a.round] \in {"none", "approved", "modified"}
  <2>1. Grant(b)
    BY <1>2 DEF AnswersOK, Parked
  <2>2. a.round = b.round
    BY <1>2, <2>1 DEF Grant
  <2> QED BY <2>1, <2>2 DEF Grant
<1> QED BY <1>1, <1>2 DEF Arriving

\* The executor is reached under the review of the presented handle.
LEMMA ExecuteStep ==
    ASSUME BindingInv, NEW t \in Tasks, NEW a \in Arriving, Execute(t, a)
    PROVE  BindingInv'
<1> USE DEF BindingInv
<1>1. /\ calls[t] # None /\ Authorizes(a, calls[t]) /\ CallEnds(t)
      /\ UNCHANGED <<handles, reconciled>>
      /\ released' \in {released, released \cup {ExecutionRequest(a, calls[t])}}
  BY DEF Execute
<1>2. AnswersOK' /\ RetainedOK' /\ HandlesOK'
  BY <1>1, CallEndFacts, BindingKeeps
<1>3. a.round \in Rounds /\ review[a.round] \in {"none", "approved", "modified"}
  BY <1>1, ArrivingFacts DEF Authorizes
<1>4. ASSUME calls[t].handle # None
      PROVE  /\ calls[t].handle.round \in Rounds
             /\ review[calls[t].handle.round] \in {"approved", "modified"}
  <2>1. calls[t].handle \in handles /\ Parked(calls[t].handle)
    BY <1>1, <1>4 DEF HandlesOK
  <2>2. a.round = calls[t].handle.round
    BY <1>1, <1>4 DEF Authorizes, FitsHandle
  <2> QED BY <1>3, <2>1, <2>2 DEF Parked
<1>5. ExecutionRequest(a, calls[t]).handle = calls[t].handle
  BY DEF ExecutionRequest
<1>6. ReleasedOK' /\ OutcomesAnswerTheirHandles'
  BY <1>1, <1>4, <1>5, CallEndFacts, ReleasedKeeps
<1> QED BY <1>1, <1>2, <1>6, CallEndFacts

\* Proxy answers about a round it has decided, or that its reviewers have.
LEMMA ProxyStep ==
    ASSUME BindingInv, NEW t \in Tasks, ProxyDecides(t) \/ ProxyAnswers(t)
    PROVE  BindingInv'
<1> USE DEF BindingInv
<1> DEFINE id == calls[t].id
<1>1. UNCHANGED <<handles, calls, released, reconciled>>
  BY DEF ProxyDecides, ProxyAnswers, Retains
<1>2. CASE ProxyDecides(t)
  <2>1. PICK n \in Fresh :
           \/ Retains(id, Allowed(calls[t], n)) /\ UNCHANGED review
           \/ Retains(id, Decision(calls[t], n)) /\ Open(n)
    BY <1>2 DEF ProxyDecides
  <2>2. n \in Rounds \ Used /\ UNCHANGED answers /\ review[n] = "none"
    BY <1>2 DEF Fresh, ProxyDecides, Used
  <2>3. RoundsMoveOn
    BY <2>1, <2>2 DEF RoundsMoveOn
  <2>4. Shapes' /\ \A i \in Ids : i # id => retained'[i] = retained[i]
    BY <1>1, <2>1, <2>3, RoundFacts DEF Shapes, Retains
  <2>5. CASE Retains(id, Allowed(calls[t], n)) /\ UNCHANGED review
    <3>0. PICK a : a = Authorization(n, id, Digest(calls[t].payload), FALSE)
      OBVIOUS
    <3>1. Grant(a)' /\ a.round = n
      BY <2>2, <2>5, <3>0 DEF Grant, Authorization
    <3>2. id \in Ids => retained'[id].round = n /\ retained'[id].authorization = a
      BY <2>5, <3>0 DEF Shapes, Retains, Allowed, Decision
    <3> HIDE DEF id
    <3>3. AnswersOK' /\ RetainedOK' /\ HandlesOK'
      <4>1. ASSUME NEW i \in Ids
            PROVE  \/ retained'[i] = retained[i] \/ retained'[i] = None
                   \/ /\ retained'[i].round \in Rounds
                      /\ retained'[i].authorization # None =>
                            \E b : /\ b = retained'[i].authorization /\ Grant(b)'
                                   /\ b.round = retained'[i].round
        BY <2>2, <2>4, <3>1, <3>2
      <4> QED BY <1>1, <2>2, <2>3, <2>4, <4>1, BindingKeeps
    <3>4. ReleasedOK' /\ OutcomesAnswerTheirHandles'
      BY <1>1, <2>3, ReleasedKeeps
    <3> QED BY <2>4, <3>3, <3>4
  <2>6. CASE Retains(id, Decision(calls[t], n)) /\ Open(n)
    <3>1. id \in Ids => retained'[id].round = n /\ retained'[id].authorization = None
      BY <2>6 DEF Shapes, Retains, Decision
    <3> HIDE DEF id
    <3>2. AnswersOK' /\ RetainedOK' /\ HandlesOK'
      BY <1>1, <2>2, <2>3, <2>4, <3>1, BindingKeeps
    <3>3. ReleasedOK' /\ OutcomesAnswerTheirHandles'
      BY <1>1, <2>3, ReleasedKeeps
    <3> QED BY <2>4, <3>2, <3>3
  <2> QED BY <2>1, <2>5, <2>6
<1>3. CASE ProxyAnswers(t)
  <2> DEFINE decision == retained[id]
             n        == decision.round
             Answers(granted) ==
                LET a == Authorization(n, id, granted, review[n] = "modified")
                IN  /\ answers' = answers \cup {a}
                    /\ Retains(id, [decision EXCEPT !.authorization = a])
  <2>1. /\ decision # None /\ UNCHANGED review
        /\ \/ /\ decision.authorization # None
              /\ answers' = answers \cup {decision.authorization}
              /\ Retains(id, decision)
           \/ /\ review[n] = "open"
              /\ answers' = answers \cup {Pending(n, id, decision.payload)}
              /\ Retains(id, decision)
           \/ \E granted \in IF review[n] = "modified" THEN Candidates(decision.payload)
                              ELSE {decision.payload} :
                 review[n] \in {"approved", "modified"} /\ Answers(granted)
    BY <1>3 DEF ProxyAnswers
  <2>2. RoundsMoveOn
    BY <2>1, SMTT(30) DEF RoundsMoveOn
  <2>3. Shapes' /\ \A i \in Ids : i # id => retained'[i] = retained[i]
    BY <1>1, <2>1 DEF Shapes, Retains
  <2>4. ReleasedOK' /\ OutcomesAnswerTheirHandles'
    BY <1>1, <2>2, ReleasedKeeps
  <2>5. id \in Ids /\ n \in Rounds
    BY <1>3, <2>1 DEF ProxyAnswers, HandlesOK, RetainedOK
  <2>6. CASE /\ decision.authorization # None
             /\ answers' = answers \cup {decision.authorization}
             /\ Retains(id, decision)
    <3>1. PICK a : a = decision.authorization
      BY SMTT(30)
    <3>2. Grant(a) /\ a.round = n
      BY <2>1, <2>5, <2>6, <3>1, SMTT(30) DEF RetainedOK
    <3>3. Grant(a)'
      BY <2>1, <3>2 DEF Grant
    <3>4. retained' = retained
      BY <2>5, <2>6 DEF Shapes, Retains
    <3> QED BY <1>1, <2>2, <2>3, <2>4, <2>6, <3>1, <3>3, <3>4, BindingKeeps
  <2>7. CASE /\ review[n] = "open"
             /\ answers' = answers \cup {Pending(n, id, decision.payload)}
             /\ Retains(id, decision)
    <3>1. PICK a : a = Pending(n, id, decision.payload)
      OBVIOUS
    <3>2. Parked(a)'
      BY <2>1, <2>5, <2>7, <3>1 DEF Parked, Pending
    <3>3. retained' = retained
      BY <2>5, <2>7 DEF Shapes, Retains
    <3> QED BY <1>1, <2>2, <2>3, <2>4, <2>7, <3>1, <3>2, <3>3, BindingKeeps
  <2>8. ASSUME NEW granted, review[n] \in {"approved", "modified"}, Answers(granted)
        PROVE  BindingInv'
    <3>1. PICK a : a = Authorization(n, id, granted, review[n] = "modified")
      BY SMTT(30)
    <3>2. Grant(a)' /\ a.round = n
      BY <2>1, <2>5, <2>8, <3>1 DEF Grant, Authorization
    <3>3. answers' = answers \cup {a} /\ retained' = [retained EXCEPT ![id] = [decision EXCEPT !.authorization = a]]
      BY <2>8, <3>1 DEF Retains
    <3>4. retained'[id].round = n /\ retained'[id].authorization \in {a, decision.authorization}
      BY <2>5, <3>3 DEF Shapes
    <3>5. decision.authorization # None =>
             \E b : b = decision.authorization /\ Grant(b)' /\ b.round = n
      <4>1. PICK b : b = decision.authorization
        OBVIOUS
      <4>2. b # None => Grant(b) /\ b.round = n
        BY <2>1, <2>5, <4>1, SMTT(30) DEF RetainedOK
      <4>3. Grant(b) => Grant(b)'
        BY <2>1 DEF Grant
      <4> QED BY <4>1, <4>2, <4>3
    <3>6. AnswersOK' /\ RetainedOK' /\ HandlesOK'
      <4> HIDE DEF id, n, decision
      <4> QED BY <1>1, <2>2, <2>3, <2>5, <3>2, <3>3, <3>4, <3>5, BindingKeeps
    <3> QED BY <2>3, <2>4, <3>6
  <2> HIDE DEF Answers
  <2> QED BY <2>1, <2>6, <2>7, <2>8, SMTT(30)
<1> QED BY <1>2, <1>3

LEMMA BindingStep ==
    ASSUME BindingInv, [Next]_vars
    PROVE  BindingInv'
<1> USE DEF BindingInv
<1>1. ASSUME NEW t \in Tasks, NEW id \in Ids, NEW draft \in Drafts,
             NEW handle \in handles \cup {None}, Send(t, id, draft, handle)
      PROVE  BindingInv'
  <2>1. /\ calls' = [calls EXCEPT ![t] = Call(id, Envelope(id, draft), handle)]
        /\ UNCHANGED <<handles, retained, answers, released, reconciled, review>>
    BY <1>1 DEF Send
  <2>2. /\ Shapes' /\ RoundsMoveOn
        /\ \A v \in Tasks : \/ calls'[v] = calls[v]
                            \/ calls'[v].id \in Ids /\ calls'[v].handle \in handles \cup {None}
    BY <2>1 DEF Shapes, RoundsMoveOn, Call
  <2> QED BY <2>1, <2>2, BindingKeeps, ReleasedKeeps
<1>2. ASSUME NEW e \in Executors, Restart(e)
      PROVE  BindingInv'
  <2>1. /\ calls' = [t \in Tasks |-> None]
        /\ UNCHANGED <<handles, retained, answers, released, reconciled, review>>
    BY <1>2 DEF Restart
  <2>2. Shapes' /\ RoundsMoveOn
    BY <2>1 DEF Shapes, RoundsMoveOn
  <2> QED BY <2>1, <2>2, BindingKeeps, ReleasedKeeps
<1>3. ASSUME NEW u \in uncertain, NEW intent \in intents, Reconcile(u, intent)
      PROVE  BindingInv'
  <2> DEFINE a == intent.authorization
             o == [asked |-> u, receipt |-> Receipt(a, executor)]
  <2>1. /\ reconciled' = reconciled \cup {o}
        /\ UNCHANGED <<handles, retained, answers, released, calls, review>>
        /\ u = UncertainFrom(a) /\ intent = Intent(a) /\ LookupFinds(intent)
    BY <1>3 DEF Reconcile, IntentFits
  <2>2. Shapes' /\ RoundsMoveOn
    BY <2>1 DEF Shapes, RoundsMoveOn
  <2>3. /\ intent.round = u.round /\ intent.id = u.id /\ intent.digest = u.digest
        /\ intent.executor = u.executor /\ Receipt(a, executor) = u
    BY <2>1 DEF UncertainFrom, Intent, Receipt
  <2>4. /\ o.receipt = o.asked /\ o.asked = u
        /\ \E x \in released : x.round = u.round /\ x.id = u.id
                              /\ x.executor = u.executor /\ Digest(x.payload) = u.digest
    BY <2>1, <2>3 DEF LookupFinds
  <2> HIDE DEF o
  <2> QED BY <2>1, <2>2, <2>4, BindingKeeps, ReleasedKeeps
<1>4. ASSUME NEW t \in Tasks, CallFails(t)
      PROVE  BindingInv'
  BY <1>4, CallEndFacts, BindingKeeps, ReleasedKeeps DEF CallFails
<1>5. ASSUME NEW t \in Tasks, NEW a \in Arriving, ReceivePending(t, a)
      PROVE  BindingInv'
  <2>1. /\ a.kind = "pending" /\ CallEnds(t) /\ handles' = handles \cup {a}
        /\ UNCHANGED <<released, reconciled>>
    BY <1>5 DEF ReceivePending
  <2>2. Parked(a)
    <3>1. a \in answers
      <4>1. ASSUME NEW b \in answers, NEW c \in answers, b.kind = "authorization",
                   a = [b EXCEPT !.payload = c.payload]
            PROVE  FALSE
        <5>1. Grant(b)
          BY <4>1 DEF AnswersOK, Parked
        <5> QED BY <2>1, <4>1, <5>1 DEF Grant
      <4> QED BY <4>1 DEF Arriving
    <3> QED BY <2>1, <3>1 DEF AnswersOK, Grant
  <2> QED BY <2>1, <2>2, CallEndFacts, BindingKeeps, ReleasedKeeps
<1>6. ASSUME NEW t \in Tasks, NEW a \in Arriving, AttemptRefused(t, a)
      PROVE  BindingInv'
  BY <1>6, CallEndFacts, BindingKeeps, ReleasedKeeps DEF AttemptRefused
<1>7. ASSUME NEW id \in Ids, ProxyForgets(id)
      PROVE  BindingInv'
  <2>1. /\ retained' = [retained EXCEPT ![id] = None]
        /\ UNCHANGED <<handles, calls, answers, released, reconciled, review>>
    BY <1>7 DEF ProxyForgets, Retains
  <2>2. Shapes' /\ RoundsMoveOn /\ \A i \in Ids : retained'[i] \in {retained[i], None}
    BY <2>1 DEF Shapes, RoundsMoveOn
  <2> QED BY <2>1, <2>2, BindingKeeps, ReleasedKeeps
<1>8. ASSUME NEW n \in Rounds, Decide(n), UNCHANGED bindingVars
      PROVE  BindingInv'
  <2>1. /\ RoundsMoveOn
        /\ UNCHANGED <<handles, calls, answers, released, reconciled, retained>>
    BY <1>8 DEF RoundsMoveOn, bindingVars
  <2>2. Shapes'
    BY <2>1, RoundFacts DEF Shapes
  <2> QED BY <2>1, <2>2, BindingKeeps, ReleasedKeeps
<1>9. CASE UNCHANGED vars
  <2>1. /\ RoundsMoveOn
        /\ UNCHANGED <<handles, calls, answers, released, reconciled, retained, review>>
    BY <1>9 DEF RoundsMoveOn, bindingVars, vars
  <2>2. Shapes'
    BY <2>1 DEF Shapes
  <2> QED BY <2>1, <2>2, BindingKeeps, ReleasedKeeps
<1> HIDE DEF BindingInv
<1> QED BY <1>1, <1>2, <1>3, <1>4, <1>5, <1>6, <1>7, <1>8, <1>9, ProxyStep, ExecuteStep
        DEF Next, Host, Task, Begin, Resume

\* The inductive invariant holds throughout.
THEOREM BindingInvariant == Spec => []BindingInv
  BY BindingInit, BindingStep, PTL DEF Spec

-----------------------------------------------------------------------------
(* The theorems.                                                           *)

\* A resumed request reaches the executor only under the approval of the very
\* review that its handle names (validate_pending_authorization and the
\* comparison of correlations in authorize_payload_state), although Proxy may
\* forget what it decided and decide the same identity anew.
THEOREM ResumeTheorem == Spec => []ResumedUnderItsReview
<1>1. BindingInv => ResumedUnderItsReview
  BY DEF BindingInv, ReleasedOK, ResumedUnderItsReview
<1> QED BY <1>1, BindingInvariant, PTL

\* A reconciled outcome answers for the effect that its handle names
\* (validate_uncertain_intent, the lookup's request and the receipt).
THEOREM OutcomeTheorem == Spec => []OutcomesAnswerTheirHandles
  BY BindingInvariant, PTL DEF BindingInv

\* Governed execution uses human review as ReviewRound promises it, which is
\* what ReviewQueue implements.
THEOREM UsesReviewRound == Spec => ReviewSpec
<1>1. Init => ReviewInit
  BY DEF Init
<1>2. ASSUME [Next]_vars
      PROVE  [\E n \in Rounds : Open(n) \/ Decide(n)]_review
  <2>1. ASSUME NEW t \in Tasks, Task(t)
        PROVE  UNCHANGED review \/ \E n \in Rounds : Open(n)
    BY <2>1 DEF Task, ProxyDecides, ProxyAnswers, CallFails, ReceivePending, AttemptRefused, Execute,
                CallEnds, Fresh
  <2>2. CASE Host
    BY <2>2 DEF Host, Begin, Resume, Send, Restart, Reconcile
  <2>3. CASE \E id \in Ids : ProxyForgets(id)
    BY <2>3 DEF ProxyForgets
  <2> QED BY <1>2, <2>1, <2>2, <2>3, SMTT(30) DEF Next, vars
<1> QED BY <1>1, <1>2, PTL DEF Spec, ReviewSpec

-----------------------------------------------------------------------------
(* Every record carries a payload that was prepared or authorized.         *)

CallsCarry ==
    \A t \in Tasks : calls[t] # None => calls[t].payload \in Payloads /\ calls[t].payload.id = calls[t].id

\* The digest of a record is that of a payload; an authorization has it with
\* it, and is a modified one only if a reviewer modified it.
Carries(a) ==
    /\ \E p \in Payloads : a.digest = Digest(p) /\ (a.kind = "authorization" => a.payload = p)
    /\ a.kind = "authorization" /\ a.modified => review[a.round] = "modified"

AnswersCarry == \A a \in answers : Carries(a)

RetainedCarries ==
    \A id \in Ids :
        retained[id] # None =>
            /\ retained[id].payload \in Payloads
            /\ retained[id].authorization # None => Carries(retained[id].authorization)

HandlesCarry == \A h \in handles : \E p \in Payloads : h.digest = Digest(p)

PayloadInv ==
    /\ CallsCarry /\ AnswersCarry /\ RetainedCarries /\ HandlesCarry
    /\ ReleasedAsAuthorized /\ SiblingsInOrder

LEMMA PayloadInit == Init => PayloadInv
  BY DEF Init, PayloadInv, CallsCarry, AnswersCarry, RetainedCarries, HandlesCarry,
         ReleasedAsAuthorized, SiblingsInOrder

LEMMA CarriesKeeps ==
    ASSUME Shapes, RoundsMoveOn, NEW a, Grant(a) \/ Parked(a), Carries(a)
    PROVE  Carries(a)'
<1>1. a.round \in Rounds
  BY DEF Grant, Parked
<1>2. review[a.round] = "modified" => review'[a.round] = "modified"
  BY <1>1, RoundFacts
<1> QED BY <1>2 DEF Carries

\* Payloads, when a step brings only calls, answers, decisions and handles
\* that carry one.
LEMMA CarryKeeps ==
    ASSUME BindingInv, PayloadInv, RoundsMoveOn,
           \A t \in Tasks : calls'[t] # None =>
              \/ calls'[t] = calls[t]
              \/ calls'[t].payload \in Payloads /\ calls'[t].payload.id = calls'[t].id,
           \A a \in answers' \ answers : Carries(a)',
           \A id \in Ids : retained'[id] = retained[id] \/ retained'[id] = None \/
              /\ retained'[id].payload \in Payloads
              /\ retained'[id].authorization # None =>
                    \E a : a = retained'[id].authorization /\ Carries(a)',
           \A h \in handles' \ handles : h \in answers
    PROVE  CallsCarry' /\ AnswersCarry' /\ RetainedCarries' /\ HandlesCarry'
<1> USE DEF BindingInv, PayloadInv
<1>1. CallsCarry'
  BY DEF CallsCarry
<1>2. AnswersCarry'
  <2>1. ASSUME NEW a \in answers
        PROVE  Carries(a)'
    BY CarriesKeeps DEF AnswersOK, AnswersCarry
  <2> QED BY <2>1 DEF AnswersCarry
<1>3. RetainedCarries'
  <2> SUFFICES ASSUME NEW id \in Ids, retained'[id] # None
               PROVE  /\ retained'[id].payload \in Payloads
                      /\ retained'[id].authorization # None => Carries(retained[id].authorization)'
    BY DEF RetainedCarries
  <2>1. CASE retained'[id] = retained[id]
    <3>1. PICK a : a = retained[id].authorization
      OBVIOUS
    <3>2. a # None => Grant(a) /\ Carries(a)
      BY <2>1, <3>1 DEF RetainedOK, RetainedCarries
    <3>3. a # None => Carries(a)'
      BY <3>2, CarriesKeeps
    <3> QED BY <2>1, <3>1, <3>3 DEF RetainedCarries, Carries
  <2>2. CASE retained'[id] # retained[id]
    BY <2>2 DEF Carries
  <2> QED BY <2>1, <2>2
<1>4. HandlesCarry'
  <2>1. \A a \in answers : \E p \in Payloads : a.digest = Digest(p)
    BY DEF AnswersCarry, Carries
  <2> QED BY <2>1 DEF HandlesCarry
<1> QED BY <1>1, <1>2, <1>3, <1>4

\* What an executor was given stays as it was authorized.
LEMMA ReleaseKeeps ==
    ASSUME BindingInv, PayloadInv, RoundsMoveOn, answers \subseteq answers',
           NEW x \in released
    PROVE  /\ x.id = x.asked.id
           /\ \E a \in answers' : a.kind = "authorization" /\ a.round = x.round
                               /\ SameValue(a.payload, x.payload)
           /\ ~x.modified => EachCall(x.payload, AsValue) = x.asked
           /\ x.modified => review'[x.round] = "modified"
           /\ x.asked.method = "batch" => SiblingIds(x.payload) = SiblingIds(x.asked)
<1> USE DEF BindingInv, PayloadInv
<1>1. PICK a \in answers : a.kind = "authorization" /\ a.round = x.round /\ SameValue(a.payload, x.payload)
  BY DEF ReleasedAsAuthorized
<1>2. x.round \in Rounds
  BY <1>1 DEF AnswersOK, Grant, Parked
<1>3. x.modified => review'[x.round] = "modified"
  BY <1>2, RoundFacts DEF ReleasedAsAuthorized
<1> QED BY <1>1, <1>3 DEF ReleasedAsAuthorized, SiblingsInOrder

\* The invariant, when a step releases nothing.
LEMMA NothingReleased ==
    ASSUME BindingInv, PayloadInv, RoundsMoveOn, answers \subseteq answers', released' = released
    PROVE  ReleasedAsAuthorized' /\ SiblingsInOrder'
  BY ReleaseKeeps DEF ReleasedAsAuthorized, SiblingsInOrder

\* An authorization that arrives and passes validate_authorization has the
\* value of one that was given for its round, although its payload may have
\* come with another.
LEMMA ValidArriving ==
    ASSUME AnswersOK, AnswersCarry, NEW a \in Arriving, a.kind = "authorization",
           a.digest = Digest(a.payload)
    PROVE  /\ a.payload \in Payloads
           /\ a.modified => review[a.round] = "modified"
           /\ \E b \in answers : b.kind = "authorization" /\ b.round = a.round
                               /\ SameValue(b.payload, a.payload)
<1>1. CASE a \in answers
  BY <1>1 DEF AnswersCarry, Carries, SameValue
<1>2. ASSUME NEW b \in answers, NEW c \in answers, b.kind = "authorization", c.kind = "authorization",
             a = [b EXCEPT !.payload = c.payload]
      PROVE  /\ a.payload \in Payloads
             /\ a.modified => review[a.round] = "modified"
             /\ b.round = a.round /\ SameValue(b.payload, a.payload)
  <2>1. Grant(b) /\ Carries(b) /\ Carries(c)
    BY <1>2 DEF AnswersOK, AnswersCarry, Parked
  <2>2. a.payload = c.payload /\ a.round = b.round /\ a.modified = b.modified /\ a.digest = b.digest
    BY <1>2, <2>1 DEF Grant
  <2>3. b.payload \in Payloads /\ c.payload \in Payloads /\ b.digest = Digest(b.payload)
    BY <1>2, <2>1 DEF Carries
  <2>4. SameValue(b.payload, c.payload)
    BY <2>2, <2>3, DigestIdentifies
  <2>5. b.modified => review[b.round] = "modified"
    BY <1>2, <2>1 DEF Carries
  <2> QED BY <2>2, <2>3, <2>4, <2>5
<1> QED BY <1>1, <1>2 DEF Arriving

\* The executor receives what was authorized, with its siblings in order.
LEMMA ExecuteCarries ==
    ASSUME BindingInv, PayloadInv, NEW t \in Tasks, NEW a \in Arriving, Execute(t, a)
    PROVE  PayloadInv'
<1> USE DEF BindingInv, PayloadInv
<1>1. /\ calls[t] # None /\ Authorizes(a, calls[t]) /\ CallEnds(t)
      /\ UNCHANGED <<handles, reconciled>>
      /\ released' \in {released, released \cup {ExecutionRequest(a, calls[t])}}
  BY DEF Execute
<1>2. RoundsMoveOn /\ UNCHANGED <<retained, answers, review>>
  BY <1>1, CallEndFacts DEF CallEnds
<1>3. CallsCarry' /\ AnswersCarry' /\ RetainedCarries' /\ HandlesCarry'
  BY <1>1, <1>2, CallEndFacts, CarryKeeps
<1> DEFINE call == calls[t]
<1>4. PICK x : x = ExecutionRequest(a, call)
  OBVIOUS
<1>5. /\ x.round = a.round /\ x.id = a.id /\ x.payload = a.payload /\ x.modified = a.modified
      /\ x.asked = EachCall(call.payload, AsValue)
  BY <1>4 DEF ExecutionRequest
<1>6. /\ a.kind = "authorization" /\ a.id = call.id /\ a.digest = Digest(a.payload)
      /\ ~a.modified => SameValue(a.payload, call.payload)
      /\ call.payload.method = "batch" => SiblingIds(a.payload) = SiblingIds(call.payload)
  BY <1>1 DEF Authorizes, ValidAuthorization, ValidBatch
<1>7. /\ call.payload \in Payloads /\ call.payload.id = call.id
      /\ a.payload \in Payloads
      /\ a.modified => review[a.round] = "modified"
      /\ \E b \in answers : b.kind = "authorization" /\ b.round = a.round /\ SameValue(b.payload, a.payload)
  BY <1>1, <1>6, ValidArriving DEF CallsCarry
<1>8. /\ x.asked.id = call.id /\ x.asked.method = call.payload.method
      /\ SiblingIds(x.asked) = SiblingIds(call.payload)
  BY <1>5, <1>7, SiblingsOfValue
<1>9. ~x.modified => EachCall(x.payload, AsValue) = x.asked
  BY <1>5, <1>6 DEF SameValue
<1>10. x.modified => review'[x.round] = "modified"
  BY <1>2, <1>5, <1>7
<1>11. \A y \in released' : y = x \/ y \in released
  BY <1>1, <1>4
<1>12. ReleasedAsAuthorized'
  <2> HIDE DEF call
  <2>1. x.id = x.asked.id
    BY <1>5, <1>6, <1>8
  <2>2. \E b \in answers : b.kind = "authorization" /\ b.round = x.round /\ SameValue(b.payload, x.payload)
    BY <1>5, <1>7
  <2> QED BY <1>2, <1>9, <1>10, <1>11, <2>1, <2>2, ReleaseKeeps DEF ReleasedAsAuthorized
<1>13. SiblingsInOrder'
  <2>1. x.asked.method = "batch" => SiblingIds(x.payload) = SiblingIds(x.asked)
    BY <1>5, <1>6, <1>8
  <2> QED BY <1>2, <1>11, <2>1, ReleaseKeeps DEF SiblingsInOrder
<1> QED BY <1>3, <1>12, <1>13

\* Proxy answers with the payload it was sent, or what a reviewer made of it.
LEMMA ProxyCarries ==
    ASSUME BindingInv, PayloadInv, NEW t \in Tasks, ProxyDecides(t) \/ ProxyAnswers(t)
    PROVE  PayloadInv'
<1> USE DEF BindingInv, PayloadInv
<1> DEFINE id == calls[t].id
<1>1. /\ UNCHANGED <<handles, calls, released>> /\ calls[t] # None
      /\ id \in Ids /\ calls[t].payload \in Payloads
  BY DEF ProxyDecides, ProxyAnswers, Retains, HandlesOK, CallsCarry
<1>2. PICK d : d = Digest(calls[t].payload)
  OBVIOUS
<1>3. d \in Payloads
  BY <1>1, <1>2, DigestFacts
<1>4. CASE ProxyDecides(t)
  <2>1. PICK n \in Fresh :
           \/ Retains(id, Allowed(calls[t], n)) /\ UNCHANGED review
           \/ Retains(id, Decision(calls[t], n)) /\ Open(n)
    BY <1>4 DEF ProxyDecides
  <2>2. UNCHANGED answers /\ RoundsMoveOn
    BY <1>4, <2>1 DEF Fresh, ProxyDecides, RoundsMoveOn
  <2>3. PICK a : a = Authorization(n, id, d, FALSE)
    OBVIOUS
  <2>4. Carries(a)'
    BY <1>3, <2>3 DEF Carries, Authorization
  <2>5. PICK decision : decision.payload = d /\ decision.authorization \in {None, a}
                        /\ retained' = [retained EXCEPT ![id] = decision]
    <3>1. CASE Retains(id, Allowed(calls[t], n))
      <4>1. PICK decision : decision = Allowed(calls[t], n)
        OBVIOUS
      <4>2. decision.payload = d /\ decision.authorization = a
        BY <1>2, <2>3, <4>1 DEF Allowed, Decision
      <4> QED BY <3>1, <4>1, <4>2 DEF Retains
    <3>2. CASE Retains(id, Decision(calls[t], n))
      <4>1. PICK decision : decision = Decision(calls[t], n)
        OBVIOUS
      <4>2. decision.payload = d /\ decision.authorization = None
        BY <1>2, <4>1 DEF Decision
      <4> QED BY <3>2, <4>1, <4>2 DEF Retains
    <3> QED BY <2>1, <3>1, <3>2
  <2>6. ASSUME NEW i \in Ids
        PROVE  \/ retained'[i] = retained[i]
               \/ /\ retained'[i].payload \in Payloads
                  /\ retained'[i].authorization # None =>
                        \E b : b = retained'[i].authorization /\ Carries(b)'
    <3>1. retained'[i] \in {retained[i], decision}
      BY <1>1, <2>5 DEF Shapes
    <3> QED BY <1>3, <2>4, <2>5, <3>1
  <2> HIDE DEF id
  <2> QED BY <1>1, <2>2, <2>6, CarryKeeps, NothingReleased
<1>5. CASE ProxyAnswers(t)
  <2> DEFINE decision == retained[id]
             n        == decision.round
  <2>1. /\ decision # None /\ UNCHANGED review /\ decision.payload = d
        /\ \/ /\ decision.authorization # None
              /\ answers' = answers \cup {decision.authorization}
              /\ Retains(id, decision)
           \/ /\ answers' = answers \cup {Pending(n, id, d)}
              /\ Retains(id, decision)
           \/ \E granted \in IF review[n] = "modified" THEN Candidates(d) ELSE {d} :
                 LET a == Authorization(n, id, granted, review[n] = "modified")
                 IN  /\ answers' = answers \cup {a}
                     /\ Retains(id, [decision EXCEPT !.authorization = a])
    BY <1>2, <1>5 DEF ProxyAnswers
  <2>2. RoundsMoveOn
    BY <2>1 DEF RoundsMoveOn
  <2>3.  released' = released /\ answers \subseteq answers'
    BY <1>1, <2>1
  <2>4. CASE /\ decision.authorization # None
             /\ answers' = answers \cup {decision.authorization}
             /\ Retains(id, decision)
    <3>1. PICK a : a = decision.authorization
      OBVIOUS
    <3>2. (Grant(a) \/ Parked(a)) /\ Carries(a)
      BY <1>1, <2>1, <2>4, <3>1 DEF RetainedOK, RetainedCarries
    <3>3. Carries(a)'
      BY <2>2, <3>2, CarriesKeeps
    <3>4. retained' = retained
      BY <1>1, <2>4 DEF Shapes, Retains
    <3> QED BY <1>1, <2>2, <2>3, <2>4, <3>1, <3>3, <3>4, CarryKeeps, NothingReleased
  <2>5. CASE answers' = answers \cup {Pending(n, id, d)} /\ Retains(id, decision)
    <3>1. PICK a : a = Pending(n, id, d)
      OBVIOUS
    <3>2. Carries(a)'
      BY <1>3, <3>1 DEF Carries, Pending
    <3>3. retained' = retained
      BY <1>1, <2>5 DEF Shapes, Retains
    <3> QED BY <1>1, <2>2, <2>3, <2>5, <3>1, <3>2, <3>3, CarryKeeps, NothingReleased
  <2>6. ASSUME NEW granted \in IF review[n] = "modified" THEN Candidates(d) ELSE {d},
               NEW a, a = Authorization(n, id, granted, review[n] = "modified"),
               answers' = answers \cup {a},
               Retains(id, [decision EXCEPT !.authorization = a])
        PROVE  PayloadInv'
    <3>1. granted \in Payloads
      BY <1>3, <2>6, CandidatesFacts
    <3>2. a.kind = "authorization" /\ a.round = n /\ a.payload = granted /\ a.digest = Digest(granted)
      BY <2>6 DEF Authorization
    <3>3. a.modified => review[n] = "modified"
      BY <2>6 DEF Authorization
    <3>4. Carries(a)
      BY <3>1, <3>2, <3>3 DEF Carries
    <3>5. Carries(a)'
      BY <2>1, <3>4 DEF Carries
    <3>6. PICK granting : granting = [decision EXCEPT !.authorization = a]
      OBVIOUS
    <3>7. retained' = [retained EXCEPT ![id] = granting]
      BY <2>6, <3>6 DEF Retains
    <3>8. granting.payload = d /\ granting.authorization \in {a, decision.authorization}
      BY <2>1, <3>6
    <3>9. decision.authorization # None =>
             \E b : b = decision.authorization /\ Carries(b)'
      <4>1. PICK b : b = decision.authorization
        OBVIOUS
      <4>2. b # None => Grant(b) /\ Carries(b)
        BY <1>1, <2>1, <4>1 DEF RetainedOK, RetainedCarries
      <4> QED BY <2>2, <4>1, <4>2, CarriesKeeps
    <3>10. ASSUME NEW i \in Ids
           PROVE  \/ retained'[i] = retained[i]
                  \/ /\ retained'[i].payload \in Payloads
                     /\ retained'[i].authorization # None =>
                           \E b : b = retained'[i].authorization /\ Carries(b)'
      <4>1. retained'[i] \in {retained[i], granting}
        BY <1>1, <3>7 DEF Shapes
      <4> QED BY <1>3, <3>5, <3>8, <3>9, <4>1
    <3> HIDE DEF id, decision, n
    <3> QED BY <1>1, <2>2, <2>3, <2>6, <3>5, <3>10, CarryKeeps, NothingReleased
  <2> QED BY <2>1, <2>4, <2>5, <2>6
<1> QED BY <1>4, <1>5, SMTT(30)

LEMMA PayloadStep ==
    ASSUME BindingInv, PayloadInv, [Next]_vars
    PROVE  PayloadInv'
<1> USE DEF PayloadInv
<1>0. Shapes
  BY DEF BindingInv
<1>1. ASSUME NEW t \in Tasks, NEW id \in Ids, NEW draft \in Drafts,
             NEW handle \in handles \cup {None}, Send(t, id, draft, handle)
      PROVE  PayloadInv'
  <2>1. /\ calls' = [calls EXCEPT ![t] = Call(id, Envelope(id, draft), handle)]
        /\ UNCHANGED <<handles, retained, answers, released, review>>
    BY <1>1 DEF Send
  <2>2. PICK call : call = Call(id, Envelope(id, draft), handle)
    OBVIOUS
  <2>3. call.payload \in Payloads /\ call.payload.id = call.id
    BY <2>2, EnvelopeFacts DEF Call
  <2>4. RoundsMoveOn /\ \A v \in Tasks : calls'[v] \in {calls[v], call}
    BY <1>0, <2>1, <2>2 DEF Shapes, RoundsMoveOn
  <2> QED BY <2>1, <2>3, <2>4, CarryKeeps, NothingReleased
<1>2. ASSUME NEW e \in Executors, Restart(e)
      PROVE  PayloadInv'
  <2>1. /\ calls' = [t \in Tasks |-> None] /\ RoundsMoveOn
        /\ UNCHANGED <<handles, retained, answers, released, review>>
    BY <1>2 DEF Restart, RoundsMoveOn
  <2> QED BY <2>1, CarryKeeps, NothingReleased
<1>3. CASE \E u \in uncertain, intent \in intents : Reconcile(u, intent)
  <2>1. RoundsMoveOn /\ UNCHANGED <<handles, retained, answers, released, calls>>
    BY <1>3 DEF Reconcile, RoundsMoveOn
  <2> QED BY <2>1, CarryKeeps, NothingReleased
<1>4. ASSUME NEW t \in Tasks, NEW a \in Arriving,
             ReceivePending(t, a) \/ AttemptRefused(t, a)
      PROVE  PayloadInv'
  <2>1. CallEnds(t) /\ released' = released /\ UNCHANGED answers
    BY <1>4 DEF ReceivePending, AttemptRefused, CallEnds
  <2>2. \A h \in handles' \ handles : h \in answers
    <3>1. ASSUME ReceivePending(t, a)
          PROVE  a \in answers
      <4>1. ASSUME NEW b \in answers, NEW c \in answers, b.kind = "authorization",
                   a = [b EXCEPT !.payload = c.payload]
            PROVE  FALSE
        <5>1. Grant(b)
          BY <4>1 DEF AnswersOK, Parked, BindingInv
        <5> QED BY <3>1, <4>1, <5>1 DEF Grant, ReceivePending
      <4> QED BY <4>1 DEF Arriving
    <3> QED BY <1>4, <3>1 DEF ReceivePending, AttemptRefused
  <2> QED BY <1>0, <2>1, <2>2, CallEndFacts, CarryKeeps, NothingReleased
<1>5. ASSUME NEW t \in Tasks, CallFails(t)
      PROVE  PayloadInv'
  BY <1>0, <1>5, CallEndFacts, CarryKeeps, NothingReleased DEF CallFails
<1>6. ASSUME NEW id \in Ids, ProxyForgets(id)
      PROVE  PayloadInv'
  <2>1. /\ retained' = [retained EXCEPT ![id] = None] /\ RoundsMoveOn
        /\ UNCHANGED <<handles, calls, answers, released>>
    BY <1>6 DEF ProxyForgets, Retains, RoundsMoveOn
  <2>2. \A i \in Ids : retained'[i] \in {retained[i], None}
    BY <1>0, <2>1 DEF Shapes
  <2> QED BY <2>1, <2>2, CarryKeeps, NothingReleased
<1>7. CASE (\E n \in Rounds : Decide(n) /\ UNCHANGED bindingVars) \/ UNCHANGED vars
  <2>1. RoundsMoveOn /\ UNCHANGED <<handles, calls, answers, released, retained>>
    BY <1>7 DEF RoundsMoveOn, bindingVars, vars
  <2> QED BY <2>1, CarryKeeps, NothingReleased
<1> HIDE DEF PayloadInv
<1> QED BY <1>1, <1>2, <1>3, <1>4, <1>5, <1>6, <1>7, ProxyCarries, ExecuteCarries
        DEF Next, Host, Task, Begin, Resume

\* Every record carries the payload it is about, throughout.
THEOREM PayloadInvariant == Spec => []PayloadInv
<1>1. BindingInv /\ PayloadInv /\ [Next]_vars => PayloadInv'
  BY PayloadStep
<1> QED BY <1>1, BindingInvariant, PayloadInit, PTL DEF Spec

-----------------------------------------------------------------------------
(* Theorems about payloads.                                                *)

\* The executor receives exactly what was authorized for the identity that
\* the call asked for, and something other than what the host prepared only
\* where a reviewer modified it (authorize_payload_state, execute_authorization).
THEOREM ReleaseTheorem == Spec => []ReleasedAsAuthorized
  BY PayloadInvariant, PTL DEF PayloadInv

\* The calls of a batch reach the executor together and in the order of the
\* request, reviewed or not (validate_batch_authorization).
THEOREM SiblingTheorem == Spec => []SiblingsInOrder
  BY PayloadInvariant, PTL DEF PayloadInv

\* A retained handle fits a restored request just when that is the request
\* it was issued for, in whatever order its keys are written (canonical_json,
\* validate_pending_authorization).
THEOREM RestoreTheorem == Spec => []RestoredRequestsResume
<1>1. ASSUME PayloadInv
      PROVE  RestoredRequestsResume
  <2> SUFFICES ASSUME NEW h \in handles, NEW id \in Ids, NEW draft \in Drafts
               PROVE  ValidPending(h, id, Envelope(id, draft)) <=>
                         h.id = id /\ SameValue(h.digest, Envelope(id, draft))
    BY DEF RestoredRequestsResume
  <2>1. PICK p \in Payloads : h.digest = Digest(p)
    BY <1>1 DEF PayloadInv, HandlesCarry
  <2>2. PICK q : q = Envelope(id, draft)
    OBVIOUS
  <2>3. q \in Payloads
    BY <2>2, EnvelopeFacts
  <2>4. SameValue(h.digest, q) <=> SameValue(p, q)
    BY <2>1, DigestFacts DEF SameValue
  <2>5. h.digest = Digest(q) <=> SameValue(p, q)
    BY <2>1, <2>3, DigestIdentifies
  <2> QED BY <2>2, <2>4, <2>5 DEF ValidPending
<1> QED BY <1>1, PayloadInvariant, PTL

-----------------------------------------------------------------------------
(* Type correctness.                                                       *)

LEMMA UncertainTypes ==
    ASSUME AnswersOK, HandlesOK, executor \in Executors, NEW t \in Tasks, calls[t] # None,
           NEW a \in Arriving, Authorizes(a, calls[t])
    PROVE  /\ a.round \in Rounds /\ a.id \in Ids
           /\ UncertainFrom(a).round \in Rounds /\ UncertainFrom(a).id \in Ids
           /\ UncertainFrom(a).executor \in Executors
           /\ Intent(a).round \in Rounds /\ Intent(a).executor \in Executors
           /\ ExecutionRequest(a, calls[t]).round \in Rounds
           /\ ExecutionRequest(a, calls[t]).executor \in Executors
<1>1. a.kind = "authorization" /\ a.id = calls[t].id
  BY DEF Authorizes, ValidAuthorization
<1>2. a.round \in Rounds /\ a.id \in Ids
  BY <1>1, ArrivingFacts DEF HandlesOK
<1> QED BY <1>2 DEF UncertainFrom, Intent, ExecutionRequest

LEMMA TypesStep ==
    ASSUME BindingInv, BindingInv', TypeOK, [Next]_vars
    PROVE  TypeOK'
<1>1. /\ \A t \in Tasks : calls'[t] # None => calls'[t].id \in Ids /\ calls'[t].handle \in handles' \cup {None}
      /\ \A id \in Ids : retained'[id] # None => retained'[id].round \in Rounds
      /\ \A a \in answers' : a.kind \in {"pending", "authorization"}
  <2>1. \A t \in Tasks : calls'[t] # None => calls'[t].id \in Ids /\ calls'[t].handle \in handles' \cup {None}
    BY DEF BindingInv, HandlesOK
  <2>2. \A id \in Ids : retained'[id] # None => retained'[id].round \in Rounds
    BY DEF BindingInv, RetainedOK
  <2>3. ASSUME NEW a \in answers'
        PROVE  a.kind \in {"pending", "authorization"}
    <3>1. Grant(a)' \/ Parked(a)'
      BY SMTT(30) DEF BindingInv, AnswersOK
    <3> QED BY <3>1 DEF Grant, Parked
  <2> QED BY <2>1, <2>2, <2>3
<1>2. executor' \in Executors
  BY ZenonT(60) DEF TypeOK, Next, Host, Task, Begin, Resume, Send, Restart, Reconcile, ProxyDecides,
         ProxyAnswers, ProxyForgets, Retains, CallFails, ReceivePending, AttemptRefused, Execute,
         CallEnds, vars, bindingVars
<1>3. \A h \in handles' : h.kind = "pending" /\ h.round \in Rounds /\ h.id \in Ids
  <2>1. \A h \in handles' : h.kind = "pending" /\ h.round \in Rounds
    BY DEF BindingInv, HandlesOK, Parked
  <2>2. ASSUME NEW t \in Tasks, NEW a \in Arriving, ReceivePending(t, a)
        PROVE  handles' = handles \cup {a} /\ a.id \in Ids
    BY <2>2 DEF ReceivePending, ValidPending, BindingInv, HandlesOK
  <2>3. handles' = handles \/ \E t \in Tasks : \E a \in Arriving : ReceivePending(t, a)
    BY DEF Next, Host, Task, Begin, Resume, Send, Restart, Reconcile, ProxyDecides,
           ProxyAnswers, ProxyForgets, Retains, CallFails, AttemptRefused, Execute, vars, bindingVars
  <2> QED BY <2>1, <2>2, <2>3 DEF TypeOK
<1>4. /\ \A u \in uncertain' : u.round \in Rounds /\ u.id \in Ids /\ u.executor \in Executors
      /\ \A x \in intents' \cup released' : x.round \in Rounds /\ x.executor \in Executors
  <2>1. ASSUME NEW t \in Tasks, NEW a \in Arriving, AttemptRefused(t, a) \/ Execute(t, a)
        PROVE  /\ uncertain' \subseteq uncertain \cup {UncertainFrom(a)}
               /\ intents' \subseteq intents \cup {Intent(a)}
               /\ released' \subseteq released \cup {ExecutionRequest(a, calls[t])}
               /\ calls[t] # None /\ Authorizes(a, calls[t])
    BY <2>1, SMTT(30) DEF AttemptRefused, Execute
  <2>2. \/ UNCHANGED <<uncertain, intents, released>>
        \/ \E t \in Tasks : \E a \in Arriving : AttemptRefused(t, a) \/ Execute(t, a)
    BY ZenonT(60) DEF Next, Host, Task, Begin, Resume, Send, Restart, Reconcile, ProxyDecides,
           ProxyAnswers, ProxyForgets, Retains, CallFails, ReceivePending, vars, bindingVars
  <2>3. ASSUME NEW t \in Tasks, NEW a \in Arriving, AttemptRefused(t, a) \/ Execute(t, a)
        PROVE  /\ \A u \in uncertain' : u.round \in Rounds /\ u.id \in Ids /\ u.executor \in Executors
               /\ \A x \in intents' \cup released' : x.round \in Rounds /\ x.executor \in Executors
    BY <2>1, <2>3, UncertainTypes DEF TypeOK, BindingInv
  <2> QED BY <2>2, <2>3 DEF TypeOK
<1> QED BY <1>1, <1>2, <1>3, <1>4 DEF TypeOK

\* Handles, calls, answers, intents and requests stay within their types,
\* whatever Proxy answers and whoever resumes (execution.rs's serde types).
THEOREM TypeCorrectness == Spec => []TypeOK
<1>1. Init => TypeOK
  BY DEF Init, TypeOK
<1>2. BindingInv /\ BindingInv' /\ TypeOK /\ [Next]_vars => TypeOK'
  BY TypesStep
<1> QED BY <1>1, <1>2, BindingInvariant, PTL DEF Spec

==============================================================================
