-------------------------- MODULE LedgerPagingProofs --------------------------
(***************************************************************************)
(* Paging through the audit trail, for any agents, size of a page and      *)
(* length of the ledger: no turn skips a row, a short page is the last,    *)
(* and a walk by offset misses no more than what moved under it.           *)
(***************************************************************************)
EXTENDS LedgerPaging, FiniteSetTheorems, WellFoundedInduction, TLAPS

-----------------------------------------------------------------------------
(* The least and the greatest of some rows.                                *)

LEMMA MinFacts ==
    ASSUME NEW S \in SUBSET Nat, S # {}
    PROVE  Min(S) \in S /\ \A r \in S : Min(S) <= r
<1>1. PICK R : R = OpToRel(<, Nat)
  OBVIOUS
<1>2. IsWellFoundedOn(R, Nat)
  BY <1>1, NatLessThanWellFounded
<1>3. R = {p \in Nat \X Nat : p[1] < p[2]}
  BY <1>1, Zenon DEF OpToRel
<1>4. PICK m \in S : \A r \in S : <<r, m>> \notin R
  BY <1>2, WFMin
<1>5. ASSUME NEW r \in S
      PROVE  m <= r
  <2>1. m \in Nat /\ r \in Nat
    OBVIOUS
  <2>2. r < m => <<r, m>> \in R
    BY <1>3, <2>1
  <2> QED BY <1>4, <2>1, <2>2
<1> QED BY <1>5 DEF Min

LEMMA MaxFacts ==
    ASSUME NEW n \in Nat, NEW S \in SUBSET (0..n), S # {}
    PROVE  Max(S) \in S /\ \A r \in S : r <= Max(S)
<1> DEFINE D == {n - r : r \in S}
<1>1. D \in SUBSET Nat /\ D # {}
  <2>1. \A r \in S : r \in Int /\ 0 <= r /\ r <= n
    OBVIOUS
  <2>2. \A r \in S : n - r \in Nat
    BY <2>1
  <2> QED BY <2>2
<1>2. PICK d \in D : \A e \in D : d <= e
  BY <1>1, MinFacts
<1>3. PICK m \in S : d = n - m
  BY <1>2
<1>4. \A r \in S : m >= r
  <2> TAKE r \in S
  <2>1. n - r \in D
    OBVIOUS
  <2>2. n - m <= n - r
    BY <1>2, <1>3, <2>1
  <2>3. n \in Int /\ r \in Int /\ m \in Int
    OBVIOUS
  <2> QED BY <2>2, <2>3
<1>5. \E x \in S : \A y \in S : x >= y
  BY <1>4
<1>6. Max(S) \in S /\ \A y \in S : Max(S) >= y
  BY <1>5 DEF Max
<1> QED BY <1>6

-----------------------------------------------------------------------------
(* The newest and the oldest of some rows.                                 *)

LEMMA RowsFinite ==
    ASSUME NEW n \in Nat, NEW S \in SUBSET (1..n)
    PROVE  /\ IsFiniteSet(S) /\ Cardinality(S) \in Nat
           /\ \A T \in SUBSET S : /\ IsFiniteSet(T) /\ Cardinality(T) \in Nat
                                  /\ Cardinality(T) <= Cardinality(S)
<1>1. IsFiniteSet(1..n)
  BY FS_Interval
<1>2. IsFiniteSet(S)
  BY <1>1, FS_Subset
<1> QED BY <1>2, FS_Subset, FS_CardinalityType

\* With a row, everything newer is among the newest.
LEMMA NewestClosed ==
    ASSUME NEW n \in Nat, NEW S \in SUBSET (1..n), NEW size \in Nat
    PROVE  /\ Newest(S, size) \subseteq S
           /\ \A r \in Newest(S, size) : \A q \in S : q >= r => q \in Newest(S, size)
<1> SUFFICES ASSUME NEW r \in Newest(S, size), NEW q \in S, q >= r
             PROVE  q \in Newest(S, size)
  BY DEF Newest
<1> DEFINE After(x) == {p \in S : p > x}
<1>1. r \in S /\ r \in Int /\ q \in Int /\ \A p \in S : p \in Int
  BY DEF Newest
<1>2. After(q) \in SUBSET After(r) /\ After(r) \in SUBSET (1..n)
  <2>1. \A p \in After(q) : p \in After(r)
    BY <1>1
  <2> QED BY <2>1
<1>3. Cardinality(After(r)) < size
  BY DEF Newest
<1>4. /\ Cardinality(After(q)) <= Cardinality(After(r))
      /\ Cardinality(After(q)) \in Nat /\ Cardinality(After(r)) \in Nat
  <2> HIDE DEF After
  <2> QED BY <1>2, RowsFinite
<1>5. Cardinality(After(q)) < size
  BY <1>3, <1>4
<1> QED BY <1>5 DEF Newest

\* The newest are all there is, or as many as were asked for.
LEMMA NewestCount ==
    ASSUME NEW n \in Nat, NEW S \in SUBSET (1..n), NEW size \in Nat
    PROVE  /\ Cardinality(Newest(S, size)) \in Nat
           /\ Newest(S, size) = S \/ Cardinality(Newest(S, size)) >= size
<1>1. Newest(S, size) \in SUBSET S
  BY DEF Newest
<1>2. Cardinality(Newest(S, size)) \in Nat
  BY <1>1, RowsFinite
<1>3. ASSUME Newest(S, size) # S
      PROVE  Cardinality(Newest(S, size)) >= size
  <2> DEFINE Rest == S \ Newest(S, size)
  <2>0. \A q \in S : q \in 1..n
    OBVIOUS
  <2>1. Rest \in SUBSET (0..n) /\ Rest # {}
    <3>1. \A q \in Rest : q \in 0..n
      BY <2>0
    <3> QED BY <1>1, <1>3, <3>1
  <2>2. PICK r \in Rest : \A q \in Rest : q <= r
    <3> HIDE DEF Rest
    <3> QED BY <2>1, MaxFacts
  <2>3. {q \in S : q > r} \in SUBSET Newest(S, size)
    <3>1. \A q \in S : q > r => q \notin Rest
      BY <2>0, <2>2
    <3> QED BY <3>1
  <2>4. ~(Cardinality({q \in S : q > r}) < size)
    BY <2>2 DEF Newest
  <2>5. /\ Cardinality({q \in S : q > r}) <= Cardinality(Newest(S, size))
        /\ Cardinality({q \in S : q > r}) \in Nat
    BY <1>1, <2>3, RowsFinite
  <2> QED BY <1>2, <2>4, <2>5
<1> QED BY <1>2, <1>3

LEMMA OldestClosed ==
    ASSUME NEW n \in Nat, NEW S \in SUBSET (1..n), NEW size \in Nat
    PROVE  /\ Oldest(S, size) \subseteq S
           /\ \A r \in Oldest(S, size) : \A q \in S : q <= r => q \in Oldest(S, size)
<1> SUFFICES ASSUME NEW r \in Oldest(S, size), NEW q \in S, q <= r
             PROVE  q \in Oldest(S, size)
  BY DEF Oldest
<1> DEFINE Before(x) == {p \in S : p < x}
<1>1. r \in S /\ r \in Int /\ q \in Int /\ \A p \in S : p \in Int
  BY DEF Oldest
<1>2. Before(q) \in SUBSET Before(r) /\ Before(r) \in SUBSET (1..n)
  <2>1. \A p \in Before(q) : p \in Before(r)
    BY <1>1
  <2> QED BY <2>1
<1>3. Cardinality(Before(r)) < size
  BY DEF Oldest
<1>4. /\ Cardinality(Before(q)) <= Cardinality(Before(r))
      /\ Cardinality(Before(q)) \in Nat /\ Cardinality(Before(r)) \in Nat
  <2> HIDE DEF Before
  <2> QED BY <1>2, RowsFinite
<1>5. Cardinality(Before(q)) < size
  BY <1>3, <1>4
<1> QED BY <1>5 DEF Oldest

LEMMA OldestCount ==
    ASSUME NEW n \in Nat, NEW S \in SUBSET (1..n), NEW size \in Nat
    PROVE  /\ Cardinality(Oldest(S, size)) \in Nat
           /\ Oldest(S, size) = S \/ Cardinality(Oldest(S, size)) >= size
<1>1. Oldest(S, size) \in SUBSET S
  BY DEF Oldest
<1>2. Cardinality(Oldest(S, size)) \in Nat
  BY <1>1, RowsFinite
<1>3. ASSUME Oldest(S, size) # S
      PROVE  Cardinality(Oldest(S, size)) >= size
  <2> DEFINE Rest == S \ Oldest(S, size)
  <2>0. \A q \in S : q \in 1..n
    OBVIOUS
  <2>1. Rest \in SUBSET Nat /\ Rest # {}
    <3>1. \A q \in Rest : q \in Nat
      BY <2>0
    <3> QED BY <1>1, <1>3, <3>1
  <2>2. PICK r \in Rest : \A q \in Rest : r <= q
    <3> HIDE DEF Rest
    <3> QED BY <2>1, MinFacts
  <2>3. {q \in S : q < r} \in SUBSET Oldest(S, size)
    <3>1. \A q \in S : q < r => q \notin Rest
      BY <2>0, <2>2
    <3> QED BY <3>1
  <2>4. ~(Cardinality({q \in S : q < r}) < size)
    BY <2>2 DEF Oldest
  <2>5. /\ Cardinality({q \in S : q < r}) <= Cardinality(Oldest(S, size))
        /\ Cardinality({q \in S : q < r}) \in Nat
    BY <1>1, <2>3, RowsFinite
  <2> QED BY <1>2, <2>4, <2>5
<1> QED BY <1>2, <1>3
-----------------------------------------------------------------------------
(* A page that is merged from slices.                                      *)

\* The sets of rows of a ledger of n rows.
RowSets(n) == SUBSET (1..n)

\* A row of a slice's pool that the merged page reaches is on it, also when
\* the slice was cut off before that row.
LEMMA NewestPage ==
    ASSUME NEW n \in Nat, NEW pool \in RowSets(n), NEW merged \in RowSets(n), NEW size \in Nat,
           NEW slice, slice = Newest(pool, size), slice \subseteq merged,
           NEW shown, shown = Newest(merged, size), NEW r \in pool
    PROVE  /\ shown # {} /\ Min(shown) <= r => r \in shown
           /\ Cardinality(shown) < size => r \in shown
<1> USE DEF RowSets
<1>1. /\ slice \subseteq pool /\ shown \subseteq merged
      /\ \A p \in slice : \A q \in pool : q >= p => q \in slice
      /\ \A p \in shown : \A q \in merged : q >= p => q \in shown
  BY NewestClosed
<1>2. /\ Cardinality(slice) \in Nat /\ Cardinality(shown) \in Nat
      /\ slice = pool \/ Cardinality(slice) >= size
      /\ shown = merged \/ Cardinality(shown) >= size
  BY NewestCount
<1>3. r \in Int /\ (\A q \in pool : q \in Int) /\ (\A q \in merged : q \in 0..n)
  OBVIOUS
<1>4. shown # {} => Min(shown) \in shown
  <2>1. \A q \in shown : q \in Nat
    BY <1>1, <1>3
  <2>2. shown \in SUBSET Nat
    BY <2>1
  <2> QED BY <2>2, MinFacts
<1>5. \A p \in shown : Cardinality({q \in merged : q > p}) < size
  BY DEF Newest
<1>6. CASE r \in slice
  <2>1. shown # {} /\ Min(shown) <= r => r \in shown
    <3> SUFFICES ASSUME shown # {}, Min(shown) <= r PROVE r \in shown
      OBVIOUS
    <3>1. PICK p \in shown : p <= r
      BY <1>4
    <3>2. p \in Int /\ r >= p
      BY <1>1, <1>3, <3>1
    <3> QED BY <1>1, <1>6, <3>2
  <2>2. Cardinality(shown) < size => r \in shown
    BY <1>2, <1>6
  <2> QED BY <2>1, <2>2
<1>7. CASE r \notin slice
  <2>1. Cardinality(slice) >= size
    BY <1>2, <1>7
  <2>2. ASSUME NEW q \in slice
        PROVE  q > r /\ q \in merged /\ q \in Int
    BY <1>1, <1>3, <1>7
  <2>3. ~(shown # {} /\ Min(shown) <= r)
    <3> SUFFICES ASSUME shown # {}, Min(shown) <= r PROVE FALSE
      OBVIOUS
    <3>1. PICK p \in shown : p <= r
      BY <1>4
    <3>2. p \in Int
      BY <1>1, <1>3
    <3>3. slice \in SUBSET {q \in merged : q > p}
      <4>1. ASSUME NEW q \in slice
            PROVE  q \in merged /\ q > p
        BY <1>3, <2>2, <3>1, <3>2
      <4> QED BY <4>1
    <3>4. {q \in merged : q > p} \in SUBSET (1..n)
      OBVIOUS
    <3>5. /\ Cardinality(slice) <= Cardinality({q \in merged : q > p})
          /\ Cardinality({q \in merged : q > p}) \in Nat
      BY <3>3, <3>4, RowsFinite
    <3> QED BY <1>2, <1>5, <2>1, <3>1, <3>5
  <2>4. ~(Cardinality(shown) < size)
    <3> SUFFICES ASSUME Cardinality(shown) < size PROVE FALSE
      OBVIOUS
    <3>1. shown = merged
      BY <1>2
    <3>2. Cardinality(slice) <= Cardinality(shown)
      BY <3>1, RowsFinite
    <3> QED BY <1>2, <2>1, <3>2
  <2> QED BY <2>3, <2>4
<1> QED BY <1>6, <1>7

LEMMA OldestPage ==
    ASSUME NEW n \in Nat, NEW pool \in RowSets(n), NEW merged \in RowSets(n), NEW size \in Nat,
           NEW slice, slice = Oldest(pool, size), slice \subseteq merged,
           NEW shown, shown = Oldest(merged, size), NEW r \in pool
    PROVE  /\ shown # {} /\ r <= Max(shown) => r \in shown
           /\ Cardinality(shown) < size => r \in shown
<1> USE DEF RowSets
<1>1. /\ slice \subseteq pool /\ shown \subseteq merged
      /\ \A p \in slice : \A q \in pool : q <= p => q \in slice
      /\ \A p \in shown : \A q \in merged : q <= p => q \in shown
  BY OldestClosed
<1>2. /\ Cardinality(slice) \in Nat /\ Cardinality(shown) \in Nat
      /\ slice = pool \/ Cardinality(slice) >= size
      /\ shown = merged \/ Cardinality(shown) >= size
  BY OldestCount
<1>3. r \in Int /\ (\A q \in pool : q \in Int) /\ (\A q \in merged : q \in 0..n)
  OBVIOUS
<1>4. shown # {} => Max(shown) \in shown
  <2>1. shown \in SUBSET (0..n)
    BY <1>1, <1>3
  <2> QED BY <2>1, MaxFacts
<1>5. \A p \in shown : Cardinality({q \in merged : q < p}) < size
  BY DEF Oldest
<1>6. CASE r \in slice
  <2>1. shown # {} /\ r <= Max(shown) => r \in shown
    <3> SUFFICES ASSUME shown # {}, r <= Max(shown) PROVE r \in shown
      OBVIOUS
    <3>1. PICK p \in shown : r <= p
      BY <1>4
    <3>2. p \in Int /\ r <= p
      BY <1>1, <1>3, <3>1
    <3> QED BY <1>1, <1>6, <3>2
  <2>2. Cardinality(shown) < size => r \in shown
    BY <1>2, <1>6
  <2> QED BY <2>1, <2>2
<1>7. CASE r \notin slice
  <2>1. Cardinality(slice) >= size
    BY <1>2, <1>7
  <2>2. ASSUME NEW q \in slice
        PROVE  q < r /\ q \in merged /\ q \in Int
    BY <1>1, <1>3, <1>7
  <2>3. ~(shown # {} /\ r <= Max(shown))
    <3> SUFFICES ASSUME shown # {}, r <= Max(shown) PROVE FALSE
      OBVIOUS
    <3>1. PICK p \in shown : r <= p
      BY <1>4
    <3>2. p \in Int
      BY <1>1, <1>3
    <3>3. slice \in SUBSET {q \in merged : q < p}
      <4>1. ASSUME NEW q \in slice
            PROVE  q \in merged /\ q < p
        BY <1>3, <2>2, <3>1, <3>2
      <4> QED BY <4>1
    <3>4. {q \in merged : q < p} \in SUBSET (1..n)
      OBVIOUS
    <3>5. /\ Cardinality(slice) <= Cardinality({q \in merged : q < p})
          /\ Cardinality({q \in merged : q < p}) \in Nat
      BY <3>3, <3>4, RowsFinite
    <3> QED BY <1>2, <1>5, <2>1, <3>1, <3>5
  <2>4. ~(Cardinality(shown) < size)
    <3> SUFFICES ASSUME Cardinality(shown) < size PROVE FALSE
      OBVIOUS
    <3>1. shown = merged
      BY <1>2
    <3>2. Cardinality(slice) <= Cardinality(shown)
      BY <3>1, RowsFinite
    <3> QED BY <1>2, <2>1, <3>2
  <2> QED BY <2>3, <2>4
<1> QED BY <1>6, <1>7

-----------------------------------------------------------------------------
(* Slices by offset.                                                       *)

\* The newest of what is left after the newest: a row that is among the
\* first offset + size rows is among the first offset, or in the slice.
LEMMA NextSlice ==
    ASSUME NEW n \in Nat, NEW S \in SUBSET (1..n), NEW offset \in Nat, NEW size \in Nat,
           NEW skipped, skipped = Newest(S, offset),
           NEW r \in Newest(S, offset + size), r \notin skipped
    PROVE  r \in Newest(S \ skipped, size)
<1>1. r \in S /\ Cardinality({q \in S : q > r}) < offset + size
  BY DEF Newest
<1>2. /\ skipped \subseteq S /\ \A p \in skipped : \A q \in S : q >= p => q \in skipped
      /\ Cardinality(skipped) \in Nat /\ (skipped = S \/ Cardinality(skipped) >= offset)
  BY NewestClosed, NewestCount
<1>3. r \in Int /\ \A q \in S : q \in Int
  BY <1>1
<1>4. PICK after : after = {q \in S : q > r}
  OBVIOUS
<1>5. after \in SUBSET (1..n)
  BY <1>4
<1>6. skipped \in SUBSET after
  <2>1. ASSUME NEW q \in skipped
        PROVE  q \in S /\ q > r
    BY <1>1, <1>2, <1>3
  <2> QED BY <1>4, <2>1
<1>7. IsFiniteSet(after) /\ IsFiniteSet(skipped) /\ Cardinality(after) \in Nat
  BY <1>5, <1>6, RowsFinite
<1>8. Cardinality(after \ skipped) = Cardinality(after) - Cardinality(skipped)
  <2>1. after \cap skipped = skipped
    BY <1>6
  <2>2. Cardinality(after \ skipped) = Cardinality(after) - Cardinality(after \cap skipped)
    BY <1>7, FS_Difference
  <2> QED BY <2>1, <2>2
<1>9. Cardinality(skipped) >= offset
  BY <1>1, <1>2
<1>10. {q \in S \ skipped : q > r} = after \ skipped
  BY <1>4
<1>11. Cardinality({q \in S \ skipped : q > r}) < size
  BY <1>1, <1>2, <1>4, <1>7, <1>8, <1>9, <1>10
<1> QED BY <1>1, <1>11 DEF Newest

\* What is not among the newest are the others.
LEMMA LeftOut ==
    ASSUME NEW n \in Nat, NEW S \in SUBSET (1..n), NEW size \in Nat, size <= Cardinality(S)
    PROVE  Cardinality(S \ Newest(S, size)) <= Cardinality(S) - size
<1>1. Newest(S, size) \in SUBSET S
  BY DEF Newest
<1>2. /\ IsFiniteSet(S) /\ IsFiniteSet(Newest(S, size)) /\ Cardinality(S) \in Nat
      /\ S \cap Newest(S, size) = Newest(S, size)
  BY <1>1, RowsFinite
<1>3. Cardinality(S \ Newest(S, size)) = Cardinality(S) - Cardinality(Newest(S, size))
  BY <1>2, FS_Difference
<1>4. Cardinality(Newest(S, size)) \in Nat /\ Cardinality(Newest(S, size)) >= size
  BY NewestCount
<1> QED BY <1>2, <1>3, <1>4

LEMMA MoreNewest ==
    ASSUME NEW n \in Nat, NEW S \in SUBSET (1..n), NEW size \in Nat, NEW more \in Nat, size <= more
    PROVE  Newest(S, size) \subseteq Newest(S, more)
<1> SUFFICES ASSUME NEW r \in Newest(S, size) PROVE r \in Newest(S, more)
  OBVIOUS
<1>1. r \in S /\ Cardinality({q \in S : q > r}) < size
  BY DEF Newest
<1>2. Cardinality({q \in S : q > r}) \in Nat
  BY RowsFinite
<1> QED BY <1>1, <1>2 DEF Newest

-----------------------------------------------------------------------------
(* The inductive invariant.                                                *)

\* The rows that a slice was taken from: those of one agent, up to the row
\* that was the last when it was fetched, on the cursor's side of the turn.
Pool(a, last) ==
    {r \in Rows(a) : /\ r <= last
                     /\ turn = "older" => r < cursor
                     /\ turn = "newer" => r > cursor}

Slice(a, last) ==
    IF turn = "newer" THEN Oldest(Pool(a, last), PageSize) ELSE Newest(Pool(a, last), PageSize)

SlicesInv ==
    /\ slices = [a \in Agents |-> slices[a]]
    /\ \A a \in Agents : slices[a] # None =>
          turn # "none" /\ \E last \in start..Len(ledger) : slices[a] = Slice(a, last)

\* A walk by offset has got what is newer than its offset of the rows that
\* were counted, although the offset means other rows by now.
WalkInv ==
    walk # None =>
        /\ walk = [agent |-> walk.agent, total |-> walk.total, there |-> walk.there,
                   offset |-> walk.offset, got |-> walk.got]
        /\ walk.offset \in Nat
        /\ walk.there \subseteq Rows(walk.agent) /\ walk.got \subseteq Rows(walk.agent)
        /\ walk.total = Cardinality(walk.there)
        /\ Newest(Rows(walk.agent), walk.offset) \cap walk.there \subseteq walk.got
        /\ \A r \in walk.there : \A q \in walk.got : q < r => r \in walk.got

PagingInv == TypeOK /\ SlicesInv /\ WalkInv

LEMMA PagingInit == Init => PagingInv
  BY DEF Init, PagingInv, TypeOK, SlicesInv, WalkInv, NoSlices

LEMMA RowsOfLedger ==
    ASSUME TypeOK
    PROVE  Len(ledger) \in Nat /\ \A a : Rows(a) \in SUBSET (1..Len(ledger))
  BY DEF TypeOK, Rows

\* Append_ changes no row that was there.
LEMMA RowsGrow ==
    ASSUME TypeOK, NEW row \in [agent : Agents, kept : BOOLEAN], ledger' = Append(ledger, row)
    PROVE  /\ Len(ledger') = Len(ledger) + 1 /\ ledger' \in Seq([agent : Agents, kept : BOOLEAN])
           /\ \A a : /\ Rows(a) \subseteq Rows(a)'
                     /\ Rows(a)' \subseteq Rows(a) \cup {Len(ledger) + 1}
<1>1. /\ ledger \in Seq([agent : Agents, kept : BOOLEAN]) /\ Len(ledger) \in Nat
      /\ Len(ledger') = Len(ledger) + 1 /\ ledger' \in Seq([agent : Agents, kept : BOOLEAN])
      /\ \A r \in 1..Len(ledger) : ledger'[r] = ledger[r]
  BY DEF TypeOK
<1>2. ASSUME NEW a
      PROVE  Rows(a) \subseteq Rows(a)' /\ Rows(a)' \subseteq Rows(a) \cup {Len(ledger) + 1}
  <2>1. \A r \in Rows(a) : r \in Rows(a)'
    BY <1>1 DEF Rows
  <2>2. \A r \in Rows(a)' : r \in Rows(a) \/ r = Len(ledger) + 1
    BY <1>1 DEF Rows
  <2> QED BY <2>1, <2>2
<1> QED BY <1>1, <1>2

\* A row that is newest for a number of rows stays so only in a longer ledger.
LEMMA NewestShrinks ==
    ASSUME NEW n \in Nat, NEW S, NEW T \in SUBSET (1..n), S \subseteq T, NEW size \in Nat
    PROVE  Newest(T, size) \cap S \subseteq Newest(S, size)
<1> SUFFICES ASSUME NEW r \in S, r \in Newest(T, size) PROVE r \in Newest(S, size)
  OBVIOUS
<1>1. Cardinality({q \in T : q > r}) < size
  BY DEF Newest
<1>2. {q \in T : q > r} \in SUBSET (1..n) /\ {q \in S : q > r} \in SUBSET {q \in T : q > r}
  OBVIOUS
<1>3. /\ Cardinality({q \in S : q > r}) <= Cardinality({q \in T : q > r})
      /\ Cardinality({q \in S : q > r}) \in Nat /\ Cardinality({q \in T : q > r}) \in Nat
  BY <1>2, RowsFinite
<1>4. Cardinality({q \in S : q > r}) < size
  BY <1>1, <1>3
<1> QED BY <1>4 DEF Newest

LEMMA AppendStep ==
    ASSUME PagingInv, NEW a \in Agents, NEW k \in BOOLEAN, Append_([agent |-> a, kept |-> k])
    PROVE  PagingInv'
<1> USE DEF PagingInv
<1>1. ledger' = Append(ledger, [agent |-> a, kept |-> k]) /\ UNCHANGED <<start, page, turn, cursor, slices, walk>>
  BY DEF Append_, cursors
<1>2. /\ Len(ledger') = Len(ledger) + 1 /\ ledger' \in Seq([agent : Agents, kept : BOOLEAN])
      /\ \A b : /\ Rows(b) \subseteq Rows(b)'
                /\ Rows(b)' \subseteq Rows(b) \cup {Len(ledger) + 1}
  BY <1>1, RowsGrow
<1>3. Len(ledger) \in Nat /\ \A b : Rows(b) \in SUBSET (1..Len(ledger))
  BY RowsOfLedger
<1>4. TypeOK'
  <2>1. \A S : S \subseteq 1..Len(ledger) => S \subseteq 1..Len(ledger')
    <3>1. \A r \in 1..Len(ledger) : r \in 1..Len(ledger')
      BY <1>2, <1>3
    <3> QED BY <3>1
  <2>2. start' \in 0..Len(ledger') /\ cursor' \in 0..Len(ledger')
    BY <1>1, <1>2, <1>3 DEF TypeOK
  <2> QED BY <1>1, <1>2, <2>1, <2>2 DEF TypeOK
<1>5. SlicesInv'
  <2>1. ASSUME NEW b \in Agents, NEW last \in start..Len(ledger)
        PROVE  last \in start..Len(ledger') /\ Slice(b, last)' = Slice(b, last)
    <3>1. \A r : r \in Rows(b) /\ r <= last <=> r \in Rows(b)' /\ r <= last
      BY <1>2, <1>3 DEF TypeOK
    <3>2. Pool(b, last)' = Pool(b, last)
      BY <1>1, <3>1 DEF Pool
    <3>3. Slice(b, last)' = Slice(b, last)
      BY <1>1, <3>2 DEF Slice, Newest, Oldest
    <3> QED BY <1>2, <1>3, <3>3 DEF TypeOK
  <2> QED BY <1>1, <2>1 DEF SlicesInv
<1>6. WalkInv'
  <2> SUFFICES ASSUME walk # None PROVE WalkInv'
    BY <1>1 DEF WalkInv
  <2>1. PICK b : b = walk.agent
    OBVIOUS
  <2>2. PICK n : n = walk.offset
    OBVIOUS
  <2>3. n \in Nat /\ walk.there \subseteq Rows(b) /\ Newest(Rows(b), n) \cap walk.there \subseteq walk.got
    BY <2>1, <2>2 DEF WalkInv
  <2>4. Newest(Rows(b)', n) \cap Rows(b) \subseteq Newest(Rows(b), n)
    <3>1. \A r \in Rows(b)' : r \in 1..(Len(ledger) + 1)
      BY <1>2, <1>3
    <3>2. Rows(b)' \in SUBSET (1..(Len(ledger) + 1)) /\ Len(ledger) + 1 \in Nat
      BY <1>3, <3>1
    <3> QED BY <1>2, <2>3, <3>2, NewestShrinks
  <2>5. Newest(Rows(b)', n) \cap walk.there \subseteq walk.got
    BY <2>3, <2>4
  <2>6. /\ walk' = walk /\ Rows(b) \subseteq Rows(b)'
        /\ walk.got \subseteq Rows(b)
    BY <1>1, <1>2, <2>1 DEF WalkInv
  <2>7. b = walk'.agent /\ n = walk'.offset
    BY <2>1, <2>2, <2>6
  <2>8. Newest(Rows(b)', n) = Newest(Rows(walk.agent), walk.offset)' /\ Rows(b)' = Rows(walk.agent)'
    BY <2>7
  <2> QED BY <2>3, <2>5, <2>6, <2>8 DEF WalkInv
<1> QED BY <1>4, <1>5, <1>6

\* What is left of the invariant when the ledger, and what a walk by offset
\* has got, stay.
LEMMA WalkStays ==
    ASSUME PagingInv, UNCHANGED <<ledger, walk>>
    PROVE  WalkInv' /\ \A a : Rows(a)' = Rows(a)
<1>1. \A a : Rows(a)' = Rows(a)
  BY DEF Rows
<1>2. WalkInv'
  BY <1>1 DEF PagingInv, WalkInv, Newest
<1> QED BY <1>1, <1>2

LEMMA TurnStep ==
    ASSUME PagingInv, TurnFirst \/ TurnOlder \/ TurnNewer
    PROVE  PagingInv'
<1> USE DEF PagingInv
<1>1. Len(ledger) \in Nat
  BY RowsOfLedger
<1>2. page # {} => Min(page) \in 0..Len(ledger) /\ Max(page) \in 0..Len(ledger)
  <2>1. \A r \in page : r \in 1..Len(ledger)
    BY DEF TypeOK
  <2>2. page \in SUBSET Nat /\ page \in SUBSET (0..Len(ledger))
    BY <1>1, <2>1
  <2>3. page # {} => Min(page) \in page /\ Max(page) \in page
    BY <1>1, <2>2, MinFacts, MaxFacts
  <2> QED BY <2>2, <2>3
<1>3. /\ turn = "none" /\ turn' \in {"first", "older", "newer"} /\ UNCHANGED <<ledger, slices, walk>>
      /\ page' \in {{}, page} /\ start' \in {start, Len(ledger)}
      /\ cursor' \in 0..Len(ledger)
  <2>1. CASE TurnFirst
    BY <1>1, <2>1 DEF TurnFirst, Turn
  <2>2. CASE TurnOlder
    BY <1>2, <2>2 DEF TurnOlder, Turn
  <2>3. CASE TurnNewer
    BY <1>2, <2>3 DEF TurnNewer, Turn
  <2> QED BY <2>1, <2>2, <2>3
<1>4. TypeOK'
  <2>1. start' \in 0..Len(ledger')
    BY <1>1, <1>3 DEF TypeOK
  <2>2. page' \subseteq 1..Len(ledger')
    <3>1. page \subseteq 1..Len(ledger) /\ ledger' = ledger
      BY <1>3 DEF TypeOK
    <3> QED BY <1>3, <3>1
  <2> QED BY <1>3, <2>1, <2>2 DEF TypeOK
<1>5. SlicesInv'
  BY <1>3 DEF SlicesInv
<1> QED BY <1>3, <1>4, <1>5, WalkStays

\* Each client call fetches what it was asked for, of the rows there are.
LEMMA FetchedSlice ==
    ASSUME TypeOK, turn # "none", NEW a \in Agents
    PROVE  (IF turn = "first" THEN OffsetSlice(a, 0)
            ELSE IF turn = "older" THEN OlderSlice(a) ELSE NewerSlice(a)) = Slice(a, Len(ledger))
<1>1. Len(ledger) \in Nat /\ Rows(a) \in SUBSET (1..Len(ledger))
  BY RowsOfLedger
<1>2. \A r \in Rows(a) : r <= Len(ledger) /\ r \in Nat
  BY <1>1
<1>3. CASE turn = "first"
  <2>1. Newest(Rows(a), 0) = {}
    <3>1. ASSUME NEW r \in Rows(a)
          PROVE  ~(Cardinality({q \in Rows(a) : q > r}) < 0)
      <4>1. Cardinality({q \in Rows(a) : q > r}) \in Nat
        BY <1>1, RowsFinite
      <4> QED BY <4>1
    <3> QED BY <3>1 DEF Newest
  <2>2. Pool(a, Len(ledger)) = Rows(a)
    BY <1>2, <1>3 DEF Pool
  <2>3. Rows(a) \ {} = Rows(a)
    OBVIOUS
  <2> QED BY <1>3, <2>1, <2>2, <2>3 DEF OffsetSlice, Slice
<1>4. CASE turn = "older"
  <2>1. Pool(a, Len(ledger)) = {r \in Rows(a) : r < cursor}
    BY <1>2, <1>4 DEF Pool
  <2> QED BY <1>4, <2>1 DEF OlderSlice, Slice
<1>5. CASE turn = "newer"
  <2>1. Pool(a, Len(ledger)) = {r \in Rows(a) : r > cursor}
    BY <1>2, <1>5 DEF Pool
  <2> QED BY <1>5, <2>1 DEF NewerSlice, Slice
<1> QED BY <1>3, <1>4, <1>5 DEF TypeOK

LEMMA SliceRows ==
    ASSUME TypeOK, NEW a, NEW last
    PROVE  /\ Pool(a, last) \in SUBSET (1..Len(ledger))
           /\ Slice(a, last) \in SUBSET (1..Len(ledger))
           /\ Slice(a, last) \subseteq Pool(a, last)
<1>1. Pool(a, last) \in SUBSET (1..Len(ledger))
  BY RowsOfLedger DEF Pool
<1> QED BY <1>1 DEF Slice, Newest, Oldest

LEMMA FetchStep ==
    ASSUME PagingInv, NEW a \in Agents, Fetch(a)
    PROVE  PagingInv'
<1> USE DEF PagingInv
<1>1. /\ turn # "none" /\ UNCHANGED <<ledger, start, page, turn, cursor, walk>>
      /\ slices' = [slices EXCEPT ![a] = Slice(a, Len(ledger))]
  BY FetchedSlice DEF Fetch
<1>2. PICK slice : slice = Slice(a, Len(ledger))
  OBVIOUS
<1>3. slice \in SUBSET (1..Len(ledger))
  BY <1>2, SliceRows
<1>4. slices' = [b \in Agents |-> IF b = a THEN slice ELSE slices[b]]
  BY <1>1, <1>2 DEF SlicesInv
<1>5. TypeOK'
  BY <1>1, <1>3, <1>4 DEF TypeOK
<1>6. \A b \in Agents : \A last : Slice(b, last)' = Slice(b, last)
  BY <1>1 DEF Slice, Pool, Rows, Newest, Oldest
<1>7. Len(ledger) \in start..Len(ledger)
  BY RowsOfLedger DEF TypeOK
<1>8. SlicesInv'
  BY <1>1, <1>2, <1>4, <1>6, <1>7 DEF SlicesInv
<1> QED BY <1>1, <1>5, <1>8, WalkStays

\* The page that is shown comes from the slices.
LEMMA MergedFacts ==
    ASSUME PagingInv, \A a \in Agents : slices[a] # None
    PROVE  Merged \in SUBSET (1..Len(ledger))
  BY DEF PagingInv, TypeOK, Merged

LEMMA ShowStep ==
    ASSUME PagingInv, Show \/ Fail
    PROVE  PagingInv'
<1> USE DEF PagingInv
<1>1. turn' = "none" /\ slices' = NoSlices /\ UNCHANGED <<ledger, start, cursor, walk>>
  BY DEF Show, Fail
<1>2. page' \subseteq 1..Len(ledger)
  <2>1. CASE Show
    BY <2>1, MergedFacts DEF Show, Newest, Oldest
  <2>2. CASE Fail
    BY <2>2 DEF Fail, TypeOK
  <2> QED BY <2>1, <2>2
<1>3. TypeOK'
  BY <1>1, <1>2 DEF TypeOK, NoSlices
<1>4. SlicesInv'
  BY <1>1 DEF SlicesInv, NoSlices
<1> QED BY <1>1, <1>3, <1>4, WalkStays

LEMMA WalkSteps ==
    ASSUME PagingInv, (\E a \in Agents : BeginWalk(a)) \/ NextPage \/ EndWalk
    PROVE  PagingInv'
<1> USE DEF PagingInv
<1>1. UNCHANGED <<ledger, start, page, turn, cursor, slices>>
  BY DEF BeginWalk, NextPage, EndWalk, cursors
<1>2. \A a : Rows(a)' = Rows(a) /\ Rows(a) \in SUBSET (1..Len(ledger))
  BY <1>1, RowsOfLedger DEF Rows
<1>3. SlicesInv'
  <2>1. \A b \in Agents : \A last : Slice(b, last)' = Slice(b, last)
    BY <1>1 DEF Slice, Pool, Rows, Newest, Oldest
  <2> QED BY <1>1, <2>1 DEF SlicesInv
<1>4. WalkInv' => TypeOK'
  BY <1>1, <1>2 DEF TypeOK, WalkInv
<1>5. WalkInv'
  <2>1. ASSUME NEW a \in Agents, BeginWalk(a)
        PROVE  WalkInv'
    <3>1. PICK w : w = [agent |-> a, total |-> Count(a), there |-> Rows(a), offset |-> 0, got |-> {}]
      OBVIOUS
    <3>2. walk' = w
      BY <2>1, <3>1 DEF BeginWalk
    <3>3. /\ w.agent = a /\ w.total = Cardinality(w.there) /\ w.there = Rows(a) /\ w.offset = 0 /\ w.got = {}
          /\ w = [agent |-> w.agent, total |-> w.total, there |-> w.there, offset |-> w.offset, got |-> w.got]
      BY <3>1 DEF Count
    <3>4. Newest(Rows(a), 0) = {}
      <4>1. ASSUME NEW r \in Rows(a)
            PROVE  ~(Cardinality({q \in Rows(a) : q > r}) < 0)
        <5>1. Cardinality({q \in Rows(a) : q > r}) \in Nat
          BY <1>2, RowsOfLedger, RowsFinite
        <5> QED BY <5>1
      <4> QED BY <4>1 DEF Newest
    <3>5. Newest(Rows(a)', 0) = {}
      BY <1>2, <3>4
    <3> QED BY <1>2, <3>2, <3>3, <3>5 DEF WalkInv
  <2>2. ASSUME NextPage
        PROVE  WalkInv'
    <3>1. PICK R : R = Rows(walk.agent)
      OBVIOUS
    <3>2. PICK skipped : skipped = Newest(R, walk.offset)
      OBVIOUS
    <3>3. PICK slice : slice = Newest(R \ skipped, PageSize)
      OBVIOUS
    <3>4. PICK w : w = [walk EXCEPT !.offset = @ + PageSize, !.got = @ \cup slice]
      OBVIOUS
    <3>5. walk' = w /\ walk # None
      BY <2>2, <3>1, <3>2, <3>3, <3>4 DEF NextPage, OffsetSlice
    <3>6. /\ w.agent = walk.agent /\ w.total = walk.total /\ w.there = walk.there
          /\ w.offset = walk.offset + PageSize /\ w.got = walk.got \cup slice
          /\ w = [agent |-> w.agent, total |-> w.total, there |-> w.there, offset |-> w.offset, got |-> w.got]
      BY <3>4, <3>5 DEF WalkInv
    <3>7. /\ R \in SUBSET (1..Len(ledger)) /\ Len(ledger) \in Nat /\ walk.offset \in Nat /\ PageSize \in Nat
          /\ walk.there \subseteq R /\ walk.got \subseteq R /\ slice \subseteq R \ skipped
          /\ \A r \in R : r \in Int
      BY <1>2, <3>1, <3>3, <3>5, RowsOfLedger, PagingAssumption DEF PagingAssumption, WalkInv, Newest
    <3>8. skipped \cap walk.there \subseteq walk.got
      BY <3>1, <3>2, <3>5 DEF WalkInv
    <3>9. Newest(R, w.offset) \cap w.there \subseteq w.got
      BY <3>2, <3>3, <3>6, <3>7, <3>8, NextSlice
    <3>10. ASSUME NEW r \in w.there, NEW q \in w.got, q < r
           PROVE  r \in w.got
      <4>1. CASE q \in walk.got
        BY <3>5, <3>6, <3>10, <4>1 DEF WalkInv
      <4>2. CASE q \in slice /\ r \notin skipped
        <5>1. R \ skipped \in SUBSET (1..Len(ledger))
          BY <3>7
        <5>2. r \in R \ skipped /\ r >= q
          BY <3>6, <3>7, <3>10, <4>2
        <5>3. r \in slice
          BY <3>3, <3>7, <4>2, <5>1, <5>2, NewestClosed
        <5> QED BY <3>6, <5>3
      <4> QED BY <3>6, <3>8, <3>10, <4>1, <4>2
    <3>11. /\ w.total = Cardinality(w.there) /\ w.there \subseteq R /\ w.got \subseteq R /\ w.offset \in Nat
      BY <3>1, <3>5, <3>6, <3>7 DEF WalkInv
    <3>12. R = Rows(walk.agent)'
      BY <1>2, <3>1, <3>5, <3>6
    <3>13. Newest(R, w.offset) = Newest(Rows(walk.agent), walk.offset)'
      BY <3>5, <3>12
    <3> QED BY <3>5, <3>6, <3>9, <3>10, <3>11, <3>12, <3>13 DEF WalkInv
  <2>3. CASE EndWalk
    BY <2>3 DEF EndWalk, WalkInv
  <2> QED BY <2>1, <2>2, <2>3
<1> QED BY <1>3, <1>4, <1>5

LEMMA PagingStep ==
    ASSUME PagingInv, [Next]_vars
    PROVE  PagingInv'
<1>1. CASE UNCHANGED vars
  <2>1. UNCHANGED <<ledger, start, page, turn, cursor, slices, walk>>
    BY <1>1 DEF vars, cursors
  <2>2. TypeOK'
    BY <2>1 DEF PagingInv, TypeOK
  <2>3. \A b \in Agents : \A last : Slice(b, last)' = Slice(b, last)
    BY <2>1 DEF Slice, Pool, Rows, Newest, Oldest
  <2>4. SlicesInv'
    BY <2>1, <2>3 DEF PagingInv, SlicesInv
  <2> QED BY <2>1, <2>2, <2>4, WalkStays DEF PagingInv
<1> QED BY <1>1, AppendStep, TurnStep, FetchStep, ShowStep, WalkSteps DEF Next

\* The inductive invariant holds throughout.
THEOREM PagingInvariant == Spec => []PagingInv
  BY PagingInit, PagingStep, PTL DEF Spec

-----------------------------------------------------------------------------
(* The theorems.                                                           *)

\* The rows on display, the cursor and the slices are rows of the ledger.
THEOREM TypeCorrect == Spec => []TypeOK
  BY PagingInvariant, PTL DEF PagingInv

\* What a page shows of a row that was there when the walk began, when the
\* page is not full, or reaches that row.
LEMMA ShownRows ==
    ASSUME PagingInv, Show, NEW a \in Agents, NEW r \in Rows(a), r \in 1..start,
           turn = "older" => r < cursor, turn = "newer" => r > cursor
    PROVE  /\ Cardinality(page') < PageSize => r \in page'
           /\ turn # "newer" /\ page' # {} /\ Min(page') <= r => r \in page'
           /\ turn = "newer" /\ page' # {} /\ r <= Max(page') => r \in page'
<1> USE DEF PagingInv
<1>1. slices[a] # None /\ Merged \in SUBSET (1..Len(ledger)) /\ slices[a] \subseteq Merged
  BY MergedFacts DEF Show, Merged
<1>2. PICK last \in start..Len(ledger) : slices[a] = Slice(a, last)
  BY <1>1 DEF SlicesInv
<1>3. Len(ledger) \in Nat /\ PageSize \in Nat
  BY RowsOfLedger, PagingAssumption DEF PagingAssumption
<1>4. Pool(a, last) \in SUBSET (1..Len(ledger)) /\ r \in Pool(a, last)
  <2>1. r <= last
    BY <1>3 DEF TypeOK
  <2> QED BY <2>1, SliceRows DEF Pool
<1>5. CASE turn = "newer"
  <2>1. page' = Oldest(Merged, PageSize) /\ slices[a] = Oldest(Pool(a, last), PageSize)
    BY <1>2, <1>5 DEF Show, Slice
  <2>2. PICK n, pool, merged, size, slice, shown :
           /\ n = Len(ledger) /\ pool = Pool(a, last) /\ merged = Merged
           /\ size = PageSize /\ slice = slices[a] /\ shown = page'
    OBVIOUS
  <2>3. /\ n \in Nat /\ pool \in RowSets(n) /\ merged \in RowSets(n) /\ size \in Nat
        /\ slice \subseteq merged /\ r \in pool
        /\ slice = Oldest(pool, size) /\ shown = Oldest(merged, size)
    BY <1>1, <1>3, <1>4, <2>1, <2>2 DEF RowSets
  <2>4. /\ shown # {} /\ r <= Max(shown) => r \in shown
        /\ Cardinality(shown) < size => r \in shown
    BY <2>3, OldestPage
  <2> QED BY <1>5, <2>2, <2>4
<1>6. CASE turn # "newer"
  <2>1. page' = Newest(Merged, PageSize) /\ slices[a] = Newest(Pool(a, last), PageSize)
    BY <1>2, <1>6 DEF Show, Slice
  <2>2. PICK n, pool, merged, size, slice, shown :
           /\ n = Len(ledger) /\ pool = Pool(a, last) /\ merged = Merged
           /\ size = PageSize /\ slice = slices[a] /\ shown = page'
    OBVIOUS
  <2>3. /\ n \in Nat /\ pool \in RowSets(n) /\ merged \in RowSets(n) /\ size \in Nat
        /\ slice \subseteq merged /\ r \in pool
        /\ slice = Newest(pool, size) /\ shown = Newest(merged, size)
    BY <1>1, <1>3, <1>4, <2>1, <2>2 DEF RowSets
  <2>4. /\ shown # {} /\ Min(shown) <= r => r \in shown
        /\ Cardinality(shown) < size => r \in shown
    BY <2>3, NewestPage
  <2> QED BY <1>6, <2>2, <2>4
<1> QED BY <1>5, <1>6

LEMMA ShowsIsShow ==
    ASSUME [Next]_vars, NEW t \in {"first", "older", "newer"}, Shows(t)
    PROVE  Show /\ turn = t
<1>1. turn = t /\ turn' = "none" /\ \A a \in Agents : slices[a] # None
  BY DEF Shows
<1>2. ~UNCHANGED vars
  BY <1>1 DEF vars, cursors
<1>3. ~(TurnFirst \/ TurnOlder \/ TurnNewer \/ Fail)
  BY <1>1 DEF TurnFirst, TurnOlder, TurnNewer, Turn, Fail
<1>4. turn' # turn
  BY <1>1
<1> QED BY <1>1, <1>2, <1>3, <1>4 DEF Next, Append_, NextPage, EndWalk, Fetch, BeginWalk, cursors

\* Turning the page in either direction jumps over no row that was in the
\* ledger when the walk began (audit_agent_paged_after and its cursors).
THEOREM TurnTheorem == Spec => TurnsSkipNothing
<1>1. PagingInv /\ [Next]_vars =>
         [page' # {} =>
            \A r \in AllRows \cap (1..start) :
               /\ Shows("first") /\ r >= Min(page') => r \in page'
               /\ Shows("older") /\ Min(page') <= r /\ r < cursor => r \in page'
               /\ Shows("newer") /\ cursor < r /\ r <= Max(page') => r \in page']_vars
  <2> SUFFICES ASSUME PagingInv, [Next]_vars, page' # {},
                      NEW r \in AllRows, r \in 1..start
               PROVE  /\ Shows("first") /\ r >= Min(page') => r \in page'
                      /\ Shows("older") /\ Min(page') <= r /\ r < cursor => r \in page'
                      /\ Shows("newer") /\ cursor < r /\ r <= Max(page') => r \in page'
    OBVIOUS
  <2>1. PICK a \in Agents : r \in Rows(a)
    BY DEF AllRows
  <2>2. ASSUME Shows("first"), r >= Min(page')
        PROVE  r \in page'
    BY <2>1, <2>2, ShowsIsShow, ShownRows
  <2>3. ASSUME Shows("older"), Min(page') <= r, r < cursor
        PROVE  r \in page'
    BY <2>1, <2>3, ShowsIsShow, ShownRows
  <2>4. ASSUME Shows("newer"), cursor < r, r <= Max(page')
        PROVE  r \in page'
    BY <2>1, <2>4, ShowsIsShow, ShownRows
  <2> QED BY <2>2, <2>3, <2>4
<1> QED BY <1>1, PagingInvariant, PTL DEF Spec, TurnsSkipNothing

\* A page that is not full is the last in its direction.
THEOREM ShortPageTheorem == Spec => ShortPageIsTheLast
<1>1. PagingInv /\ [Next]_vars =>
         [Cardinality(page') < PageSize =>
            \A r \in AllRows \cap (1..start) :
               /\ Shows("first") => r \in page'
               /\ Shows("older") /\ r < cursor => r \in page'
               /\ Shows("newer") /\ r > cursor => r \in page']_vars
  <2> SUFFICES ASSUME PagingInv, [Next]_vars, Cardinality(page') < PageSize,
                      NEW r \in AllRows, r \in 1..start
               PROVE  /\ Shows("first") => r \in page'
                      /\ Shows("older") /\ r < cursor => r \in page'
                      /\ Shows("newer") /\ r > cursor => r \in page'
    OBVIOUS
  <2>1. PICK a \in Agents : r \in Rows(a)
    BY DEF AllRows
  <2>2. ASSUME NEW t \in {"first", "older", "newer"}, Shows(t),
               t = "older" => r < cursor, t = "newer" => r > cursor
        PROVE  r \in page'
    BY <2>1, <2>2, ShowsIsShow, ShownRows
  <2> QED BY <2>2
<1> QED BY <1>1, PagingInvariant, PTL DEF Spec, ShortPageIsTheLast

\* A walk by offset leaves no gap, and what it misses of the rows it counted
\* are no more than were appended to the trail meanwhile (limit and offset of
\* AuditFilterParams, audit_agent_count_filtered).
THEOREM OffsetTheorem == Spec => []OffsetWalksMissOnlyWhatMoved
<1>1. ASSUME PagingInv
      PROVE  OffsetWalksMissOnlyWhatMoved
  <2> USE DEF PagingInv
  <2> SUFFICES ASSUME walk # None, walk.offset >= walk.total
               PROVE  Cardinality(walk.there \ walk.got) <= Count(walk.agent) - walk.total
    BY <1>1 DEF OffsetWalksMissOnlyWhatMoved, WalkInv
  <2>1. PICK R : R = Rows(walk.agent)
    OBVIOUS
  <2>2. /\ R \in SUBSET (1..Len(ledger)) /\ Len(ledger) \in Nat /\ walk.there \in SUBSET R
        /\ walk.total = Cardinality(walk.there) /\ walk.offset \in Nat
        /\ Newest(R, walk.offset) \cap walk.there \subseteq walk.got
    BY <1>1, <2>1, RowsOfLedger DEF WalkInv
  <2>3. /\ IsFiniteSet(R) /\ Cardinality(R) \in Nat /\ walk.total \in Nat /\ walk.total <= Cardinality(R)
    BY <2>2, RowsFinite
  <2>4. Newest(R, walk.total) \subseteq Newest(R, walk.offset)
    BY <2>2, <2>3, MoreNewest
  <2>5. walk.there \ walk.got \subseteq R \ Newest(R, walk.total)
    BY <2>2, <2>4
  <2>6. Cardinality(R \ Newest(R, walk.total)) <= Cardinality(R) - walk.total
    BY <2>2, <2>3, LeftOut
  <2>7. R \ Newest(R, walk.total) \in SUBSET (1..Len(ledger))
    BY <2>2
  <2>8. /\ Cardinality(walk.there \ walk.got) <= Cardinality(R \ Newest(R, walk.total))
        /\ Cardinality(walk.there \ walk.got) \in Nat
        /\ Cardinality(R \ Newest(R, walk.total)) \in Nat
    BY <2>2, <2>5, <2>7, RowsFinite
  <2> QED BY <2>1, <2>3, <2>6, <2>8 DEF Count
<1> QED BY <1>1, PagingInvariant, PTL

===============================================================================
