---------------------------- MODULE LedgerPaging ----------------------------
(***************************************************************************)
(* Paging through the audit trail of several agents with the cursors of    *)
(* LedgerClient (src/src/ledger.rs:1086-1240), while the ledger grows.     *)
(*                                                                         *)
(* A page is put together as the doc of audit_agent_paged_after describes  *)
(* it: one slice per agent, fetched one after the other, merged, and cut   *)
(* to the size of a page.  Rows are their sequence numbers; the order of a *)
(* page is that of its rows.                                               *)
(*                                                                         *)
(* A reader may instead walk the trail of one agent by offset, in as many  *)
(* pages as the count of its rows makes; then the rows move under it.      *)
(***************************************************************************)
EXTENDS Naturals, Sequences, FiniteSetsExt

CONSTANTS
    Agents,
    PageSize,
    MaxRows,    \* bound: rows in the ledger
    None

ASSUME PagingAssumption ==
    /\ IsFiniteSet(Agents)
    /\ PageSize \in Nat \ {0}
    /\ MaxRows \in Nat

VARIABLES
    ledger,     \* for every row: its agent, and whether the filter keeps it
    start,      \* how long the ledger was when the walk began
    page,       \* the rows on display
    turn,       \* the page being fetched: "none", "first", "older", "newer"
    cursor,     \* the row it starts from
    slices,     \* the slices fetched for it, None where one is missing
    walk        \* a walk by offset, or None
cursors == <<start, page, turn, cursor, slices>>
vars == <<ledger, cursors, walk>>

\* The rows of one agent that AuditFilterParams keeps.
Rows(a) == {r \in 1..Len(ledger) : ledger[r].agent = a /\ ledger[r].kept}
AllRows == UNION {Rows(a) : a \in Agents}

Newest(S, n) == {r \in S : Cardinality({q \in S : q > r}) < n}
Oldest(S, n) == {r \in S : Cardinality({q \in S : q < r}) < n}

\* The offset is sent as the number of the page.
OffsetSlice_PageNumber(a, offset) ==
    LET skipped == Newest(Rows(a), offset \div PageSize)
    IN  Newest(Rows(a) \ skipped, PageSize)

\* limit=N&offset=M: the newest rows after the M newest.
OffsetSlice(a, offset) == Newest(Rows(a) \ Newest(Rows(a), offset), PageSize)

\* audit_agent_count_filtered.
Count(a) == Cardinality(Rows(a))

OlderSlice_LimitFirst(a) ==
    Rows(a) \cap Newest({r \in 1..Len(ledger) : r < cursor /\ ledger[r].agent = a}, PageSize)

\* limit=N&before=S: the newest rows strictly older than S.
OlderSlice(a) == Newest({r \in Rows(a) : r < cursor}, PageSize)

NewerSlice_Newest(a) == Newest({r \in Rows(a) : r > cursor}, PageSize)

\* limit=N&after=S: the oldest rows strictly newer than S.
NewerSlice(a) == Oldest({r \in Rows(a) : r > cursor}, PageSize)

Merged == UNION {slices[a] : a \in Agents}

NoSlices == [a \in Agents |-> None]

-----------------------------------------------------------------------------
Init ==
    /\ ledger = <<>>
    /\ start = 0
    /\ page = {}
    /\ turn = "none"
    /\ cursor = 0
    /\ slices = NoSlices
    /\ walk = None

\* The ledger is appended to at any time.
Append_(row) ==
    /\ Len(ledger) < MaxRows
    /\ ledger' = Append(ledger, row)
    /\ UNCHANGED <<cursors, walk>>

Turn(t, c) ==
    /\ turn = "none"
    /\ walk = None
    /\ turn' = t /\ cursor' = c
    /\ UNCHANGED <<ledger, slices, walk>>

\* A walk begins with the newest rows.
TurnFirst ==
    /\ Turn("first", 0)
    /\ start' = Len(ledger)
    /\ page' = {}

TurnOlder == page # {} /\ Turn("older", Min(page)) /\ UNCHANGED <<start, page>>

TurnNewer == page # {} /\ Turn("newer", Max(page)) /\ UNCHANGED <<start, page>>

\* One of the calls for the page returns.
Fetch(a) ==
    /\ turn # "none"
    /\ slices[a] = None
    /\ slices' = [slices EXCEPT ![a] =
          IF turn = "first" THEN OffsetSlice(a, 0)
          ELSE IF turn = "older" THEN OlderSlice(a)
          ELSE NewerSlice(a)]
    /\ UNCHANGED <<ledger, start, page, turn, cursor, walk>>

\* One of the calls fails, and the page stays as it is.
Fail ==
    /\ turn # "none"
    /\ \E a \in Agents : slices[a] = None
    /\ turn' = "none" /\ slices' = NoSlices
    /\ UNCHANGED <<ledger, start, page, cursor, walk>>

\* All slices are there: merge them, and keep the page nearest the cursor.
Show ==
    /\ turn # "none"
    /\ \A a \in Agents : slices[a] # None
    /\ page' = IF turn = "newer" THEN Oldest(Merged, PageSize)
               ELSE Newest(Merged, PageSize)
    /\ turn' = "none" /\ slices' = NoSlices
    /\ UNCHANGED <<ledger, start, cursor, walk>>

\* A walk by offset begins with the count, which fixes its pages.
BeginWalk(a) ==
    /\ walk = None /\ turn = "none" /\ page = {}
    /\ walk' = [agent |-> a, total |-> Count(a), there |-> Rows(a), offset |-> 0, got |-> {}]
    /\ UNCHANGED <<ledger, cursors>>

NextPage ==
    /\ walk # None
    /\ walk.offset < walk.total
    /\ walk' = [walk EXCEPT !.offset = @ + PageSize,
                            !.got = @ \cup OffsetSlice(walk.agent, walk.offset)]
    /\ UNCHANGED <<ledger, cursors>>

EndWalk ==
    /\ walk # None
    /\ walk' = None
    /\ UNCHANGED <<ledger, cursors>>

Next ==
    \/ \E a \in Agents, k \in BOOLEAN : Append_([agent |-> a, kept |-> k])
    \/ TurnFirst \/ TurnOlder \/ TurnNewer \/ Fail \/ Show
    \/ NextPage \/ EndWalk
    \/ \E a \in Agents : Fetch(a) \/ BeginWalk(a)

Spec == Init /\ [][Next]_vars

-----------------------------------------------------------------------------
\* Every variable stays within its range.
TypeOK ==
    /\ ledger \in Seq([agent : Agents, kept : BOOLEAN])
    /\ start \in 0..Len(ledger)
    /\ page \subseteq 1..Len(ledger)
    /\ turn \in {"none", "first", "older", "newer"}
    /\ cursor \in 0..Len(ledger)
    /\ \A a \in Agents : slices[a] = None \/ slices[a] \subseteq 1..Len(ledger)
    /\ walk # None => walk.got \cup walk.there \subseteq 1..Len(ledger)

\* The step that shows the page for a turn.
Shows(t) == turn = t /\ turn' = "none" /\ \A a \in Agents : slices[a] # None

(* ledger.rs:1108-1111, "stable across page navigation": turning the page  *)
(* never jumps over a row that was there when the walk began, although the *)
(* slices of the agents are fetched one by one while the ledger grows.     *)
TurnsSkipNothing ==
    [][page' # {} =>
         \A r \in AllRows \cap (1..start) :
            /\ Shows("first") /\ r >= Min(page') => r \in page'
            /\ Shows("older") /\ Min(page') <= r /\ r < cursor => r \in page'
            /\ Shows("newer") /\ cursor < r /\ r <= Max(page') => r \in page']_vars

(* A page that is not full is the last one in its direction, of the rows   *)
(* that were there when the walk began: a reader may stop there.           *)
ShortPageIsTheLast ==
    [][Cardinality(page') < PageSize =>
         \A r \in AllRows \cap (1..start) :
            /\ Shows("first") => r \in page'
            /\ Shows("older") /\ r < cursor => r \in page'
            /\ Shows("newer") /\ r > cursor => r \in page']_vars

(* A walk by offset shows rows twice when the ledger grows, and may end    *)
(* before the oldest rows; it leaves no gap, and what it misses are no     *)
(* more rows than were appended to the trail since they were counted.      *)
OffsetWalksMissOnlyWhatMoved ==
    walk # None =>
        /\ \A r \in walk.there : \A q \in walk.got : q < r => r \in walk.got
        /\ walk.offset >= walk.total =>
              Cardinality(walk.there \ walk.got) <= Count(walk.agent) - walk.total
=============================================================================
