--------------------------- MODULE PolicyVersions ---------------------------
(***************************************************************************)
(* The write API of PoliciesClient (src/src/policies.rs) for one policy    *)
(* and several editors.  An editor reads the policy with its body, edits   *)
(* that body, sends it, gives up on an answer that does not come and may   *)
(* send the same request again; every copy may arrive at any later time.   *)
(*                                                                         *)
(* What an editor has on its screen (view) is kept apart from the token of *)
(* its requests.  A body is the set of edits that went into it, so an edit *)
(* that is overwritten by someone who had not seen it is visibly gone.     *)
(*                                                                         *)
(* The policy engine is external.  It is modelled as the client's docs     *)
(* describe it: bodies are kept in an append-only history; a token that is *)
(* not the current version is a conflict, answered with the current row;   *)
(* creating what exists is a conflict in plain text; deletion is soft.     *)
(* Whether a state change makes a new version is not said, so it may or    *)
(* may not.                                                                *)
(***************************************************************************)
EXTENDS Naturals, Sequences, FiniteSets

CONSTANTS
    Editors,
    Offered,        \* the operations that the editors use
    MaxRequests,    \* bound: requests an editor composes
    MaxTries,       \* bound: times it sends one of them
    None

Creating == {"create", "install"}
StateChanges == {"activate", "deactivate", "delete"}
Sweeps == {"activate_category", "deactivate_category"}
Operations == Creating \cup StateChanges \cup Sweeps \cup {"update", "rollback"}

\* The operations that give the policy another body, as a new version.
Writing == Creating \cup {"update", "rollback"}

ASSUME EditorAssumption ==
    /\ MaxRequests \in Nat /\ MaxTries \in Nat \ {0}
    /\ Offered \subseteq Operations

CarriesToken_NoUpdate(op) == op \in StateChanges

\* The request bodies that have expected_current_version.
CarriesToken(op) == op \in StateChanges \cup {"update"}

\* The n-th request of an editor, if it writes, makes the edit <<e, n>>.
Edits == Editors \X (1..MaxRequests)
Bodies == SUBSET Edits

VARIABLES
    history,    \* policy_versions: body, and the operation that wrote it
    deleted,    \* deleted_at
    view,       \* of each editor: the version and body on its screen
    asked,      \* the requests it has composed, in order
    tries,      \* how often it has sent the last one; 0 if it awaits nothing
    answer,     \* the answer to its last try, None until it comes
    network,    \* copies of requests on their way; a lost one stays there
    applied     \* of each editor and request: how often it took effect
engine == <<history, deleted>>
editors == <<view, asked, tries>>
vars == <<history, deleted, view, asked, tries, answer, network, applied>>

\* current_version of the policy, 0 while there is none.
version == Len(history)
NoView == [version |-> 0, body |-> {}]

Init ==
    /\ history = <<>> /\ deleted = FALSE
    /\ view = [e \in Editors |-> NoView]
    /\ asked = [e \in Editors |-> <<>>]
    /\ tries = [e \in Editors |-> 0]
    /\ answer = [e \in Editors |-> None]
    /\ network = {}
    /\ applied = [e \in Editors |-> [n \in 1..MaxRequests |-> 0]]

-----------------------------------------------------------------------------
(* The editors.                                                            *)

\* Bound: an editor that has composed all its requests does no more.
HasRequests(e) == Len(asked[e]) < MaxRequests

Last(e) == asked[e][Len(asked[e])]

\* get, or list_versions and get_version: the row comes with its body.
Read(e) ==
    /\ tries[e] = 0 /\ HasRequests(e)
    /\ version > 0 /\ view[e].version # version
    /\ view' = [view EXCEPT ![e] = [version |-> version, body |-> history[version].body]]
    /\ UNCHANGED <<engine, asked, tries, answer, network, applied>>

\* The body that the policy is to have by the editor's wish: its edit of
\* what it sees, a version it could list, or what it sees; a sweep is about
\* no body.
Drafts(e, op) ==
    IF op \in Creating \cup {"update"} THEN {view[e].body \cup {<<e, Len(asked[e]) + 1>>}}
    ELSE IF op = "rollback" THEN {history[v].body : v \in 1..view[e].version}
    ELSE IF op \in StateChanges THEN {view[e].body}
    ELSE {{}}

\* Send one more copy of e's last request.
Post(e) ==
    /\ answer' = [answer EXCEPT ![e] = None]
    /\ network' = network \cup {[editor |-> e, n |-> Len(asked'[e]), try |-> tries'[e]]}
    /\ UNCHANGED <<engine, view, applied>>

\* An editor that sees a policy may change it, one that does not may create it.
Compose(e, op) ==
    /\ tries[e] = 0 /\ HasRequests(e)
    /\ (op \in Creating) <=> (view[e] = NoView)
    /\ \E draft \in Drafts(e, op) :
          asked' = [asked EXCEPT ![e] =
                      Append(@, [op |-> op, seen |-> view[e].version, draft |-> draft])]
    /\ tries' = [tries EXCEPT ![e] = 1]
    /\ Post(e)

\* The transport has failed or timed out; the caller still has its request.
Retry(e) ==
    /\ tries[e] \in 1..(MaxTries - 1)
    /\ tries' = [tries EXCEPT ![e] = @ + 1]
    /\ UNCHANGED asked
    /\ Post(e)

Finish(e) ==
    /\ tries' = [tries EXCEPT ![e] = 0]
    /\ answer' = [answer EXCEPT ![e] = None]
    /\ UNCHANGED <<engine, asked, network, applied>>

GiveUp(e) ==
    /\ tries[e] > 0
    /\ Finish(e)
    /\ UNCHANGED view

\* A MutationResponse names the version that is now current; the editor has
\* its body.  A sweep answers for many rows and says nothing of bodies.
ReceiveSuccess(e) ==
    /\ answer[e] # None /\ answer[e].kind = "done"
    /\ view' = [view EXCEPT ![e] =
                  IF Last(e).op \in Sweeps THEN NoView
                  ELSE [version |-> answer[e].version, body |-> Last(e).draft]]
    /\ Finish(e)

\* A bug: the row's version is put under the body that is on the screen.
ReceiveConflict_KeepBody(e) ==
    /\ answer[e] # None /\ answer[e].kind = "conflict"
    /\ view' = [view EXCEPT ![e] = [version |-> answer[e].version, body |-> @.body]]
    /\ Finish(e)

\* parse_conflict gives the current row, which has no body (PolicyRow): the
\* editor has to read the policy again.
ReceiveConflict(e) ==
    /\ answer[e] # None /\ answer[e].kind = "conflict"
    /\ view' = [view EXCEPT ![e] = NoView]
    /\ Finish(e)

\* Any other refusal has no row in it; parse_conflict returns None.
ReceiveRefusal(e) ==
    /\ answer[e] # None /\ answer[e].kind = "refused"
    /\ Finish(e)
    /\ UNCHANGED view

-----------------------------------------------------------------------------
(* The engine.                                                             *)

Asked(m) == asked[m.editor][m.n]

\* The answer reaches the editor only if it still waits for this very try.
Reply(m, kind, v) ==
    /\ network' = network \ {m}
    /\ answer' = IF Len(asked[m.editor]) = m.n /\ tries[m.editor] = m.try
                 THEN [answer EXCEPT ![m.editor] = [kind |-> kind, version |-> v]]
                 ELSE answer

\* The version seen is sent as expected_current_version by some operations.
Stale(r) == CarriesToken(r.op) /\ r.seen # version

Missing(r) == IF r.op \in Creating THEN version # 0 ELSE version = 0 \/ deleted

Refuse(m) ==
    /\ m \in network
    /\ Missing(Asked(m))
    /\ Reply(m, "refused", 0)
    /\ UNCHANGED <<engine, editors, applied>>

Conflict(m) ==
    /\ m \in network
    /\ ~Missing(Asked(m)) /\ Stale(Asked(m))
    /\ Reply(m, "conflict", version)
    /\ UNCHANGED <<engine, editors, applied>>

\* The version that request r writes.
NewVersion(r) ==
    [op |-> r.op, body |-> IF r.op \in Writing THEN r.draft ELSE history[version].body]

Apply(m) ==
    /\ m \in network
    /\ ~Missing(Asked(m)) /\ ~Stale(Asked(m))
    /\ \/ history' = Append(history, NewVersion(Asked(m)))
       \/ Asked(m).op \notin Writing /\ UNCHANGED history
    /\ deleted' = (Asked(m).op = "delete")
    /\ applied' = [applied EXCEPT ![m.editor][m.n] = @ + 1]
    /\ Reply(m, "done", Len(history'))
    /\ UNCHANGED editors

Next ==
    \/ \E e \in Editors :
          \/ Read(e) \/ Retry(e) \/ GiveUp(e)
          \/ \E op \in Offered : Compose(e, op)
          \/ ReceiveSuccess(e) \/ ReceiveConflict(e) \/ ReceiveRefusal(e)
    \/ \E m \in network : Refuse(m) \/ Conflict(m) \/ Apply(m)

Spec == Init /\ [][Next]_vars

-----------------------------------------------------------------------------
\* Type correctness of the policy, its editors and their requests.
Requests == [op : Operations, seen : Nat, draft : Bodies]
TypeOK ==
    /\ history \in Seq([op : Operations, body : Bodies]) /\ deleted \in BOOLEAN
    /\ view \in [Editors -> [version : Nat, body : Bodies]]
    /\ asked \in [Editors -> Seq(Requests)]
    /\ \A e \in Editors : Len(asked[e]) <= MaxRequests
    /\ tries \in [Editors -> 0..MaxTries]
    /\ answer \in [Editors -> [kind : {"done", "conflict", "refused"}, version : Nat] \cup {None}]
    /\ network \subseteq [editor : Editors, n : 1..MaxRequests, try : 1..MaxTries]
    /\ applied \in [Editors -> [1..MaxRequests -> Nat]]

(* No edit is lost to an update: the body that an update writes contains   *)
(* everything that was in the version it replaces.  Its editor keeps what  *)
(* it sees (Drafts), so this is about the tokens: whatever answers,        *)
(* conflicts and late copies have come between, the version an update      *)
(* names must be that of the very body it was made from.                   *)
UpdatesKeepWhatTheyReplace ==
    \A v \in 2..version :
        history[v].op = "update" => history[v - 1].body \subseteq history[v].body

OnceOnly == {"create", "install", "update", "delete"}

(* A create, install, update or delete that is sent again after a lost     *)
(* answer takes effect at most once, also when its editor has given it up  *)
(* and gone on to another.                                                 *)
RetriedEditsApplyOnce ==
    \A e \in Editors : \A n \in DOMAIN asked[e] :
        asked[e][n].op \in OnceOnly => applied[e][n] <= 1
=============================================================================
