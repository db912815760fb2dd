--------------------------- MODULE SecureTransport ---------------------------
(***************************************************************************)
(* SecureTransportProfile (src/src/secure_transport.rs): the HTTP client   *)
(* that every service client shares, rebuilt from credential sources that  *)
(* somebody else rotates.                                                  *)
(*                                                                         *)
(* A reload reads its sources one after the other, outside the lock; then  *)
(* it takes the write lock and replaces the client.  Any number of threads *)
(* may be inside reload, and requests keep the client they started with.   *)
(***************************************************************************)
EXTENDS Naturals, Sequences, FiniteSets

CONSTANTS
    ReadOrder,      \* the sources in the order build_client reads them
    Parsed,         \* those whose content is parsed, so that a torn one fails
    Reloads,        \* threads that call reload, again and again
    Clients,        \* service clients that send requests
    MaxGeneration   \* bound: rotations of each source

Sources == {ReadOrder[i] : i \in 1..Len(ReadOrder)}

ASSUME SourcesAssumption ==
    /\ ReadOrder \in Seq(Sources)
    /\ Parsed \subseteq Sources
    /\ MaxGeneration \in Nat \ {0}

(***************************************************************************)
(* What a source holds: the generation that was written last, and how far  *)
(* that write has come.  "empty" also stands for a file that cannot be     *)
(* read, and for a callback that returns an error or a blank token.        *)
(***************************************************************************)
Contents == [generation : 1..MaxGeneration, state : {"whole", "torn", "empty"}]
Whole(g) == [generation |-> g, state |-> "whole"]

VARIABLES
    source,     \* the files, as the rotation leaves them
    current,    \* the published snapshot: what each source was read as
    phase,      \* of each reload: "idle", "reading", "built"
    position,   \* how many sources a reload has read
    loaded,     \* what it has read
    floor,      \* history: the generations in place when the reload began
    promised,   \* history: the newest generations a reload has returned Ok for
    inFlight,   \* of each client: TRUE between send and answer
    used        \* the snapshot of a client's latest request

files == <<source>>
reloading == <<phase, position, loaded, floor>>
requests == <<inFlight, used>>
vars == <<source, current, phase, position, loaded, floor, promised, inFlight, used>>

Generations(snapshot) == [s \in Sources |-> snapshot[s].generation]
AtLeast(snapshot, generations) ==
    \A s \in Sources : snapshot[s].generation >= generations[s]

\* new: the first snapshot is built, and validated, like every later one.
Init ==
    /\ source = [s \in Sources |-> Whole(1)]
    /\ current = source
    /\ phase = [r \in Reloads |-> "idle"]
    /\ position = [r \in Reloads |-> 0]
    /\ loaded = [r \in Reloads |-> source]
    /\ floor = [r \in Reloads |-> Generations(source)]
    /\ promised = Generations(source)
    /\ inFlight = [c \in Clients |-> FALSE]
    /\ used = [c \in Clients |-> current]

-----------------------------------------------------------------------------
(* The rotation, outside this program and in no agreed order: a source is      *)
(* replaced by a rename, or truncated and rewritten in place.                  *)

ReplaceSource(s) ==
    /\ source[s].state = "whole"
    /\ source[s].generation < MaxGeneration
    /\ source' = [source EXCEPT ![s] = Whole(@.generation + 1)]
    /\ UNCHANGED <<current, reloading, promised, requests>>

TruncateSource(s) ==
    /\ source[s].state = "whole"
    /\ source[s].generation < MaxGeneration
    /\ source' = [source EXCEPT ![s] =
                    [generation |-> @.generation + 1, state |-> "empty"]]
    /\ UNCHANGED <<current, reloading, promised, requests>>

WriteSource(s) ==
    /\ \/ source[s].state = "empty" /\ source' = [source EXCEPT ![s].state = "torn"]
       \/ source[s].state = "torn" /\ source' = [source EXCEPT ![s].state = "whole"]
    /\ UNCHANGED <<current, reloading, promised, requests>>

-----------------------------------------------------------------------------
(* reload *)

\* Faulty variant: read_nonempty without its check for an empty file.
Refused_OnlyParsed(s, content) == content.state # "whole" /\ s \in Parsed

\* read_nonempty, from_pem and load_token: what makes build_client fail.
Refused(s, content) ==
    \/ content.state = "empty"
    \/ content.state = "torn" /\ s \in Parsed

\* Faulty variant: a reload marks itself as running, and returns early from a
\* failed build without clearing the mark.
StartReload_MarkLeft(r) ==
    /\ phase[r] = "idle"
    /\ position[r] \in {0, Len(ReadOrder)}
    /\ phase' = [phase EXCEPT ![r] = "reading"]
    /\ position' = [position EXCEPT ![r] = 0]
    /\ floor' = [floor EXCEPT ![r] = Generations(source)]
    /\ UNCHANGED <<files, current, loaded, promised, requests>>

StartReload(r) ==
    /\ phase[r] = "idle"
    /\ phase' = [phase EXCEPT ![r] = "reading"]
    /\ position' = [position EXCEPT ![r] = 0]
    /\ floor' = [floor EXCEPT ![r] = Generations(source)]
    /\ UNCHANGED <<files, current, loaded, promised, requests>>

NextSource(r) == ReadOrder[position[r] + 1]

\* Faulty variant: the token is acquired once and kept.
Read_KeepsToken(s) == IF s \in Parsed THEN source[s] ELSE current[s]

\* What a read returns.
Read(s) == source[s]

\* One read of one source.  The code parses the PEM sources after it has read
\* all of them: the outcome of the reload is the same.
ReadSource(r) ==
    /\ phase[r] = "reading"
    /\ position[r] < Len(ReadOrder)
    /\ ~Refused(NextSource(r), Read(NextSource(r)))
    /\ loaded' = [loaded EXCEPT ![r][NextSource(r)] = Read(NextSource(r))]
    /\ position' = [position EXCEPT ![r] = @ + 1]
    /\ UNCHANGED <<files, current, phase, floor, promised, requests>>

\* build_client returns an error: nothing is published.
ReloadFails(r) ==
    /\ phase[r] = "reading"
    /\ position[r] < Len(ReadOrder)
    /\ Refused(NextSource(r), Read(NextSource(r)))
    /\ phase' = [phase EXCEPT ![r] = "idle"]
    /\ UNCHANGED <<files, current, position, loaded, floor, promised, requests>>

\* Faulty variant: the client counts as one more source.
BuildClient_Counted(r) ==
    /\ phase[r] = "reading"
    /\ position[r] = Len(ReadOrder)
    /\ phase' = [phase EXCEPT ![r] = "built"]
    /\ position' = [position EXCEPT ![r] = @ + 1]
    /\ UNCHANGED <<files, current, loaded, floor, promised, requests>>

\* The rest of build_client: no source is read any more.
BuildClient(r) ==
    /\ phase[r] = "reading"
    /\ position[r] = Len(ReadOrder)
    /\ phase' = [phase EXCEPT ![r] = "built"]
    /\ UNCHANGED <<files, current, position, loaded, floor, promised, requests>>

\* The write lock, the assignment and Ok(()).
Publish(r) ==
    /\ phase[r] = "built"
    /\ current' = loaded[r]
    /\ phase' = [phase EXCEPT ![r] = "idle"]
    /\ promised' = [s \in Sources |->
                      IF loaded[r][s].generation > promised[s]
                      THEN loaded[r][s].generation ELSE promised[s]]
    /\ UNCHANGED <<files, position, loaded, floor, requests>>

-----------------------------------------------------------------------------
(* Requests: each takes the client once, when it starts. *)

\* HttpProvider::client, under the read lock.
ClientFor(c) == current

Send(c) ==
    /\ ~inFlight[c]
    /\ inFlight' = [inFlight EXCEPT ![c] = TRUE]
    /\ used' = [used EXCEPT ![c] = ClientFor(c)]
    /\ UNCHANGED <<files, current, reloading, promised>>

Answer(c) ==
    /\ inFlight[c]
    /\ inFlight' = [inFlight EXCEPT ![c] = FALSE]
    /\ UNCHANGED <<files, current, reloading, promised, used>>

-----------------------------------------------------------------------------
Rotation == \E s \in Sources : ReplaceSource(s) \/ TruncateSource(s) \/ WriteSource(s)

ReloadStep(r) ==
    \/ StartReload(r) \/ ReadSource(r) \/ ReloadFails(r)
    \/ BuildClient(r) \/ Publish(r)

RequestStep(c) == Send(c) \/ Answer(c)

Next ==
    \/ Rotation
    \/ \E r \in Reloads : ReloadStep(r)
    \/ \E c \in Clients : RequestStep(c)

Spec == Init /\ [][Next]_vars

-----------------------------------------------------------------------------
(* Properties *)

Snapshots == [Sources -> Contents]

\* Every variable stays within its range.
TypeOK ==
    /\ source \in Snapshots
    /\ current \in Snapshots
    /\ phase \in [Reloads -> {"idle", "reading", "built"}]
    /\ position \in [Reloads -> 0..Len(ReadOrder)]
    /\ loaded \in [Reloads -> Snapshots]
    /\ floor \in [Reloads -> [Sources -> 1..MaxGeneration]]
    /\ promised \in [Sources -> 1..MaxGeneration]
    /\ inFlight \in [Clients -> BOOLEAN]
    /\ used \in [Clients -> Snapshots]

\* A snapshot that is ready to be published holds, for every source, something
\* the source held between the start of that reload and now: nothing is carried
\* over from the snapshot before it ("a complete replacement", line 99),
\* whichever sources were rotated while it was read.
SnapshotFromItsWindow ==
    \A r \in Reloads : phase[r] = "built" =>
        /\ AtLeast(loaded[r], floor[r])
        /\ AtLeast(source, Generations(loaded[r]))

\* No request is ever sent with an empty source, or with half of a PEM file,
\* although sources are truncated and rewritten under running reloads: a failed
\* reload leaves the working snapshot in place (lines 71-72, 191-202).
RequestsUseValidatedSources ==
    \A c \in Clients, s \in Sources :
        used[c][s].state = "whole" \/ (used[c][s].state = "torn" /\ s \notin Parsed)

\* Once a reload has returned Ok, later requests receive what it loaded, or
\* something newer (lines 72-74: "later requests receive the new certificate,
\* key, CA, token ... snapshot together").
LaterRequestsReceiveTheNew ==
    [][\A c \in Clients : Send(c) => AtLeast(used'[c], promised)]_vars

=============================================================================
