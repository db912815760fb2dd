------------------------ MODULE SecureTransportProofs ------------------------
(***************************************************************************)
(* Theorems about SecureTransport, for any sources in any reading order,   *)
(* any number of reloads and clients, and rotations of either kind; and    *)
(* about a process that installs and shares it (ProcessTransport).         *)
(***************************************************************************)
EXTENDS ProcessTransport, TLAPS

-----------------------------------------------------------------------------
(* The inductive invariant *)

Validated(snapshot) == \A s \in Sources : ~Refused(s, snapshot[s])

\* What a running reload knows of the source it read i-th.
ReadWithinWindow(r, i) ==
    LET s == ReadOrder[i] IN
    /\ loaded[r][s].generation >= floor[r][s]
    /\ source[s].generation >= loaded[r][s].generation
    /\ ~Refused(s, loaded[r][s])

ReadingInv ==
    \A r \in Reloads : phase[r] # "idle" =>
        /\ AtLeast(source, floor[r])
        /\ \A i \in 1..position[r] : ReadWithinWindow(r, i)

BuiltInv == \A r \in Reloads : phase[r] = "built" => position[r] = Len(ReadOrder)

PublishedInv ==
    /\ Validated(current)
    /\ AtLeast(source, Generations(current))
    /\ \A c \in Clients : Validated(used[c])

TransportInv == TypeOK /\ ReadingInv /\ BuiltInv /\ PublishedInv

\* Every source is read at some position.
LEMMA SourceIsRead ==
    ASSUME NEW s \in Sources
    PROVE  \E i \in 1..Len(ReadOrder) : s = ReadOrder[i]
  BY DEF Sources

LEMMA ReadOrderType ==
    /\ Len(ReadOrder) \in Nat
    /\ \A i \in 1..Len(ReadOrder) : ReadOrder[i] \in Sources
  BY SourcesAssumption DEF Sources

\* A reload that has read everything holds a validated snapshot of its window.
LEMMA BuiltSnapshot ==
    ASSUME TransportInv, NEW r \in Reloads, phase[r] = "built"
    PROVE  /\ AtLeast(loaded[r], floor[r])
           /\ AtLeast(source, Generations(loaded[r]))
           /\ Validated(loaded[r])
<1>1. \A i \in 1..Len(ReadOrder) : ReadWithinWindow(r, i)
  BY DEF TransportInv, ReadingInv, BuiltInv
<1>2. ASSUME NEW s \in Sources
      PROVE  /\ loaded[r][s].generation >= floor[r][s]
             /\ source[s].generation >= loaded[r][s].generation
             /\ ~Refused(s, loaded[r][s])
  BY <1>1, SourceIsRead DEF ReadWithinWindow
<1> QED
  BY <1>2 DEF AtLeast, Generations, Validated

-----------------------------------------------------------------------------
(* Type correctness *)

LEMMA InitType == Init => TypeOK
<1>1. 1 \in 1..MaxGeneration /\ Whole(1) \in Contents
  BY SourcesAssumption DEF Contents, Whole
<1>2. 0 \in 0..Len(ReadOrder)
  BY ReadOrderType
<1> QED
  BY <1>1, <1>2 DEF Init, TypeOK, Snapshots, Generations, Whole

LEMMA NextType ==
    ASSUME TypeOK, [Next]_vars
    PROVE  TypeOK'
<1> USE DEF TypeOK, Snapshots
<1>0. /\ \A s \in Sources : source[s] \in Contents
      /\ \A s \in Sources : source[s].generation \in 1..MaxGeneration
      /\ Generations(source) \in [Sources -> 1..MaxGeneration]
  BY DEF Contents, Generations
<1>1. ASSUME NEW s \in Sources, ReplaceSource(s)
      PROVE  TypeOK'
  <2>1. Whole(source[s].generation + 1) \in Contents
    BY <1>0, <1>1, SourcesAssumption DEF ReplaceSource, Contents, Whole
  <2> QED
    BY <1>1, <2>1 DEF ReplaceSource, reloading, requests
<1>2. ASSUME NEW s \in Sources, TruncateSource(s)
      PROVE  TypeOK'
  <2>1. [generation |-> source[s].generation + 1, state |-> "empty"] \in Contents
    BY <1>0, <1>2, SourcesAssumption DEF TruncateSource, Contents
  <2> QED
    BY <1>2, <2>1 DEF TruncateSource, reloading, requests
<1>3. ASSUME NEW s \in Sources, WriteSource(s)
      PROVE  TypeOK'
  <2>1. PICK written \in {"torn", "whole"} :
          source' = [source EXCEPT ![s].state = written]
    BY <1>3 DEF WriteSource
  <2>2. [source[s] EXCEPT !.state = written] \in Contents
    BY <1>0 DEF Contents
  <2>3. source' \in [Sources -> Contents]
    BY <2>1, <2>2
  <2> QED
    BY <1>3, <2>3 DEF WriteSource, reloading, requests
<1>4. ASSUME NEW r \in Reloads, StartReload(r)
      PROVE  TypeOK'
  BY <1>0, <1>4, ReadOrderType DEF StartReload, files, requests
<1>5. ASSUME NEW r \in Reloads, ReadSource(r)
      PROVE  TypeOK'
  <2>1. NextSource(r) \in Sources
    BY <1>5, ReadOrderType DEF ReadSource, NextSource
  <2>2. loaded' \in [Reloads -> [Sources -> Contents]]
    BY <1>0, <1>5, <2>1 DEF ReadSource, Read
  <2>3. position' \in [Reloads -> 0..Len(ReadOrder)]
    BY <1>5, ReadOrderType DEF ReadSource
  <2> QED
    BY <1>5, <2>2, <2>3 DEF ReadSource, files, requests
<1>6. ASSUME NEW r \in Reloads, ReloadFails(r) \/ BuildClient(r)
      PROVE  TypeOK'
  BY <1>6 DEF ReloadFails, BuildClient, files, requests
<1>7. ASSUME NEW r \in Reloads, Publish(r)
      PROVE  TypeOK'
  <2>1. \A s \in Sources : loaded[r][s].generation \in 1..MaxGeneration
    BY DEF Contents
  <2>2. promised' \in [Sources -> 1..MaxGeneration]
    BY <1>7, <2>1 DEF Publish
  <2> QED
    BY <1>7, <2>2 DEF Publish, files, requests
<1>8. ASSUME NEW c \in Clients, Send(c) \/ Answer(c)
      PROVE  TypeOK'
  BY <1>8 DEF Send, Answer, ClientFor, files, reloading
<1>9. CASE UNCHANGED vars
  BY <1>9 DEF vars
<1> QED
  BY <1>1, <1>2, <1>3, <1>4, <1>5, <1>6, <1>7, <1>8, <1>9
     DEF Next, Rotation, ReloadStep, RequestStep

-----------------------------------------------------------------------------
(* The invariant is inductive *)

\* Generations only grow, whoever takes the step.
LEMMA SourceGrows ==
    ASSUME TypeOK, [Next]_vars, NEW s \in Sources
    PROVE  source'[s].generation >= source[s].generation
<1>0. /\ source \in [Sources -> Contents]
      /\ \A x \in Sources : source[x] \in Contents /\ source[x].generation \in Nat
  BY DEF TypeOK, Snapshots, Contents
<1>1. ASSUME NEW x \in Sources, ReplaceSource(x)
      PROVE  source'[s].generation >= source[s].generation
  BY <1>0, <1>1 DEF ReplaceSource, Whole
<1>2. ASSUME NEW x \in Sources, TruncateSource(x)
      PROVE  source'[s].generation >= source[s].generation
  BY <1>0, <1>2 DEF TruncateSource
<1>3. ASSUME NEW x \in Sources, WriteSource(x)
      PROVE  source'[s].generation >= source[s].generation
  <2>1. PICK written \in {"torn", "whole"} :
          source' = [source EXCEPT ![x].state = written]
    BY <1>3 DEF WriteSource
  <2> QED
    BY <1>0, <2>1 DEF Contents
<1>4. CASE UNCHANGED source
  BY <1>0, <1>4
<1> QED
  BY <1>1, <1>2, <1>3, <1>4
     DEF Next, Rotation, ReloadStep, RequestStep, StartReload, ReadSource,
         ReloadFails, BuildClient, Publish, Send, Answer, files, vars

LEMMA InitTransport == Init => TransportInv
<1> SUFFICES ASSUME Init PROVE TransportInv
  OBVIOUS
<1>1. TypeOK
  BY InitType
<1>2. ReadingInv /\ BuiltInv
  BY DEF Init, ReadingInv, BuiltInv
<1>3. \A s \in Sources : ~Refused(s, source[s]) /\ source[s].generation = 1
  BY DEF Init, Whole, Refused
<1>4. PublishedInv
  BY <1>3 DEF Init, PublishedInv, Validated, AtLeast, Generations
<1> QED
  BY <1>1, <1>2, <1>4 DEF TransportInv

\* What is ordered before a step stays ordered when the sources grow.
LEMMA BelowSource ==
    ASSUME TypeOK, [Next]_vars, NEW s \in Sources, NEW g \in Nat,
           source[s].generation >= g
    PROVE  source'[s].generation >= g
<1>1. source'[s].generation \in Nat /\ source[s].generation \in Nat
  BY NextType DEF TypeOK, Snapshots, Contents
<1> QED
  BY <1>1, SourceGrows

LEMMA NextReading ==
    ASSUME TransportInv, [Next]_vars
    PROVE  ReadingInv' /\ BuiltInv'
<1> USE DEF TransportInv
<1> DEFINE Kept(q) ==
      /\ phase'[q] = phase[q] \/ phase'[q] \in {"idle", "built"}
      /\ phase[q] # "idle"
      /\ position'[q] = position[q]
      /\ loaded'[q] = loaded[q]
      /\ floor'[q] = floor[q]
<1>0. /\ \A q \in Reloads, s \in Sources :
            /\ floor[q][s] \in Nat
            /\ loaded[q][s].generation \in Nat
            /\ source[s].generation \in Nat
      /\ \A q \in Reloads : position[q] \in 0..Len(ReadOrder)
  BY DEF TypeOK, Snapshots, Contents
\* A reload that keeps what it has read keeps its window.
<1>1. ASSUME NEW q \in Reloads, phase[q] # "idle",
             loaded'[q] = loaded[q], floor'[q] = floor[q]
      PROVE  /\ AtLeast(source', floor'[q])
             /\ \A i \in 1..position[q] : ReadWithinWindow(q, i)'
  <2>1. AtLeast(source', floor'[q])
    BY <1>0, <1>1, BelowSource DEF ReadingInv, AtLeast
  <2>2. ASSUME NEW i \in 1..position[q]
        PROVE  ReadWithinWindow(q, i)'
    <3>1. i \in 1..Len(ReadOrder) /\ ReadOrder[i] \in Sources
      BY <1>0, ReadOrderType
    <3>2. ReadWithinWindow(q, i)
      BY <1>1 DEF ReadingInv
    <3>3. source'[ReadOrder[i]].generation >= loaded[q][ReadOrder[i]].generation
      BY <1>0, <3>1, <3>2, BelowSource DEF ReadWithinWindow
    <3> QED
      BY <1>1, <3>2, <3>3 DEF ReadWithinWindow
  <2> QED
    BY <2>1, <2>2
<1>2. CASE UNCHANGED <<phase, position, loaded, floor>>
  BY <1>1, <1>2 DEF ReadingInv, BuiltInv
<1>3. ASSUME NEW r \in Reloads, StartReload(r)
      PROVE  ReadingInv' /\ BuiltInv'
  <2>1. /\ phase' = [phase EXCEPT ![r] = "reading"]
        /\ position' = [position EXCEPT ![r] = 0]
        /\ floor' = [floor EXCEPT ![r] = Generations(source)]
        /\ UNCHANGED <<source, loaded>>
    BY <1>3 DEF StartReload, files
  <2>2. /\ phase'[r] = "reading" /\ position'[r] = 0
        /\ floor'[r] = Generations(source)
    BY <2>1 DEF TypeOK
  <2>3. AtLeast(source', floor'[r])
    BY <1>0, <2>1, <2>2 DEF AtLeast, Generations
  <2>4. \A q \in Reloads \ {r} :
          /\ phase'[q] = phase[q] /\ position'[q] = position[q]
          /\ floor'[q] = floor[q] /\ loaded'[q] = loaded[q]
    BY <2>1 DEF TypeOK
  <2>5. ASSUME NEW q \in Reloads, phase'[q] # "idle"
        PROVE  /\ AtLeast(source', floor'[q])
               /\ \A i \in 1..position'[q] : ReadWithinWindow(q, i)'
    <3>1. CASE q = r
      BY <3>1, <2>2, <2>3
    <3>2. CASE q # r
      BY <3>2, <2>4, <2>5, <1>1
    <3> QED
      BY <3>1, <3>2
  <2>6. BuiltInv'
    BY <2>2, <2>4 DEF BuiltInv
  <2> QED
    BY <2>5, <2>6 DEF ReadingInv
<1>4. ASSUME NEW r \in Reloads, ReadSource(r)
      PROVE  ReadingInv' /\ BuiltInv'
  <2> DEFINE n == position[r] + 1
             s == ReadOrder[n]
  <2>1. /\ phase[r] = "reading" /\ n \in 1..Len(ReadOrder) /\ s \in Sources
        /\ ~Refused(s, source[s])
        /\ loaded' = [loaded EXCEPT ![r][s] = source[s]]
        /\ position' = [position EXCEPT ![r] = n]
        /\ UNCHANGED <<source, phase, floor>>
    BY <1>0, <1>4, ReadOrderType DEF ReadSource, NextSource, Read, files
  <2> HIDE DEF s
  <2>2. \A q \in Reloads \ {r} :
          position'[q] = position[q] /\ loaded'[q] = loaded[q]
    BY <2>1 DEF TypeOK, Snapshots
  <2>3. /\ position'[r] = n /\ loaded'[r][s] = source[s]
        /\ \A x \in Sources \ {s} : loaded'[r][x] = loaded[r][x]
    BY <2>1 DEF TypeOK, Snapshots
  <2>4. AtLeast(source, floor[r]) /\ \A i \in 1..position[r] : ReadWithinWindow(r, i)
    BY <2>1 DEF ReadingInv
  <2>5. ASSUME NEW i \in 1..n
        PROVE  ReadWithinWindow(r, i)'
    <3>1. ReadOrder[i] \in Sources
      BY <2>1, ReadOrderType
    <3>2. CASE ReadOrder[i] = s
      BY <1>0, <2>1, <2>3, <2>4, <3>2 DEF ReadWithinWindow, AtLeast
    <3>3. CASE ReadOrder[i] # s
      <4>1. i \in 1..position[r]
        BY <1>0, <3>3 DEF s
      <4> QED
        BY <2>1, <2>3, <2>4, <3>1, <3>3, <4>1 DEF ReadWithinWindow
    <3> QED
      BY <3>2, <3>3
  <2>6. ASSUME NEW q \in Reloads, phase'[q] # "idle"
        PROVE  /\ AtLeast(source', floor'[q])
               /\ \A i \in 1..position'[q] : ReadWithinWindow(q, i)'
    <3>1. CASE q = r
      BY <3>1, <2>1, <2>3, <2>4, <2>5
    <3>2. CASE q # r
      BY <3>2, <2>1, <2>2, <2>6, <1>1
    <3> QED
      BY <3>1, <3>2
  <2>7. BuiltInv'
    BY <2>1, <2>2 DEF BuiltInv
  <2> QED
    BY <2>6, <2>7 DEF ReadingInv
<1>5. ASSUME NEW r \in Reloads, ReloadFails(r) \/ Publish(r)
      PROVE  ReadingInv' /\ BuiltInv'
  <2>1. /\ phase' = [phase EXCEPT ![r] = "idle"]
        /\ UNCHANGED <<position, loaded, floor>>
    BY <1>5 DEF ReloadFails, Publish
  <2>2. /\ phase'[r] = "idle"
        /\ \A q \in Reloads \ {r} : phase'[q] = phase[q]
    BY <2>1 DEF TypeOK
  <2> QED
    BY <1>1, <2>1, <2>2 DEF ReadingInv, BuiltInv
<1>6. ASSUME NEW r \in Reloads, BuildClient(r)
      PROVE  ReadingInv' /\ BuiltInv'
  <2>1. /\ phase[r] = "reading" /\ position[r] = Len(ReadOrder)
        /\ phase' = [phase EXCEPT ![r] = "built"]
        /\ UNCHANGED <<position, loaded, floor>>
    BY <1>6 DEF BuildClient
  <2>2. \A q \in Reloads \ {r} : phase'[q] = phase[q]
    BY <2>1 DEF TypeOK
  <2>3. ReadingInv'
    <3> SUFFICES ASSUME NEW q \in Reloads, phase'[q] # "idle"
                 PROVE  /\ AtLeast(source', floor'[q])
                        /\ \A i \in 1..position'[q] : ReadWithinWindow(q, i)'
      BY DEF ReadingInv
    <3>1. phase[q] # "idle"
      BY <2>1, <2>2
    <3> QED
      BY <1>1, <2>1, <3>1
  <2>4. BuiltInv'
    BY <2>1, <2>2 DEF BuiltInv
  <2> QED
    BY <2>3, <2>4
<1> QED
  BY <1>2, <1>3, <1>4, <1>5, <1>6
     DEF Next, Rotation, ReloadStep, RequestStep, ReplaceSource, TruncateSource,
         WriteSource, Send, Answer, reloading, vars

LEMMA NextPublished ==
    ASSUME TransportInv, [Next]_vars
    PROVE  PublishedInv'
<1> USE DEF TransportInv
<1>0. \A s \in Sources : current[s].generation \in Nat
  BY DEF TypeOK, Snapshots, Contents
<1>1. CASE UNCHANGED <<current, used>>
  <2>1. AtLeast(source, Generations(current))' 
    BY <1>0, <1>1, BelowSource DEF PublishedInv, AtLeast, Generations
  <2> QED
    BY <1>1, <2>1 DEF PublishedInv, Validated
<1>2. ASSUME NEW r \in Reloads, Publish(r)
      PROVE  PublishedInv'
  <2>1. /\ phase[r] = "built" /\ current' = loaded[r]
        /\ UNCHANGED <<source, used>>
    BY <1>2 DEF Publish, files, requests
  <2>2. AtLeast(source, Generations(loaded[r])) /\ Validated(loaded[r])
    BY <2>1, BuiltSnapshot
  <2> QED
    BY <2>1, <2>2 DEF PublishedInv, Validated, AtLeast, Generations
<1>3. ASSUME NEW c \in Clients, Send(c)
      PROVE  PublishedInv'
  <2>1. used' = [used EXCEPT ![c] = current] /\ UNCHANGED <<source, current>>
    BY <1>3 DEF Send, ClientFor, files
  <2>2. \A d \in Clients : used'[d] = used[d] \/ used'[d] = current
    BY <2>1 DEF TypeOK
  <2> QED
    BY <2>1, <2>2 DEF PublishedInv, Validated, AtLeast, Generations
<1> QED
  BY <1>1, <1>2, <1>3
     DEF Next, Rotation, ReloadStep, RequestStep, ReplaceSource, TruncateSource,
         WriteSource, StartReload, ReadSource, ReloadFails, BuildClient, Answer,
         requests, vars

LEMMA TransportInvariant == Spec => []TransportInv
<1>1. TransportInv /\ [Next]_vars => TransportInv'
  BY NextType, NextReading, NextPublished DEF TransportInv
<1> QED
  BY InitTransport, <1>1, PTL DEF Spec

-----------------------------------------------------------------------------
(* Theorems *)

\* Every variable keeps its type, whatever reloads, requests and the rotation
\* do (the state of SecureTransportProfile and of build_client's locals).
THEOREM TypeCorrect == Spec => []TypeOK
  BY TransportInvariant, PTL DEF TransportInv

\* What reload is about to publish was all read inside that reload: no source
\* is older than the reload's start or newer than the file (build_client reads
\* every source anew, lines 127-129 and 142).
THEOREM WindowTheorem == Spec => []SnapshotFromItsWindow
<1>1. TransportInv => SnapshotFromItsWindow
  BY BuiltSnapshot DEF SnapshotFromItsWindow
<1> QED
  BY <1>1, TransportInvariant, PTL

\* No request is sent with a source that build_client refuses, however the
\* files are rewritten under concurrent reloads (a failed reload returns before
\* the write lock, line 101).
THEOREM ValidatedTheorem == Spec => []RequestsUseValidatedSources
<1>1. TransportInv => RequestsUseValidatedSources
  BY DEF TransportInv, TypeOK, Snapshots, Contents, PublishedInv, Validated,
         Refused, RequestsUseValidatedSources
<1> QED
  BY <1>1, TransportInvariant, PTL

-----------------------------------------------------------------------------
(* With one reload at a time, an acknowledged rotation is never undone.  With *)
(* two this is false: see the run transport_overtaken.                        *)

OneAtATime == \A q, r \in Reloads : q = r

\* What was promised is published, and every running reload began after it.
PromisedInv ==
    /\ \A s \in Sources : current[s].generation >= promised[s]
    /\ \A r \in Reloads, s \in Sources :
          phase[r] # "idle" => floor[r][s] >= promised[s]

LEMMA NextPromised ==
    ASSUME OneAtATime, TransportInv, PromisedInv, [Next]_vars
    PROVE  PromisedInv'
<1> USE DEF TransportInv
<1>0. \A s \in Sources :
        /\ current[s].generation \in Nat /\ promised[s] \in Nat
        /\ source[s].generation \in Nat
        /\ \A r \in Reloads : floor[r][s] \in Nat /\ loaded[r][s].generation \in Nat
  BY DEF TypeOK, Snapshots, Contents
<1>1. CASE UNCHANGED <<current, promised, floor>> /\ \A r \in Reloads :
             phase'[r] # "idle" => phase[r] # "idle"
  BY <1>1 DEF PromisedInv
<1>2. ASSUME NEW r \in Reloads, StartReload(r)
      PROVE  PromisedInv'
  <2>1. /\ floor' = [floor EXCEPT ![r] = Generations(source)]
        /\ UNCHANGED <<current, promised>>
        /\ \A q \in Reloads : q = r
    BY <1>2 DEF StartReload, OneAtATime
  <2>2. \A s \in Sources : floor'[r][s] = source[s].generation
    BY <2>1 DEF TypeOK, Generations
  <2>3. \A s \in Sources : source[s].generation >= promised[s]
    BY <1>0 DEF PromisedInv, PublishedInv, AtLeast, Generations
  <2> QED
    BY <2>1, <2>2, <2>3 DEF PromisedInv
<1>3. ASSUME NEW r \in Reloads, Publish(r)
      PROVE  PromisedInv'
  <2>1. /\ phase[r] = "built" /\ current' = loaded[r] /\ phase' = [phase EXCEPT ![r] = "idle"]
        /\ \A q \in Reloads : q = r
    BY <1>3 DEF Publish, OneAtATime
  <2>2. \A s \in Sources : loaded[r][s].generation >= promised[s]
    BY <1>0, <2>1, BuiltSnapshot DEF PromisedInv, AtLeast
  <2>3. \A s \in Sources : promised'[s] <= loaded[r][s].generation
    BY <1>0, <1>3, <2>2 DEF Publish
  <2> QED
    BY <1>0, <2>1, <2>3 DEF PromisedInv, TypeOK
<1>4. ASSUME NEW r \in Reloads, ReadSource(r) \/ ReloadFails(r) \/ BuildClient(r)
      PROVE  PromisedInv'
  <2>1. /\ UNCHANGED <<current, promised, floor>>
        /\ phase[r] # "idle" /\ \A q \in Reloads : q = r
    BY <1>4 DEF ReadSource, ReloadFails, BuildClient, OneAtATime
  <2> QED
    BY <1>1, <2>1
<1> QED
  BY <1>1, <1>2, <1>3, <1>4
     DEF Next, Rotation, ReloadStep, RequestStep, ReplaceSource, TruncateSource,
         WriteSource, Send, Answer, reloading, vars

\* After a reload has returned Ok, no later request is sent with older
\* credentials than that reload loaded, as long as reloads do not overlap
\* (lines 72-74; the assignment and Ok(()) at lines 106-107).
THEOREM PromiseTheorem ==
    ASSUME OneAtATime
    PROVE  Spec => LaterRequestsReceiveTheNew
<1>1. Init => PromisedInv
  <2>1. SUFFICES ASSUME Init PROVE PromisedInv
    OBVIOUS
  <2>2. \A s \in Sources : current[s].generation = 1 /\ promised[s] = 1
    BY <2>1 DEF Init, Generations, Whole
  <2> QED
    BY <2>1, <2>2 DEF Init, PromisedInv
<1>2. TransportInv /\ PromisedInv /\ [Next]_vars => PromisedInv'
  BY NextPromised
<1>3. TransportInv /\ PromisedInv /\ [Next]_vars =>
        [\A c \in Clients : Send(c) => AtLeast(used'[c], promised)]_vars
  <2> SUFFICES ASSUME TransportInv, PromisedInv, NEW c \in Clients, Send(c)
               PROVE  AtLeast(used'[c], promised)
    OBVIOUS
  <2>1. used'[c] = current
    BY DEF Send, ClientFor, TransportInv, TypeOK
  <2> QED
    BY <2>1 DEF PromisedInv, AtLeast
<1> QED
  BY <1>1, <1>2, <1>3, TransportInvariant, PTL DEF Spec, LaterRequestsReceiveTheNew

-----------------------------------------------------------------------------
(* The process around the profile: providers that are installed, taken by  *)
(* default or replaced, and requests that go past the profile.             *)

\* A request of a client that does not use the profile.
PastProfile ==
    /\ inFlight' \in [Clients -> BOOLEAN]
    /\ UNCHANGED <<source, current, phase, position, loaded, floor, promised, used>>

\* Whatever the process does, the profile takes a step of its own, or none, or
\* somebody's request goes past it.
LEMMA ProcessStep ==
    ASSUME TypeOK, [ProcessNext]_allVars
    PROVE  [Next]_vars \/ PastProfile
<1>1. CASE UNCHANGED vars
  BY <1>1
<1>2. ASSUME NEW c \in Clients, Call(c)
      PROVE  [Next]_vars \/ PastProfile
  <2>1. CASE Send(c)
    BY <2>1 DEF Next, RequestStep
  <2>2. CASE /\ inFlight' = [inFlight EXCEPT ![c] = TRUE]
             /\ UNCHANGED <<files, current, reloading, promised, used>>
    BY <2>2 DEF PastProfile, TypeOK, files, reloading
  <2> QED BY <1>2, <2>1, <2>2 DEF Call
<1>3. ASSUME NEW c \in Clients, Return(c)
      PROVE  [Next]_vars
  BY <1>3 DEF Return, Next, RequestStep
<1>4. ASSUME NEW r \in Reloads, Reloading(r)
      PROVE  [Next]_vars
  BY <1>4 DEF Reloading, Next
<1>5. ASSUME Rotation PROVE [Next]_vars
  BY <1>5 DEF Next
<1>6. ASSUME NEW i \in Installers, Install(i) PROVE UNCHANGED vars
  BY <1>6 DEF Install
<1>7. ASSUME NEW c \in Clients, Building(c) PROVE UNCHANGED vars
  BY <1>7 DEF Building, TakeDefault, TakeExplicit
<1> QED
  BY <1>1, <1>2, <1>3, <1>4, <1>5, <1>6, <1>7 DEF ProcessNext, Calling, allVars

LEMMA PastProfileKeeps ==
    ASSUME TransportInv, PastProfile
    PROVE  TransportInv'
<1> USE DEF TransportInv, PastProfile
<1>1. TypeOK'
  BY DEF TypeOK
<1>2. ReadingInv' /\ BuiltInv'
  BY DEF ReadingInv, BuiltInv, ReadWithinWindow, AtLeast
<1>3. PublishedInv'
  BY DEF PublishedInv, Validated, AtLeast, Generations
<1> QED BY <1>1, <1>2, <1>3

LEMMA ProcessInvariant == ProcessSpec => []TransportInv
<1>1. ProcessInit => TransportInv
  BY InitTransport DEF ProcessInit
<1>2. TransportInv /\ [ProcessNext]_allVars => TransportInv'
  BY ProcessStep, PastProfileKeeps, NextType, NextReading, NextPublished DEF TransportInv
<1> QED BY <1>1, <1>2, PTL DEF ProcessSpec

\* In a process, too, snapshots come from one reload's window and requests use
\* validated sources, whoever installs and replaces providers meanwhile.
THEOREM ProcessTheorem ==
    ProcessSpec => [](TypeOK /\ SnapshotFromItsWindow /\ RequestsUseValidatedSources)
<1>1. TransportInv => TypeOK /\ SnapshotFromItsWindow /\ RequestsUseValidatedSources
  <2>1. TransportInv => SnapshotFromItsWindow
    BY BuiltSnapshot DEF SnapshotFromItsWindow
  <2>2. TransportInv => RequestsUseValidatedSources
    BY DEF TransportInv, TypeOK, Snapshots, Contents, PublishedInv, Validated,
           Refused, RequestsUseValidatedSources
  <2> QED BY <2>1, <2>2 DEF TransportInv
<1> QED BY <1>1, ProcessInvariant, PTL

\* The provider of an installer that was told Ok is the one in place.
InstalledInv ==
    /\ slot \in {"profile", "other"} \cup {None}
    /\ \A i \in Installers : answered[i] = "ok" => slot = Offered[i]

\* A client that was built by default after the profile's install was answered
\* uses the profile, and keeps it until somebody replaces its provider.
CommandsShareTheProfile == \A c \in Clients : shares[c] => provider[c] = "profile"

SharingInv ==
    /\ DOMAIN answered = Installers /\ DOMAIN provider = Clients /\ DOMAIN shares = Clients
    /\ InstalledInv /\ CommandsShareTheProfile

LEMMA SharingStep == SharingInv /\ [ProcessNext]_allVars => SharingInv'
<1> SUFFICES ASSUME SharingInv, [ProcessNext]_allVars PROVE SharingInv'
  OBVIOUS
<1> USE DEF SharingInv
<1>1. CASE UNCHANGED process
  BY <1>1 DEF process, InstalledInv, CommandsShareTheProfile
<1>2. ASSUME NEW i \in Installers, Install(i)
      PROVE  SharingInv'
  <2>1. Offered[i] \in {"profile", "other"}
    BY ProcessAssumption
  <2>2. CommandsShareTheProfile' /\ DOMAIN answered' = Installers
    BY <1>2 DEF Install, CommandsShareTheProfile
  <2>3. InstalledInv'
    <3>1. CASE slot = None
      <4>1. \A j \in Installers : answered[j] # "ok"
        BY <3>1, ProcessAssumption DEF InstalledInv
      <4> QED BY <1>2, <2>1, <3>1, <4>1 DEF Install, InstalledInv
    <3>2. CASE slot # None
      BY <1>2, <3>2 DEF Install, InstalledInv
    <3> QED BY <3>1, <3>2
  <2> QED BY <1>2, <2>2, <2>3 DEF Install
<1>3. ASSUME NEW c \in Clients, Building(c)
      PROVE  SharingInv'
  <2>1. Promised => Default = "profile"
    BY ProcessAssumption DEF Promised, Default, InstalledInv
  <2>2. CASE TakeDefault(c)
    BY <2>1, <2>2 DEF TakeDefault, Becomes, InstalledInv, CommandsShareTheProfile
  <2>3. CASE TakeExplicit(c)
    BY <2>3 DEF TakeExplicit, Becomes, InstalledInv, CommandsShareTheProfile
  <2> QED BY <1>3, <2>2, <2>3 DEF Building
<1> QED
  BY <1>1, <1>2, <1>3
     DEF ProcessNext, Calling, Call, Return, Reloading, allVars

\* Every client that was built by default after the install of the profile was
\* answered shares it: no second install, and no order of constructors and
\* installs, gives such a client a provider of its own.
THEOREM SharingTheorem == ProcessSpec => []CommandsShareTheProfile
<1>1. ProcessInit => SharingInv
  BY DEF ProcessInit, SharingInv, InstalledInv, CommandsShareTheProfile
<1>2. SharingInv => CommandsShareTheProfile
  BY DEF SharingInv
<1> QED BY <1>1, <1>2, SharingStep, PTL DEF ProcessSpec
=============================================================================
