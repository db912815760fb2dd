-------------------------- MODULE ProcessTransport --------------------------
(***************************************************************************)
(* SecureTransport as the clients of one process use it: http.rs's         *)
(* process-wide provider, the default that client constructors take, and   *)
(* the builders that replace it.                                           *)
(*                                                                         *)
(* Several threads may try to install a provider while clients are being   *)
(* built; the profile behind it is reloaded, and clients send requests.    *)
(***************************************************************************)
EXTENDS SecureTransport

CONSTANTS
    Installers,   \* threads that call install_process_http_provider
    Offered,      \* what each of them brings: the profile or another provider
    None

ASSUME ProcessAssumption ==
    /\ Offered \in [Installers -> {"profile", "other"}]
    /\ None \notin {"profile", "other"}

VARIABLES
    slot,         \* PROCESS_HTTP_PROVIDER, or None
    answered,     \* what each installer was told: "nothing", "ok", "already installed"
    provider,     \* the provider of each client, or None before it has one
    shares        \* history: built by default after an install of the profile was answered

process == <<slot, answered, provider, shares>>
allVars == <<vars, process>>

ProcessInit ==
    /\ Init
    /\ slot = None
    /\ answered = [i \in Installers |-> "nothing"]
    /\ provider = [c \in Clients |-> None]
    /\ shares = [c \in Clients |-> FALSE]

-----------------------------------------------------------------------------
(* Installing.                                                             *)

\* Faulty variant: the slot is written whether or not it is taken.
Install_Replaces(i) ==
    /\ answered[i] = "nothing"
    /\ slot' = Offered[i]
    /\ answered' = [answered EXCEPT ![i] = "ok"]
    /\ UNCHANGED <<vars, provider, shares>>

\* install_process_http_provider: the first provider stays for good.
Install(i) ==
    /\ answered[i] = "nothing"
    /\ IF slot = None
       THEN slot' = Offered[i] /\ answered' = [answered EXCEPT ![i] = "ok"]
       ELSE UNCHANGED slot /\ answered' = [answered EXCEPT ![i] = "already installed"]
    /\ UNCHANGED <<vars, provider, shares>>

-----------------------------------------------------------------------------
(* Building clients.                                                       *)

\* Faulty variant: a default constructor makes a client of its own.
Default_Own == "own"

\* default_provider.
Default == IF slot = None THEN "own" ELSE slot

Promised == \E i \in Installers : answered[i] = "ok" /\ Offered[i] = "profile"

Becomes(c, p, byDefault) ==
    /\ provider' = [provider EXCEPT ![c] = p]
    /\ shares' = [shares EXCEPT ![c] = byDefault /\ Promised]

\* The service clients take the default in new, ClavenarClient in build, if
\* no provider was set before.
TakeDefault(c) ==
    /\ provider[c] = None
    /\ Becomes(c, Default, TRUE)
    /\ UNCHANGED <<vars, slot, answered>>

\* http_client and http_provider of the builder, with_http_client and
\* with_http_provider of the service clients: the last one counts, also over
\* the default.  A caller hands over the profile, or anything that does not
\* rotate; requests under way keep the client they took.
TakeExplicit(c) ==
    /\ \E p \in {"profile", "own"} : Becomes(c, p, FALSE)
    /\ UNCHANGED <<vars, slot, answered>>

-----------------------------------------------------------------------------
(* Requests.                                                               *)

\* Every call takes a client from its provider; only the profile's carries
\* the credential snapshot.
Call(c) ==
    /\ provider[c] # None
    /\ \/ provider[c] = "profile" /\ Send(c)
       \/ /\ provider[c] # "profile" /\ ~inFlight[c]
          /\ inFlight' = [inFlight EXCEPT ![c] = TRUE]
          /\ UNCHANGED <<files, current, reloading, promised, used>>
    /\ UNCHANGED process

Return(c) == Answer(c) /\ UNCHANGED process

Building(c) == TakeDefault(c) \/ TakeExplicit(c)
Calling(c) == Call(c) \/ Return(c)
Reloading(r) == ReloadStep(r) /\ UNCHANGED process

ProcessNext ==
    \/ \E i \in Installers : Install(i)
    \/ \E c \in Clients : Building(c) \/ Calling(c)
    \/ \E r \in Reloads : Reloading(r)
    \/ Rotation /\ UNCHANGED process

\* A host that reloads again and again, clients that keep sending, a server
\* that answers, and writes that finish once begun; neither rotations nor
\* installs nor new clients need happen.
ProcessSpec ==
    /\ ProcessInit /\ [][ProcessNext]_allVars
    /\ \A s \in Sources : WF_allVars(WriteSource(s) /\ UNCHANGED process)
    /\ \A r \in Reloads : WF_allVars(Reloading(r))
    /\ \A c \in Clients : WF_allVars(Calling(c))

-----------------------------------------------------------------------------
(* Properties.                                                             *)

\* When a rotation has come to rest, its credentials reach the requests of
\* every client that was built by default after the profile was installed,
\* whichever constructor built it, and no failed or overtaken reload can keep
\* such a client on old credentials for good ("so every command shares one
\* secure transport profile").
RotationReachesEveryCommand ==
    \A c \in Clients : <>[](shares[c] => used[c] = source)
=============================================================================
