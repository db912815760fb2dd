--------------------------- MODULE ResponseIntake ---------------------------
(***************************************************************************)
(* One request of a client and what it makes of the answer: the bounded    *)
(* read of src/src/http.rs and the status dispatch of each client.         *)
(*                                                                         *)
(* The peer decides everything about the answer: its status, how long the  *)
(* body is, whether it declares that length, in which chunks the body      *)
(* arrives, and whether it arrives at all.  A body is abstracted to its    *)
(* length and to what a decoder would say of it.                           *)
(***************************************************************************)
EXTENDS Naturals

CONSTANTS
    Statuses,       \* the statuses the peer may answer with
    TextLimit,      \* DEFAULT_RESPONSE_BODY_LIMIT
    BinaryLimit,    \* BINARY_RESPONSE_BODY_LIMIT
    MaxLength,      \* bound: the longest body the peer sends
    MaxChunk        \* bound: the longest chunk it sends

\* The two const assertions of http.rs:37-38.
ASSUME LimitAssumption ==
    /\ Statuses \subseteq Nat
    /\ TextLimit \in Nat \ {0} /\ BinaryLimit \in Nat
    /\ TextLimit <= BinaryLimit
    /\ MaxLength \in Nat /\ MaxChunk \in Nat

Success(status) == status \in 200..299

(***************************************************************************)
(* The calls, by the function that reads their answer.  LedgerAttach is    *)
(* LedgerPost for a caller that expects no value.                          *)
(***************************************************************************)
Calls == {"Rpc", "Authorize", "Receipt", "Agents", "Policies", "Simulator",
          "Brain", "LedgerGet", "LedgerPost", "LedgerAttach",
          "LedgerExport", "Compliance", "Export", "Provision", "Hil",
          "HilOptional", "HilAuth", "HilStream"}

\* A body is the JSON the call expects, other JSON, only white space, or
\* other text; bytes that are not UTF-8 are no JSON, and an empty body is
\* blank.
Shapes == {"expected", "json", "blank", "text", "bytes"}
Answers ==
    {a \in [status : Statuses, length : 0..MaxLength, declared : BOOLEAN,
            shape : Shapes] : a.length = 0 => a.shape = "blank"}

Outcome(k) == [kind |-> k, status |-> 0]
Server(status) == [kind |-> "Server", status |-> status]
\* "Lost" and "TimedOut" are both ClavenarError::Transport.
OutcomeKinds == {"None", "Ok", "Absent", "Pending", "Veto", "Unauthorized",
                 "BadRequest", "Server", "Decode", "TooLarge", "NotText",
                 "Lost", "TimedOut", "StreamEnded"}
Outcomes == [kind : OutcomeKinds, status : Statuses \cup {0}]

VARIABLES
    call,       \* which function reads the answer
    phase,      \* "sent", "reading", "open" (a stream), "returned"
    answer,     \* the answer, once its head has arrived
    buffered,   \* bytes of the body held by read_body_limited
    outcome     \* what the caller gets
vars == <<call, phase, answer, buffered, outcome>>

NoAnswer == [status |-> 0, length |-> 0, declared |-> FALSE, shape |-> "blank"]

-----------------------------------------------------------------------------
(* What each call makes of a body it has read completely.                  *)

Decoded(a) == IF a.shape = "expected" THEN Outcome("Ok") ELSE Outcome("Decode")

\* The arms that most dispatchers share.
Refused(a) ==
    IF a.status = 401 THEN Outcome("Unauthorized")
    ELSE IF a.status = 400 THEN Outcome("BadRequest")
    ELSE Server(a.status)

\* The JSON-RPC answer is a Value, so any JSON will do; a 403 is a veto
\* whatever its body.
RpcOutcome(a) ==
    IF a.status = 200
    THEN IF a.shape \in {"expected", "json"} THEN Outcome("Ok") ELSE Outcome("Decode")
    ELSE IF a.status = 403 THEN Outcome("Veto")
    ELSE Refused(a)

AuthorizeOutcome(a) ==
    IF a.status = 202
    THEN IF a.shape = "expected" THEN Outcome("Pending") ELSE Outcome("Decode")
    ELSE IF a.status = 200 THEN Decoded(a)
    ELSE Refused(a)

ReceiptOutcome(a) ==
    IF a.status \in {200, 201} THEN Decoded(a) ELSE Refused(a)

TypedOutcome(a) ==
    IF a.status \in {200, 201} THEN Decoded(a) ELSE Refused(a)

\* The clients that hand their answer to decode_response.
AgentsOutcome(a) == TypedOutcome(a)
PoliciesOutcome(a) == TypedOutcome(a)
SimulatorOutcome(a) == TypedOutcome(a)
BrainOutcome(a) == TypedOutcome(a)

LedgerGetOutcome(a) ==
    IF a.status = 200 THEN Decoded(a) ELSE Server(a.status)

\* The two calls that post without a body and have a dispatch of their own.
LedgerExportOutcome(a) ==
    IF a.status = 200 THEN Decoded(a) ELSE Server(a.status)
ComplianceOutcome(a) ==
    IF a.status = 200 THEN Decoded(a) ELSE Server(a.status)

LedgerPostOutcome_AnyStatus(c, a) ==
    IF a.shape = "blank" /\ c = "LedgerAttach" THEN Outcome("Ok") ELSE Decoded(a)

\* A blank body is read as null, which only the unit type accepts.
LedgerPostOutcome(c, a) ==
    IF ~Success(a.status) THEN Server(a.status)
    ELSE IF a.shape = "blank" /\ c = "LedgerAttach" THEN Outcome("Ok")
    ELSE Decoded(a)

ExportOutcome(a) ==
    IF Success(a.status) THEN Outcome("Ok") ELSE Server(a.status)

\* provision_tenant reads the body of a refusal only.
ProvisionRefused(a) == Server(a.status)

HilOutcome_NoStatus(a) ==
    IF Success(a.status) THEN Decoded(a) ELSE [kind |-> "Server"]

HilOutcome(a) ==
    IF Success(a.status) THEN Decoded(a) ELSE Server(a.status)

\* Any status and any text is passed through.
HilAuthOutcome(a) == Outcome("Ok")

BodyOutcome(c, a) ==
    CASE c = "Rpc" -> RpcOutcome(a)
      [] c = "Authorize" -> AuthorizeOutcome(a)
      [] c = "Receipt" -> ReceiptOutcome(a)
      [] c = "Agents" -> AgentsOutcome(a)
      [] c = "Policies" -> PoliciesOutcome(a)
      [] c = "Simulator" -> SimulatorOutcome(a)
      [] c = "Brain" -> BrainOutcome(a)
      [] c = "LedgerGet" -> LedgerGetOutcome(a)
      [] c = "LedgerExport" -> LedgerExportOutcome(a)
      [] c = "Compliance" -> ComplianceOutcome(a)
      [] c \in {"LedgerPost", "LedgerAttach"} -> LedgerPostOutcome(c, a)
      [] c = "Export" -> ExportOutcome(a)
      [] c = "Provision" -> ProvisionRefused(a)
      [] c \in {"Hil", "HilOptional", "HilStream"} -> HilOutcome(a)
      [] c = "HilAuth" -> HilAuthOutcome(a)

\* Only the regulatory export takes bytes, and only when it succeeds.
Binary(c, status) == c = "Export" /\ Success(status)
Limit(c, status) == IF Binary(c, status) THEN BinaryLimit ELSE TextLimit

\* What read_text_limited (or read_body_limited) and the dispatch return.
ReadOutcome(c, a) ==
    IF a.shape = "bytes" /\ ~Binary(c, a.status)
    THEN Outcome("NotText")
    ELSE BodyOutcome(c, a)

\* The answers that are settled by their status, the body unread.
Absent(c, a) == c = "HilOptional" /\ a.status = 404
Provisioned(c, a) == c = "Provision" /\ Success(a.status)
OpensStream(c, a) == c = "HilStream" /\ Success(a.status)

-----------------------------------------------------------------------------
Init ==
    /\ call \in Calls
    /\ phase = "sent"
    /\ answer = NoAnswer
    /\ buffered = 0
    /\ outcome = Outcome("None")

Return(o) == phase' = "returned" /\ outcome' = o

\* The status line and the headers arrive; the status is kept before the
\* body is read.
Head(a) ==
    /\ phase = "sent"
    /\ answer' = a
    /\ UNCHANGED <<call, buffered>>

AnswerAbsent(a) == Head(a) /\ Absent(call, a) /\ Return(Outcome("Absent"))

AnswerProvisioned(a) == Head(a) /\ Provisioned(call, a) /\ Return(Outcome("Ok"))

\* The caller gets the response and reads the stream itself.
OpenStream(a) ==
    /\ Head(a)
    /\ OpensStream(call, a)
    /\ phase' = "open"
    /\ UNCHANGED outcome

BodyFollows(a) ==
    /\ Head(a)
    /\ ~Absent(call, a) /\ ~Provisioned(call, a) /\ ~OpensStream(call, a)

DeclaresTooMuch_AtLimit(a) == a.declared /\ a.length >= Limit(call, a.status)

DeclaresTooMuch(a) == a.declared /\ a.length > Limit(call, a.status)

RefuseDeclared(a) ==
    BodyFollows(a) /\ DeclaresTooMuch(a) /\ Return(Outcome("TooLarge"))

StartReading(a) ==
    /\ BodyFollows(a)
    /\ ~DeclaresTooMuch(a)
    /\ phase' = "reading"
    /\ UNCHANGED outcome

Chunk(n) == phase = "reading" /\ n > 0 /\ buffered + n <= answer.length

Fits_Before(n) == buffered <= Limit(call, answer.status)

Fits(n) == buffered + n <= Limit(call, answer.status)

KeepChunk(n) ==
    /\ Chunk(n) /\ Fits(n)
    /\ buffered' = buffered + n
    /\ UNCHANGED <<call, phase, answer, outcome>>

RefuseChunk(n) ==
    /\ Chunk(n) /\ ~Fits(n)
    /\ Return(Outcome("TooLarge"))
    /\ UNCHANGED <<call, answer, buffered>>

FinishBody ==
    /\ phase = "reading"
    /\ buffered = answer.length
    /\ Return(ReadOutcome(call, answer))
    /\ UNCHANGED <<call, answer, buffered>>

\* The peer ends an open stream.
EndStream ==
    /\ phase = "open"
    /\ Return(Outcome("StreamEnded"))
    /\ UNCHANGED <<call, answer, buffered>>

\* The connection cannot be made, breaks, or ends before the body does.
LoseConnection ==
    /\ phase # "returned"
    /\ Return(Outcome("Lost"))
    /\ UNCHANGED <<call, answer, buffered>>

PassDeadline_HeadOnly ==
    /\ phase = "sent"
    /\ Return(Outcome("TimedOut"))
    /\ UNCHANGED <<call, answer, buffered>>

\* The timeout of the client covers the exchange up to the last byte of the
\* body, also of a stream that has been handed to the caller: default_provider
\* sets it, and no stream request sets another.
PassDeadline ==
    /\ phase # "returned"
    /\ Return(Outcome("TimedOut"))
    /\ UNCHANGED <<call, answer, buffered>>

Next ==
    \/ \E a \in Answers :
          AnswerAbsent(a) \/ AnswerProvisioned(a) \/ OpenStream(a)
             \/ RefuseDeclared(a) \/ StartReading(a)
    \/ \E n \in 1..MaxChunk : KeepChunk(n) \/ RefuseChunk(n)
    \/ FinishBody \/ EndStream \/ LoseConnection \/ PassDeadline

\* The peer owes nothing; only the clock is sure to advance.
Spec == Init /\ [][Next]_vars /\ WF_vars(PassDeadline)

-----------------------------------------------------------------------------
\* Every variable stays within its range.
TypeOK ==
    /\ call \in Calls
    /\ phase \in {"sent", "reading", "open", "returned"}
    /\ answer \in Answers \cup {NoAnswer}
    /\ buffered \in 0..MaxLength
    /\ outcome \in Outcomes

(* However the peer cuts its body, and whatever length it declares or does *)
(* not, read_body_limited never holds more than the limit of the call.     *)
BoundedBuffer == buffered <= Limit(call, answer.status)

\* What an answer amounts to when it arrives: a function of the call, the
\* status and the whole body.
Meaning(c, a) ==
    IF Absent(c, a) THEN Outcome("Absent")
    ELSE IF Provisioned(c, a) THEN Outcome("Ok")
    ELSE IF OpensStream(c, a) THEN Outcome("StreamEnded")
    ELSE IF a.length > Limit(c, a.status) THEN Outcome("TooLarge")
    ELSE ReadOutcome(c, a)

Settled == phase = "returned" /\ outcome.kind \notin {"Lost", "TimedOut"}

(* What a call returns depends on the answer alone: not on the chunks it   *)
(* came in, and not on whether its length was declared.  So a body of      *)
(* exactly the limit is taken by both paths, one byte more by neither.     *)
OutcomeIsTheMeaning == Settled => outcome = Meaning(call, answer)

(* A caller can tell from the outcome which status the peer sent: a value  *)
(* or a decode error only for a success (the authentication proxy hands    *)
(* the status on itself), a veto only for a 403 of POST /mcp, and every    *)
(* refusal that could be read under its own status.                        *)
OutcomeNamesStatus ==
    Settled =>
       /\ outcome.kind \in {"Ok", "Decode"} => Success(answer.status) \/ call = "HilAuth"
       /\ outcome.kind = "Pending" => call = "Authorize" /\ answer.status = 202
       /\ outcome.kind = "Absent" => answer.status = 404
       /\ outcome.kind = "Veto" => call = "Rpc" /\ answer.status = 403
       /\ outcome.kind = "Unauthorized" => answer.status = 401
       /\ outcome.kind = "BadRequest" => answer.status = 400
       /\ outcome.kind = "Server" => outcome.status = answer.status

(* Every call returns to its caller, with an outcome or with an open       *)
(* stream, although the peer may send nothing, stop in the middle of a     *)
(* body, or send it a byte at a time.  Nothing is said of the stream then. *)
EventuallyAnswered == <>(phase \in {"open", "returned"})
=============================================================================
