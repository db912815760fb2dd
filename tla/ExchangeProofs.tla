--------------------------- MODULE ExchangeProofs ---------------------------
(***************************************************************************)
(* One exchange with a peer.  What a call returns, for every limit, body   *)
(* and chunking (ResponseIntake); and what its deadline promises of the    *)
(* simulator, for all durations (SimDeadline).                             *)
(***************************************************************************)
EXTENDS ResponseIntake, TLAPS

\* While a body is read, its answer is not one that the head settles or the
\* declared length refuses, and what is held is a prefix within the limit.
ReadingInv ==
    /\ phase = "sent" => answer = NoAnswer /\ buffered = 0
    /\ phase \in {"reading", "open"} => answer \in Answers
    /\ phase = "reading" =>
          /\ ~Absent(call, answer) /\ ~Provisioned(call, answer)
          /\ ~OpensStream(call, answer) /\ ~DeclaresTooMuch(answer)
          /\ buffered <= answer.length
    /\ phase = "open" => OpensStream(call, answer)
    /\ Settled => answer \in Answers

IntakeInv == TypeOK /\ ReadingInv /\ BoundedBuffer /\ OutcomeIsTheMeaning

-----------------------------------------------------------------------------
\* The dispatch of every client returns one of the outcomes.
LEMMA BodyOutcomeType ==
    ASSUME NEW c \in Calls, NEW a \in Answers
    PROVE  BodyOutcome(c, a) \in Outcomes
<1>1. a.status \in Statuses
  BY DEF Answers
<1>2. /\ Decoded(a) \in Outcomes /\ Refused(a) \in Outcomes
      /\ Server(a.status) \in Outcomes
      /\ Outcome("Ok") \in Outcomes /\ Outcome("Veto") \in Outcomes
      /\ Outcome("Pending") \in Outcomes /\ Outcome("Decode") \in Outcomes
  BY <1>1 DEF Decoded, Refused, Server, Outcome, Outcomes, OutcomeKinds
<1>3. /\ RpcOutcome(a) \in Outcomes /\ AuthorizeOutcome(a) \in Outcomes
      /\ ReceiptOutcome(a) \in Outcomes /\ TypedOutcome(a) \in Outcomes
  BY <1>2 DEF RpcOutcome, AuthorizeOutcome, ReceiptOutcome, TypedOutcome
<1>4. /\ AgentsOutcome(a) \in Outcomes /\ PoliciesOutcome(a) \in Outcomes
      /\ SimulatorOutcome(a) \in Outcomes /\ BrainOutcome(a) \in Outcomes
  BY <1>3 DEF AgentsOutcome, PoliciesOutcome, SimulatorOutcome, BrainOutcome
<1>5. /\ LedgerGetOutcome(a) \in Outcomes /\ LedgerPostOutcome(c, a) \in Outcomes
      /\ LedgerExportOutcome(a) \in Outcomes /\ ComplianceOutcome(a) \in Outcomes
      /\ ExportOutcome(a) \in Outcomes /\ ProvisionRefused(a) \in Outcomes
      /\ HilOutcome(a) \in Outcomes /\ HilAuthOutcome(a) \in Outcomes
  BY <1>2 DEF LedgerGetOutcome, LedgerPostOutcome, LedgerExportOutcome,
              ComplianceOutcome, ExportOutcome, ProvisionRefused, HilOutcome, HilAuthOutcome
<1> QED
  BY <1>3, <1>4, <1>5 DEF BodyOutcome, Calls

LEMMA ReadOutcomeType ==
    ASSUME NEW c \in Calls, NEW a \in Answers
    PROVE  ReadOutcome(c, a) \in Outcomes
<1>1. Outcome("NotText") \in Outcomes
  BY DEF Outcome, Outcomes, OutcomeKinds
<1> QED
  BY <1>1, BodyOutcomeType DEF ReadOutcome

LEMMA PlainOutcomes ==
    \A k \in OutcomeKinds : Outcome(k) \in Outcomes /\ Outcome(k).kind = k
  BY DEF Outcome, Outcomes

\* The limits are numbers.
LEMMA LimitType == \A c, s : Limit(c, s) \in Nat
  BY LimitAssumption DEF Limit

-----------------------------------------------------------------------------
LEMMA IntakeInit == Init => IntakeInv
<1> SUFFICES ASSUME Init PROVE IntakeInv
  OBVIOUS
<1>1. TypeOK
  BY PlainOutcomes, LimitAssumption DEF Init, TypeOK, OutcomeKinds
<1>2. ReadingInv
  BY PlainOutcomes DEF Init, ReadingInv, Settled
<1>3. BoundedBuffer
  BY LimitType DEF Init, BoundedBuffer
<1>4. OutcomeIsTheMeaning
  BY DEF Init, OutcomeIsTheMeaning, Settled
<1> QED
  BY <1>1, <1>2, <1>3, <1>4 DEF IntakeInv

LEMMA IntakeStep == IntakeInv /\ [Next]_vars => IntakeInv'
<1> SUFFICES ASSUME IntakeInv, [Next]_vars PROVE IntakeInv'
  OBVIOUS
<1> USE DEF IntakeInv
<1>h. ASSUME NEW a \in Answers, Head(a)
      PROVE  /\ call' = call /\ call \in Calls /\ answer' = a
             /\ buffered = 0 /\ buffered' = 0 /\ BoundedBuffer'
             /\ answer' \in Answers /\ buffered' \in 0..MaxLength
  BY <1>h, LimitType, LimitAssumption DEF Head, TypeOK, ReadingInv, BoundedBuffer
<1>1. ASSUME NEW a \in Answers, AnswerAbsent(a) PROVE IntakeInv'
  <2>1. outcome' = Outcome("Absent") /\ phase' = "returned" /\ Absent(call, a) /\ Head(a)
    BY <1>1 DEF AnswerAbsent, Return
  <2>2. TypeOK' /\ ReadingInv'
    BY <2>1, <1>h, PlainOutcomes DEF TypeOK, ReadingInv, OutcomeKinds
  <2>3. OutcomeIsTheMeaning'
    BY <2>1, <1>h DEF OutcomeIsTheMeaning, Meaning, Absent
  <2> QED BY <2>1, <2>2, <2>3, <1>h
<1>2. ASSUME NEW a \in Answers, AnswerProvisioned(a) PROVE IntakeInv'
  <2>1. outcome' = Outcome("Ok") /\ phase' = "returned" /\ Provisioned(call, a) /\ Head(a)
    BY <1>2 DEF AnswerProvisioned, Return
  <2>2. TypeOK' /\ ReadingInv'
    BY <2>1, <1>h, PlainOutcomes DEF TypeOK, ReadingInv, OutcomeKinds
  <2>3. OutcomeIsTheMeaning'
    BY <2>1, <1>h DEF OutcomeIsTheMeaning, Meaning, Absent, Provisioned
  <2> QED BY <2>1, <2>2, <2>3, <1>h
<1>3. ASSUME NEW a \in Answers, OpenStream(a) PROVE IntakeInv'
  <2>1. outcome' = outcome /\ phase' = "open" /\ OpensStream(call, a) /\ Head(a)
    BY <1>3 DEF OpenStream
  <2>2. TypeOK' /\ ReadingInv' /\ OutcomeIsTheMeaning'
    BY <2>1, <1>h DEF TypeOK, ReadingInv, OutcomeIsTheMeaning, Settled
  <2> QED BY <2>1, <2>2, <1>h
<1>4. ASSUME NEW a \in Answers, RefuseDeclared(a) PROVE IntakeInv'
  <2>1. /\ outcome' = Outcome("TooLarge") /\ phase' = "returned" /\ Head(a)
        /\ ~Absent(call, a) /\ ~Provisioned(call, a) /\ ~OpensStream(call, a)
        /\ a.length > Limit(call, a.status)
    BY <1>4 DEF RefuseDeclared, BodyFollows, DeclaresTooMuch, Return
  <2>2. TypeOK' /\ ReadingInv'
    BY <2>1, <1>h, PlainOutcomes DEF TypeOK, ReadingInv, OutcomeKinds
  <2>3. OutcomeIsTheMeaning'
    BY <2>1, <1>h DEF OutcomeIsTheMeaning, Meaning
  <2> QED BY <2>1, <2>2, <2>3, <1>h
<1>5. ASSUME NEW a \in Answers, StartReading(a) PROVE IntakeInv'
  <2>1. /\ outcome' = outcome /\ phase' = "reading" /\ Head(a)
        /\ ~Absent(call, a) /\ ~Provisioned(call, a) /\ ~OpensStream(call, a)
        /\ ~DeclaresTooMuch(a) /\ 0 <= a.length
    BY <1>5, LimitAssumption DEF StartReading, BodyFollows, Answers
  <2>2. TypeOK' /\ OutcomeIsTheMeaning'
    BY <2>1, <1>h DEF TypeOK, OutcomeIsTheMeaning, Settled
  <2>3. ReadingInv'
    BY <2>1, <1>h DEF ReadingInv, Settled, DeclaresTooMuch
  <2> QED BY <2>1, <2>2, <2>3, <1>h
<1>6. ASSUME NEW n \in 1..MaxChunk, KeepChunk(n) PROVE IntakeInv'
  <2>1. /\ phase = "reading" /\ answer \in Answers
        /\ buffered' = buffered + n
        /\ buffered + n <= answer.length
        /\ buffered + n <= Limit(call, answer.status)
        /\ UNCHANGED <<call, phase, answer, outcome>>
    BY <1>6 DEF KeepChunk, Chunk, Fits, ReadingInv
  <2>2. TypeOK'
    <3>1. answer.length \in 0..MaxLength
      BY <2>1 DEF Answers
    <3> QED BY <2>1, <3>1, LimitAssumption DEF TypeOK
  <2>3. ReadingInv'
    BY <2>1 DEF ReadingInv, Settled, DeclaresTooMuch
  <2>4. BoundedBuffer' /\ OutcomeIsTheMeaning'
    BY <2>1 DEF BoundedBuffer, OutcomeIsTheMeaning, Settled
  <2> QED BY <2>2, <2>3, <2>4
<1>7. ASSUME NEW n \in 1..MaxChunk, RefuseChunk(n) PROVE IntakeInv'
  <2>1. /\ phase = "reading" /\ answer \in Answers /\ phase' = "returned"
        /\ outcome' = Outcome("TooLarge")
        /\ buffered + n <= answer.length
        /\ ~(buffered + n <= Limit(call, answer.status))
        /\ UNCHANGED <<call, answer, buffered>>
    BY <1>7 DEF RefuseChunk, Chunk, Fits, Return, ReadingInv
  <2>2. TypeOK' /\ ReadingInv' /\ BoundedBuffer'
    BY <2>1, PlainOutcomes DEF TypeOK, ReadingInv, BoundedBuffer, OutcomeKinds
  <2>3. answer.length > Limit(call, answer.status)
    <3>1. answer.length \in Nat /\ buffered \in Nat /\ Limit(call, answer.status) \in Nat
      BY <2>1, LimitType, LimitAssumption DEF Answers, TypeOK
    <3> QED BY <2>1, <3>1
  <2>4. OutcomeIsTheMeaning'
    BY <2>1, <2>3 DEF OutcomeIsTheMeaning, Meaning, ReadingInv
  <2> QED BY <2>2, <2>4
<1>8. ASSUME FinishBody PROVE IntakeInv'
  <2>1. /\ phase = "reading" /\ answer \in Answers /\ phase' = "returned"
        /\ outcome' = ReadOutcome(call, answer)
        /\ buffered = answer.length
        /\ UNCHANGED <<call, answer, buffered>>
    BY <1>8 DEF FinishBody, Return, ReadingInv
  <2>2. TypeOK' /\ ReadingInv' /\ BoundedBuffer'
    BY <2>1, ReadOutcomeType DEF TypeOK, ReadingInv, BoundedBuffer
  <2>3. ~(answer.length > Limit(call, answer.status))
    <3>1. answer.length \in Nat /\ Limit(call, answer.status) \in Nat
      BY <2>1, LimitType, LimitAssumption DEF Answers
    <3> QED BY <2>1, <3>1 DEF BoundedBuffer
  <2>4. OutcomeIsTheMeaning'
    BY <2>1, <2>3 DEF OutcomeIsTheMeaning, Meaning, ReadingInv
  <2> QED BY <2>2, <2>4
<1>9. ASSUME EndStream PROVE IntakeInv'
  <2>1. /\ phase = "open" /\ answer \in Answers /\ phase' = "returned"
        /\ outcome' = Outcome("StreamEnded") /\ OpensStream(call, answer)
        /\ UNCHANGED <<call, answer, buffered>>
    BY <1>9 DEF EndStream, Return, ReadingInv
  <2>2. TypeOK' /\ ReadingInv' /\ BoundedBuffer'
    BY <2>1, PlainOutcomes DEF TypeOK, ReadingInv, BoundedBuffer, OutcomeKinds
  <2>3. OutcomeIsTheMeaning'
    BY <2>1 DEF OutcomeIsTheMeaning, Meaning, OpensStream, Absent, Provisioned
  <2> QED BY <2>2, <2>3
<1>10. ASSUME LoseConnection \/ PassDeadline PROVE IntakeInv'
  <2>1. /\ phase' = "returned" /\ UNCHANGED <<call, answer, buffered>>
        /\ outcome' = Outcome("Lost") \/ outcome' = Outcome("TimedOut")
    BY <1>10 DEF LoseConnection, PassDeadline, Return
  <2>2. ~Settled'
    BY <2>1, PlainOutcomes DEF Settled, OutcomeKinds
  <2>3. TypeOK' /\ BoundedBuffer'
    BY <2>1, PlainOutcomes DEF TypeOK, BoundedBuffer, OutcomeKinds
  <2>4. ReadingInv' /\ OutcomeIsTheMeaning'
    BY <2>1, <2>2 DEF ReadingInv, OutcomeIsTheMeaning
  <2> QED BY <2>3, <2>4
<1>11. ASSUME UNCHANGED vars PROVE IntakeInv'
  BY <1>11 DEF vars, TypeOK, ReadingInv, BoundedBuffer, OutcomeIsTheMeaning,
               Settled, DeclaresTooMuch
<1> QED
  BY <1>1, <1>2, <1>3, <1>4, <1>5, <1>6, <1>7, <1>8, <1>9, <1>10, <1>11 DEF Next

(* The invariant that the theorems below are read off.                     *)
LEMMA IntakeInvariant == Spec => []IntakeInv
  BY IntakeInit, IntakeStep, PTL DEF Spec

(* Every variable stays in its range, for every set of statuses, limit,    *)
(* body and chunking.                                                      *)
THEOREM TypeCorrect == Spec => []TypeOK
<1>1. IntakeInv => TypeOK
  BY DEF IntakeInv
<1> QED BY <1>1, IntakeInvariant, PTL

(* read_body_limited holds no more than the limit of its call, for every   *)
(* limit and however the peer cuts its body into chunks.                   *)
THEOREM BufferTheorem == Spec => []BoundedBuffer
<1>1. IntakeInv => BoundedBuffer
  BY DEF IntakeInv
<1> QED BY <1>1, IntakeInvariant, PTL

(* What a call returns is a function of the status and the whole body,     *)
(* whatever the limits, the chunks and the declared length.                *)
THEOREM MeaningTheorem == Spec => []OutcomeIsTheMeaning
<1>1. IntakeInv => OutcomeIsTheMeaning
  BY DEF IntakeInv
<1> QED BY <1>1, IntakeInvariant, PTL

-----------------------------------------------------------------------------
\* What OutcomeNamesStatus says of one outcome of one call.
Names(c, a, o) ==
    /\ o.kind \in {"Ok", "Decode"} => Success(a.status) \/ c = "HilAuth"
    /\ o.kind = "Pending" => c = "Authorize" /\ a.status = 202
    /\ o.kind = "Absent" => a.status = 404
    /\ o.kind = "Veto" => c = "Rpc" /\ a.status = 403
    /\ o.kind = "Unauthorized" => a.status = 401
    /\ o.kind = "BadRequest" => a.status = 400
    /\ o.kind = "Server" => o.status = a.status

\* Every arm of every dispatch names its status.
LEMMA DispatchNames ==
    ASSUME NEW c \in Calls, NEW a \in Answers
    PROVE  Names(c, a, BodyOutcome(c, a))
<1>1. a.status \in Nat
  BY LimitAssumption DEF Answers
<1>2. Names(c, a, Refused(a)) /\ Names(c, a, Server(a.status))
  BY DEF Names, Refused, Server, Outcome
<1>3. Success(a.status) => Names(c, a, Decoded(a)) /\ Names(c, a, Outcome("Ok"))
                             /\ Names(c, a, Outcome("Decode"))
  BY DEF Names, Decoded, Outcome
<1>4. /\ a.status = 200 => Success(a.status)
      /\ a.status = 201 => Success(a.status)
      /\ a.status = 202 => Success(a.status)
  BY DEF Success
<1>5. c = "Rpc" => Names(c, a, RpcOutcome(a))
  <2>1. c = "Rpc" /\ a.status = 403 => Names(c, a, Outcome("Veto"))
    BY DEF Names, Outcome
  <2> QED BY <2>1, <1>2, <1>3, <1>4 DEF RpcOutcome
<1>6. c = "Authorize" => Names(c, a, AuthorizeOutcome(a))
  <2>1. c = "Authorize" /\ a.status = 202 => Names(c, a, Outcome("Pending"))
    BY DEF Names, Outcome
  <2> QED BY <2>1, <1>2, <1>3, <1>4 DEF AuthorizeOutcome
<1>7. Names(c, a, ReceiptOutcome(a)) /\ Names(c, a, TypedOutcome(a))
  BY <1>2, <1>3, <1>4 DEF ReceiptOutcome, TypedOutcome
<1>8. /\ Names(c, a, LedgerExportOutcome(a)) /\ Names(c, a, ComplianceOutcome(a))
      /\ Names(c, a, LedgerGetOutcome(a)) /\ Names(c, a, LedgerPostOutcome(c, a))
      /\ Names(c, a, ExportOutcome(a)) /\ Names(c, a, ProvisionRefused(a))
      /\ Names(c, a, HilOutcome(a))
  BY <1>2, <1>3, <1>4 DEF LedgerGetOutcome, LedgerPostOutcome, ExportOutcome,
                          LedgerExportOutcome, ComplianceOutcome, ProvisionRefused, HilOutcome
<1>9. c = "HilAuth" => Names(c, a, HilAuthOutcome(a))
  BY DEF Names, HilAuthOutcome, Outcome
<1>10. /\ Names(c, a, AgentsOutcome(a)) /\ Names(c, a, PoliciesOutcome(a))
       /\ Names(c, a, SimulatorOutcome(a)) /\ Names(c, a, BrainOutcome(a))
  BY <1>7 DEF AgentsOutcome, PoliciesOutcome, SimulatorOutcome, BrainOutcome
<1> QED
  BY <1>5, <1>6, <1>7, <1>8, <1>9, <1>10 DEF BodyOutcome, Calls

(* For every peer and every limit, a caller can tell from the outcome      *)
(* which status it was sent; a value is never made of a refusal.           *)
THEOREM StatusTheorem == Spec => []OutcomeNamesStatus
<1>1. IntakeInv => OutcomeNamesStatus
  <2> SUFFICES ASSUME IntakeInv, Settled PROVE Names(call, answer, outcome)
    BY DEF OutcomeNamesStatus, Names
  <2>1. call \in Calls /\ answer \in Answers /\ outcome = Meaning(call, answer)
    BY DEF IntakeInv, TypeOK, ReadingInv, OutcomeIsTheMeaning
  <2>2. Names(call, answer, BodyOutcome(call, answer))
    BY <2>1, DispatchNames
  <2>3. /\ Names(call, answer, Outcome("NotText"))
        /\ Names(call, answer, Outcome("TooLarge"))
        /\ Names(call, answer, Outcome("StreamEnded"))
    BY DEF Names, Outcome
  <2>4. Absent(call, answer) => Names(call, answer, Outcome("Absent"))
    BY DEF Names, Outcome, Absent
  <2>5. Provisioned(call, answer) => Names(call, answer, Outcome("Ok"))
    BY DEF Names, Outcome, Provisioned
  <2> QED
    BY <2>1, <2>2, <2>3, <2>4, <2>5 DEF Meaning, ReadOutcome
<1> QED BY <1>1, IntakeInvariant, PTL
-----------------------------------------------------------------------------
(***************************************************************************)
(* The deadline of the simulator client, for all durations: what the       *)
(* comment at sim.rs:91-93 promises holds when connecting, the request's   *)
(* way and the simulator's budget together stay below the deadline.        *)
(***************************************************************************)
CONSTANTS RequestTimeout, ConnectTimeout, MaxDelay, ServerBudget, Horizon
VARIABLES now, caller, request, sentAt, creation, startedAt, reply

Sim == INSTANCE SimDeadline WITH answer <- reply

\* How far the clock can be in each stage of the exchange.
StageInv ==
    /\ caller = "connecting" => request = "none" /\ now <= ConnectTimeout
    /\ request = "none" => creation = "none"
    /\ request = "sent" =>
          /\ sentAt <= ConnectTimeout
          /\ now <= sentAt + MaxDelay
          /\ creation = "none"
    /\ request = "lost" => creation = "none"
    /\ creation = "running" =>
          /\ startedAt <= ConnectTimeout + MaxDelay
          /\ now <= startedAt + ServerBudget
    /\ caller = "timed_out" => now >= RequestTimeout

DeadlineInv == Sim!TypeOK /\ StageInv

LEMMA DeadlineInit == ASSUME Sim!Durations PROVE Sim!Init => DeadlineInv
  BY Sim!Durations DEF Sim!Durations, Sim!Init, DeadlineInv, Sim!TypeOK, StageInv

LEMMA DeadlineStep ==
    ASSUME Sim!Durations PROVE DeadlineInv /\ [Sim!Next]_Sim!vars => DeadlineInv'
<1> SUFFICES ASSUME DeadlineInv, [Sim!Next]_Sim!vars PROVE DeadlineInv'
  OBVIOUS
<1> USE Sim!Durations DEF Sim!Durations, DeadlineInv, Sim!TypeOK, StageInv
<1>1. CASE Sim!Reject
  BY <1>1 DEF Sim!Reject
<1>2. CASE Sim!FailToConnect
  BY <1>2 DEF Sim!FailToConnect
<1>3. CASE Sim!Send
  BY <1>3 DEF Sim!Send
<1>4. CASE Sim!LoseRequest
  BY <1>4 DEF Sim!LoseRequest
<1>5. CASE Sim!Arrive
  BY <1>5 DEF Sim!Arrive
<1>6. CASE Sim!Create
  BY <1>6 DEF Sim!Create
<1>7. CASE Sim!GiveUp
  BY <1>7 DEF Sim!GiveUp
<1>8. CASE Sim!Receive
  BY <1>8 DEF Sim!Receive
<1>9. CASE Sim!TimeOut
  BY <1>9 DEF Sim!TimeOut, Sim!Pending, Sim!Deadline
<1>10. CASE Sim!Tick
  BY <1>10 DEF Sim!Tick, Sim!Due
<1>11. CASE UNCHANGED Sim!vars
  BY <1>11 DEF Sim!vars
<1> QED
  BY <1>1, <1>2, <1>3, <1>4, <1>5, <1>6, <1>7, <1>8, <1>9, <1>10, <1>11 DEF Sim!Next

LEMMA DeadlineInvariant == ASSUME Sim!Durations PROVE Sim!Spec => []DeadlineInv
  BY DeadlineInit, DeadlineStep, PTL DEF Sim!Spec

(* Every variable stays in its range, for all durations.                   *)
THEOREM DeadlineTypes == ASSUME Sim!Durations PROVE Sim!Spec => []Sim!TypeOK
<1>1. DeadlineInv => Sim!TypeOK
  BY DEF DeadlineInv
<1> QED BY <1>1, DeadlineInvariant, PTL

\* With that slack, the invariant leaves no creation running at the deadline.
LEMMA OverAtTheDeadline ==
    ASSUME Sim!Durations, Sim!Slack PROVE DeadlineInv => Sim!TimeoutMeansOver
<1> SUFFICES ASSUME DeadlineInv, caller = "timed_out"
             PROVE  creation # "running" /\ request # "sent"
  BY DEF Sim!TimeoutMeansOver
<1> QED
  BY Sim!Slack, Sim!Durations DEF Sim!Durations, Sim!Slack, DeadlineInv, Sim!TypeOK, StageInv

(* A caller that was told of a timeout finds no creation under way, for    *)
(* all durations whose sum leaves the deadline some slack.                 *)
THEOREM OverTheorem ==
    ASSUME Sim!Durations, Sim!Slack PROVE Sim!Spec => []Sim!TimeoutMeansOver
  BY OverAtTheDeadline, DeadlineInvariant, PTL

(* No creation completes after its caller was told of a timeout, under the *)
(* same condition on the durations.                                        *)
THEOREM DeadlineTheorem ==
    ASSUME Sim!Durations, Sim!Slack PROVE Sim!Spec => Sim!NoCompletionAfterTimeout
<1>1. DeadlineInv /\ [Sim!Next]_Sim!vars
         => [creation' = "done" /\ creation # "done" => caller # "timed_out"]_Sim!vars
  <2> SUFFICES ASSUME DeadlineInv, [Sim!Next]_Sim!vars,
                      creation' = "done", creation # "done"
               PROVE  caller # "timed_out"
    OBVIOUS
  <2>1. creation = "running"
    BY DEF Sim!Next, Sim!vars, Sim!Reject, Sim!FailToConnect, Sim!Send, Sim!LoseRequest, Sim!Arrive,
           Sim!Create, Sim!GiveUp, Sim!Receive, Sim!TimeOut, Sim!Tick
  <2> QED
    BY <2>1, OverAtTheDeadline DEF Sim!TimeoutMeansOver
<1> QED
  BY <1>1, DeadlineInvariant, PTL DEF Sim!Spec, Sim!NoCompletionAfterTimeout
=============================================================================
