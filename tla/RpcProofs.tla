----------------------------- MODULE RpcProofs -----------------------------
(***************************************************************************)
(* What a call promises for every set of scenarios and every number of     *)
(* retries.  One inductive invariant, IInv, says which requests have been  *)
(* performed, where every answer comes from, and what the outcome was made *)
(* of.  AtMostOnce and Truthful follow from it; TypeOK and ErrorsKept with *)
(* what the tables of ErrorCodes make of an error, CloudKeyed and          *)
(* RoutedAsAsked with what Requests makes of a call, AnswerKept with what  *)
(* Answers makes of an object.                                             *)
(***************************************************************************)
EXTENDS RpcProps, SequenceTheorems, TLAPS

(* An attempt beyond the last is unsent, one that the SDK is working on or *)
(* has answered was performed, and a call that was refused or stopped on   *)
(* its way was not performed at all.                                       *)
Performed ==
  /\ performed \subseteq Sends
  /\ attempt > 0 => ~CreateGate(call) /\ ~KeyGate(call)
  /\ performed # {} => Refusal(call) = "" /\ attempt > 0
  /\ \A n \in Sends : stage[n] = "running" \/ answer[n] = Ok => n \in performed
  /\ \A n \in Sends : stage[n] = "unsent" => n \notin performed

Counted ==
  /\ phase \in {"idle", "waiting", "sleeping", "done"}
  /\ attempt \in 0 .. MaxRetries + 1
  /\ phase = "idle" => attempt = 0
  /\ phase # "idle" /\ attempt > 1 => attempt <= Attempts(call)
  /\ phase = "sleeping" => attempt < Attempts(call)
  /\ phase \in {"waiting", "sleeping"} => attempt >= 1
  /\ \A n \in Sends : n > attempt => stage[n] = "unsent"

(* The failures that the bridge may answer with *)
Failures ==
  (IF Refusal(call) = "" THEN {} ELSE {Failure(Refusal(call), "")})
    \cup (IF scenario.fault = NoFault THEN {} ELSE {Translate(scenario.fault)})

(* The only answers are Ok, a refusal and the translated fault. *)
Answered ==
  \A n \in Sends :
    IF stage[n] = "answered" THEN answer[n] \in {Ok} \cup Failures ELSE answer[n] = NoAnswer

Settled ==
  /\ phase # "done" => result = ""
  /\ result = "Ok" => attempt \in performed
  /\ result \notin {"", "Ok"} \cup Vague =>
       \/ (CreateGate(call) \/ KeyGate(call)) /\ result = "ConfigurationError"
       \/ \E a \in Failures : result = GoClass(GoCode(a))

IInv ==
  /\ scenario \in Scenarios
  /\ stage \in [Sends -> {"unsent", "sent", "running", "answered"}]
  /\ DOMAIN answer = Sends
  /\ Performed /\ Counted /\ Answered /\ Settled
-----------------------------------------------------------------------------
(* No error class of the client is mistaken for a result. *)
LEMMA ClassIsNotOk == ASSUME NEW code PROVE GoClass(code) # "Ok"
  BY DEF GoClass

(* A refusal of the bridge is not mistaken for a result. *)
LEMMA RefusalIsNotOk == ASSUME NEW code PROVE Failure(code, "") # Ok
  BY DEF Failure, Ok

(* What the bridge may answer depends on the scenario only. *)
LEMMA FailuresStay == ASSUME UNCHANGED scenario PROVE UNCHANGED <<call, Failures>>
  BY DEF call, Failures

(* A method that changes something gets one attempt. *)
LEMMA MutatingOnce == ASSUME call.method \in Mutating PROVE Attempts(call) = 1
  BY DEF Mutating, Attempts, RetrySafe

(* Unary makes at least one attempt, and no more than the transport allows. *)
LEMMA AttemptsBound == Attempts(call) \in 1 .. MaxRetries + 1
  BY RetriesAssumption DEF RetriesAssumption, Attempts

(* Nothing has been sent before the call starts. *)
LEMMA InitIInv == Init => IInv
<1> SUFFICES ASSUME Init PROVE IInv
  OBVIOUS
<1>1. NoAnswer # Ok
  BY DEF NoAnswer, Ok, Failure
<1>2. Performed
  <2>1. \A n \in Sends : stage[n] = "unsent" /\ answer[n] = NoAnswer
    BY DEF Init
  <2>2. attempt = 0 /\ performed = {}
    BY DEF Init
  <2> QED BY <1>1, <2>1, <2>2 DEF Performed
<1>3. Counted
  <2>1. attempt = 0 /\ phase = "idle"
    BY DEF Init
  <2>2. \A n \in Sends : stage[n] = "unsent"
    BY DEF Init
  <2>3. attempt \in 0 .. MaxRetries + 1
    BY <2>1, RetriesAssumption DEF RetriesAssumption
  <2> QED BY <2>1, <2>2, <2>3 DEF Counted
<1>4. Answered /\ Settled
  BY DEF Init, Answered, Settled, Sends
<1> QED BY <1>2, <1>3, <1>4 DEF Init, IInv, Sends

(* What has been sent counts as an attempt. *)
LEMMA SentCounts == ASSUME IInv, NEW n \in Sends, stage[n] # "unsent" PROVE n <= attempt
<1>1. ~(n > attempt)
  BY DEF IInv, Counted
<1>2. n \in Int /\ attempt \in Int
  BY RetriesAssumption DEF RetriesAssumption, IInv, Counted, Sends
<1> QED BY <1>1, <1>2

(* The client's steps leave the bridge's side alone, but for a new attempt. *)
LEMMA SendAttemptIInv ==
  ASSUME IInv, SendAttempt, phase \in {"idle", "sleeping"},
         phase = "idle" => ~CreateGate(call) /\ ~KeyGate(call)
  PROVE  IInv'
<1>1. attempt + 1 \in Sends /\ attempt + 1 <= Attempts(call)
  BY AttemptsBound, RetriesAssumption DEF RetriesAssumption, IInv, Counted, Sends
<1>2. stage' = [stage EXCEPT ![attempt + 1] = "sent"]
      /\ call' = call /\ Attempts(call)' = Attempts(call)
  BY DEF SendAttempt, call, Attempts
<1>3. Performed'
  <2>1. UNCHANGED <<scenario, answer, performed>> /\ UNCHANGED call /\ attempt' = attempt + 1
    BY <1>2 DEF SendAttempt
  <2>2. attempt > 0 \/ phase = "idle"
    BY DEF IInv, Counted
  <2>3. attempt' > 0
    BY <2>1, <1>1 DEF Sends
  <2>6. ~CreateGate(call) /\ ~KeyGate(call)
    BY <2>2 DEF IInv, Performed
  <2>4. \A n \in Sends : stage'[n] = "unsent" => stage[n] = "unsent"
    BY <1>2 DEF IInv
  <2>5. \A n \in Sends : stage'[n] = "running" => stage[n] = "running"
    BY <1>2 DEF IInv
  <2> QED BY <2>1, <2>3, <2>4, <2>5, <2>6 DEF IInv, Performed, call
<1>4. Counted'
  BY <1>1, <1>2, RetriesAssumption, AttemptsBound DEF RetriesAssumption, IInv, Counted,
     SendAttempt, Sends
<1>5. Answered'
  <2>1. UNCHANGED <<answer, Failures>>
    BY FailuresStay DEF SendAttempt
  <2>2. stage[attempt + 1] = "unsent"
    BY <1>1, RetriesAssumption DEF RetriesAssumption, IInv, Counted, Sends
  <2>3. \A n \in Sends : stage'[n] = "answered" <=> stage[n] = "answered"
    BY <1>1, <1>2, <2>2 DEF IInv
  <2> QED BY <2>1, <2>3 DEF IInv, Answered
<1>6. Settled'
  <2>1. result = "" /\ result' = "" /\ phase' = "waiting"
    BY DEF IInv, Settled, SendAttempt
  <2> QED BY <2>1 DEF Settled
<1> QED BY <1>1, <1>2, <1>3, <1>4, <1>5, <1>6 DEF IInv, SendAttempt

(* What the client makes of an answer is backed by the answer. *)
LEMMA ReceiveIInv == ASSUME IInv, Receive PROVE IInv'
<1> DEFINE a == answer[attempt]
<1>1. attempt \in Sends /\ stage[attempt] = "answered" /\ phase = "waiting"
  BY RetriesAssumption DEF RetriesAssumption, Receive, IInv, Counted, Sends
<1>2. \/ a = Ok /\ Return("Ok")
      \/ a # Ok /\ RetryOr(GoClass(GoCode(a)), RetryableStatus(StatusOf[a.code]))
  BY DEF Receive
<1>3. UNCHANGED <<scenario, attempt, stage, answer, performed, call, Failures>>
  BY FailuresStay DEF Receive
<1>4. phase' \in {"sleeping", "done"} /\ (phase' = "sleeping" => attempt < Attempts(call))
  BY <1>2 DEF Return, RetryOr
<1>5. Performed' /\ Answered'
  BY <1>3 DEF IInv, Performed, Answered
<1>6. Counted'
  BY <1>1, <1>3, <1>4 DEF IInv, Counted, call, Attempts, Sends
<1>7. Settled'
  <2>1. CASE a = Ok
    <3>1. attempt \in performed
      BY <1>1, <2>1 DEF IInv, Performed
    <3> QED BY <1>2, <1>3, <2>1, <3>1 DEF Return, Settled
  <2>2. CASE a # Ok
    <3>1. a \in Failures
      BY <1>1, <2>2 DEF IInv, Answered
    <3>2. GoClass(GoCode(a)) # "Ok"
      BY ClassIsNotOk
    <3>3. result' # "Ok" /\ (phase' # "done" => result' = "")
      BY <1>1, <1>2, <2>2, <3>2 DEF IInv, Settled, Return, RetryOr
    <3>4. result' \in {"", GoClass(GoCode(a))}
      BY <1>1, <1>2, <2>2 DEF IInv, Settled, Return, RetryOr
    <3> QED BY <1>3, <3>1, <3>3, <3>4 DEF Settled
  <2> QED BY <2>1, <2>2
<1> QED BY <1>3, <1>5, <1>6, <1>7 DEF IInv

(* The outcomes that say nothing about the call *)
LEMMA LeaveIInv ==
  ASSUME IInv, phase = "waiting", NEW outcome \in Vague, NEW retryable,
         RetryOr(outcome, retryable) \/ Return(outcome),
         UNCHANGED <<scenario, attempt, stage, answer, performed>>
  PROVE  IInv'
<1>1. UNCHANGED <<call, Failures>>
  BY FailuresStay
<1>2. phase' \in {"sleeping", "done"} /\ (phase' = "sleeping" => attempt < Attempts(call))
  BY DEF Return, RetryOr
<1>3. result' \in {"", outcome} /\ (phase' # "done" => result' = "")
  BY DEF IInv, Settled, Return, RetryOr
<1>4. Performed' /\ Answered'
  BY <1>1 DEF IInv, Performed, Answered, call
<1>5. Counted'
  BY <1>1, <1>2 DEF IInv, Counted, call, Attempts, Sends
<1>6. Settled'
  BY <1>3 DEF Settled, Vague
<1> QED BY <1>4, <1>5, <1>6 DEF IInv

(* A refused request does not reach the SDK; an accepted one does. *)
LEMMA ArriveIInv == ASSUME IInv, NEW n \in Sends, Arrive(n) PROVE IInv'
<1>1. stage[n] = "sent" /\ UNCHANGED <<scenario, phase, attempt, result, call, Failures>>
  BY FailuresStay DEF Arrive
<1>2. n <= attempt /\ attempt > 0
  BY <1>1, RetriesAssumption DEF RetriesAssumption, IInv, Counted, Sends
<1>3. CASE Refusal(call) # ""
  <2>1. /\ stage' = [stage EXCEPT ![n] = "answered"]
        /\ answer' = [answer EXCEPT ![n] = Failure(Refusal(call), "")]
        /\ UNCHANGED performed
    BY <1>3 DEF Arrive, Reply
  <2>2. Failure(Refusal(call), "") # Ok
    BY RefusalIsNotOk
  <2>3. performed = {}
    BY <1>3 DEF IInv, Performed
  <2>4. Performed'
    BY <1>1, <2>1, <2>2, <2>3 DEF IInv, Performed, call
  <2>5. Counted'
    BY <1>1, <1>2, <2>1 DEF IInv, Counted, call, Attempts
  <2>6. Answered'
    <3>1. Failure(Refusal(call), "") \in Failures
      BY <1>3 DEF Failures
    <3> QED BY <1>1, <2>1, <3>1 DEF IInv, Answered
  <2>7. Settled'
    BY <1>1, <2>1, <2>3 DEF IInv, Settled
  <2> QED BY <1>1, <2>1, <2>4, <2>5, <2>6, <2>7 DEF IInv
<1>4. CASE Refusal(call) = ""
  <2>1. /\ stage' = [stage EXCEPT ![n] = "running"]
        /\ performed' = performed \cup {n}
        /\ UNCHANGED answer
    BY <1>4 DEF Arrive
  <2>2. Performed'
    BY <1>1, <1>2, <1>4, <2>1 DEF IInv, Performed, call
  <2>3. Counted'
    BY <1>1, <1>2, <2>1 DEF IInv, Counted, call, Attempts
  <2>4. Answered'
    BY <1>1, <2>1 DEF IInv, Answered
  <2>5. Settled'
    BY <1>1, <2>1 DEF IInv, Settled
  <2> QED BY <1>1, <2>1, <2>2, <2>3, <2>4, <2>5 DEF IInv
<1> QED BY <1>3, <1>4

(* Only a request that reached the SDK is answered with what it said. *)
LEMMA SettleIInv == ASSUME IInv, NEW n \in Sends, Settle(n) PROVE IInv'
<1>1. stage[n] = "running"
      /\ UNCHANGED <<scenario, phase, attempt, performed, result, call, Failures>>
  BY FailuresStay DEF Settle
<1>2. n \in performed /\ n <= attempt
  BY <1>1, SentCounts DEF IInv, Performed
<1>3. PICK a \in {Ok} \cup Failures : Reply(n, a)
  BY DEF Settle, Failures
<1>4. stage' = [stage EXCEPT ![n] = "answered"] /\ answer' = [answer EXCEPT ![n] = a]
  BY <1>3 DEF Reply
<1>5. Performed'
  BY <1>1, <1>2, <1>4 DEF IInv, Performed, call
<1>6. Counted'
  BY <1>1, <1>2, <1>4 DEF IInv, Counted, call, Attempts
<1>7. Answered'
  BY <1>1, <1>3, <1>4 DEF IInv, Answered
<1>8. Settled'
  BY <1>1 DEF IInv, Settled
<1> QED BY <1>1, <1>4, <1>5, <1>6, <1>7, <1>8 DEF IInv

(* Every step of the client, the network and the bridge keeps IInv. *)
LEMMA NextIInv == IInv /\ [Next]_vars => IInv'
<1> SUFFICES ASSUME IInv, [Next]_vars PROVE IInv'
  OBVIOUS
<1>1. CASE Gated
  <2>1. phase = "idle" /\ phase' = "done" /\ result' = "ConfigurationError"
        /\ (CreateGate(call) \/ KeyGate(call))
        /\ UNCHANGED <<scenario, attempt, stage, answer, performed, call, Failures>>
    BY <1>1, FailuresStay DEF Gated, Return
  <2>2. Performed' /\ Answered'
    BY <2>1 DEF IInv, Performed, Answered, call
  <2>3. Counted'
    BY <2>1, RetriesAssumption DEF RetriesAssumption, IInv, Counted, call, Attempts, Sends
  <2>4. Settled'
    BY <2>1 DEF Settled, call
  <2> QED BY <2>1, <2>2, <2>3, <2>4 DEF IInv
<1>2. CASE Start
  BY <1>2, SendAttemptIInv DEF Start
<1>3. CASE Retry
  BY <1>3, SendAttemptIInv DEF Retry
<1>4. CASE Receive
  BY <1>4, ReceiveIInv
<1>5. CASE BodyCut
  BY <1>5, LeaveIInv DEF BodyCut, Vague
<1>6. CASE Disconnected
  <2>1. GoClass("network") = "NetworkError"
    BY DEF GoClass
  <2> QED BY <1>6, <2>1, LeaveIInv DEF Disconnected, Broken, Vague
<1>7. CASE TimedOut
  <2>1. GoClass("timeout") = "APITimeoutError"
    BY DEF GoClass
  <2> QED BY <1>7, <2>1, LeaveIInv DEF TimedOut, Broken, Vague
<1>8. ASSUME NEW n \in Sends, Arrive(n) \/ Settle(n) PROVE IInv'
  BY <1>8, ArriveIInv, SettleIInv
<1>9. CASE UNCHANGED vars
  BY <1>9, FailuresStay DEF vars, IInv, Performed, Counted, Answered, Settled, Attempts
<1> QED BY <1>1, <1>2, <1>3, <1>4, <1>5, <1>6, <1>7, <1>8, <1>9 DEF Next, Client, Bridge

(* IInv holds throughout every call. *)
LEMMA SpecIInv == Spec => []IInv
  BY InitIInv, NextIInv, PTL DEF Spec

-----------------------------------------------------------------------------
(* A call that changes something is executed at most once, however often   *)
(* the network fails and however many retries the transport is allowed.    *)
THEOREM ExecutedAtMostOnce == Spec => []AtMostOnce
<1>1. IInv => AtMostOnce
  <2> SUFFICES ASSUME IInv, call.method \in Mutating, NEW m \in performed, NEW n \in performed
               PROVE  m = n
    BY DEF AtMostOnce
  <2>1. attempt <= 1
    BY MutatingOnce, RetriesAssumption DEF RetriesAssumption, IInv, Counted
  <2>2. \A k \in performed : k \in Sends /\ k <= attempt
    BY SentCounts DEF IInv, Performed
  <2> QED BY <2>1, <2>2, RetriesAssumption DEF RetriesAssumption, IInv, Counted, Sends
<1> QED BY <1>1, SpecIInv, PTL

(* A result comes from an executed call, and an error that does not leave  *)
(* it open whether the call was executed says that it was not.             *)
THEOREM OutcomeIsTruthful == Spec => []Truthful
<1>1. IInv => Truthful
  BY DEF IInv, Settled, Performed, Truthful, Failures
<1> QED BY <1>1, SpecIInv, PTL

(* Where the tables hold a code, in one row only, Entry is that row. *)
LEMMA EntryIs ==
  ASSUME NEW table, NEW x, NEW k \in DOMAIN table, x \in table[k],
         \A l \in DOMAIN table : x \in table[l] => l = k
  PROVE  Known(table, x) /\ Entry(table, x) = k
  BY DEF Known, Entry

(* The rows of the bridge's tables, and of the client's switch *)
LEMMA ConnectRows ==
  /\ Known(CodeToConnect, "invalid_model") /\ Entry(CodeToConnect, "invalid_model") = "invalid_argument"
  /\ Known(CodeToConnect, "unauthenticated") /\ Entry(CodeToConnect, "unauthenticated") = "unauthenticated"
  /\ Known(CodeToConnect, "permission_denied") /\ Entry(CodeToConnect, "permission_denied") = "permission_denied"
  /\ Known(CodeToConnect, "agent_not_found") /\ Entry(CodeToConnect, "agent_not_found") = "not_found"
  /\ Known(CodeToConnect, "run_not_found") /\ Entry(CodeToConnect, "run_not_found") = "not_found"
  /\ Known(CodeToConnect, "unknown_agent") /\ Entry(CodeToConnect, "unknown_agent") = "not_found"
  /\ Known(CodeToConnect, "unknown_run") /\ Entry(CodeToConnect, "unknown_run") = "not_found"
  /\ Known(CodeToConnect, "rate_limited") /\ Entry(CodeToConnect, "rate_limited") = "resource_exhausted"
  /\ Known(CodeToConnect, "stream_buffer_overflow") /\ Entry(CodeToConnect, "stream_buffer_overflow") = "resource_exhausted"
  /\ Known(CodeToConnect, "agent_busy") /\ Entry(CodeToConnect, "agent_busy") = "failed_precondition"
<1>1. Known(CodeToConnect, "invalid_model") /\ Entry(CodeToConnect, "invalid_model") = "invalid_argument"
  BY EntryIs DEF CodeToConnect
<1>2. Known(CodeToConnect, "unauthenticated") /\ Entry(CodeToConnect, "unauthenticated") = "unauthenticated"
  BY EntryIs DEF CodeToConnect
<1>3. Known(CodeToConnect, "permission_denied") /\ Entry(CodeToConnect, "permission_denied") = "permission_denied"
  BY EntryIs DEF CodeToConnect
<1>4. Known(CodeToConnect, "agent_not_found") /\ Entry(CodeToConnect, "agent_not_found") = "not_found"
  BY EntryIs DEF CodeToConnect
<1>5. Known(CodeToConnect, "run_not_found") /\ Entry(CodeToConnect, "run_not_found") = "not_found"
  BY EntryIs DEF CodeToConnect
<1>6. Known(CodeToConnect, "unknown_agent") /\ Entry(CodeToConnect, "unknown_agent") = "not_found"
  BY EntryIs DEF CodeToConnect
<1>7. Known(CodeToConnect, "unknown_run") /\ Entry(CodeToConnect, "unknown_run") = "not_found"
  BY EntryIs DEF CodeToConnect
<1>8. Known(CodeToConnect, "rate_limited") /\ Entry(CodeToConnect, "rate_limited") = "resource_exhausted"
  BY EntryIs DEF CodeToConnect
<1>9. Known(CodeToConnect, "stream_buffer_overflow") /\ Entry(CodeToConnect, "stream_buffer_overflow") = "resource_exhausted"
  BY EntryIs DEF CodeToConnect
<1>10. Known(CodeToConnect, "agent_busy") /\ Entry(CodeToConnect, "agent_busy") = "failed_precondition"
  BY EntryIs DEF CodeToConnect
<1> QED BY <1>1, <1>2, <1>3, <1>4, <1>5, <1>6, <1>7, <1>8, <1>9, <1>10

(* The rows for errors known by their name *)
LEMMA NameRows ==
  /\ Known(NameToConnect, "AuthenticationError") /\ Entry(NameToConnect, "AuthenticationError") = "unauthenticated"
  /\ Known(NameToConnect, "ConfigurationError") /\ Entry(NameToConnect, "ConfigurationError") = "invalid_argument"
  /\ Known(NameToConnect, "RateLimitError") /\ Entry(NameToConnect, "RateLimitError") = "resource_exhausted"
<1>1. Known(NameToConnect, "AuthenticationError") /\ Entry(NameToConnect, "AuthenticationError") = "unauthenticated"
  BY EntryIs DEF NameToConnect
<1>2. Known(NameToConnect, "ConfigurationError") /\ Entry(NameToConnect, "ConfigurationError") = "invalid_argument"
  BY EntryIs DEF NameToConnect
<1>3. Known(NameToConnect, "RateLimitError") /\ Entry(NameToConnect, "RateLimitError") = "resource_exhausted"
  BY EntryIs DEF NameToConnect
<1> QED BY <1>1, <1>2, <1>3

(* The rows of the detail's codes *)
LEMMA ProtoRows ==
  /\ Known(CodeToProto, "unauthenticated") /\ Entry(CodeToProto, "unauthenticated") = "unauthorized"
  /\ Known(CodeToProto, "invalid_model") /\ Entry(CodeToProto, "invalid_model") = "invalid_model"
  /\ Known(CodeToProto, "permission_denied") /\ Entry(CodeToProto, "permission_denied") = "role_forbidden"
  /\ Known(CodeToProto, "agent_not_found") /\ Entry(CodeToProto, "agent_not_found") = "agent_not_found"
  /\ Known(CodeToProto, "unknown_agent") /\ Entry(CodeToProto, "unknown_agent") = "agent_not_found"
  /\ Known(CodeToProto, "run_not_found") /\ Entry(CodeToProto, "run_not_found") = "run_not_found"
  /\ Known(CodeToProto, "unknown_run") /\ Entry(CodeToProto, "unknown_run") = "run_not_found"
  /\ Known(CodeToProto, "rate_limited") /\ Entry(CodeToProto, "rate_limited") = "rate_limit_exceeded"
  /\ Known(CodeToProto, "agent_busy") /\ Entry(CodeToProto, "agent_busy") = "agent_busy"
<1>1. Known(CodeToProto, "unauthenticated") /\ Entry(CodeToProto, "unauthenticated") = "unauthorized"
  BY EntryIs DEF CodeToProto
<1>2. Known(CodeToProto, "invalid_model") /\ Entry(CodeToProto, "invalid_model") = "invalid_model"
  BY EntryIs DEF CodeToProto
<1>3. Known(CodeToProto, "permission_denied") /\ Entry(CodeToProto, "permission_denied") = "role_forbidden"
  BY EntryIs DEF CodeToProto
<1>4. Known(CodeToProto, "agent_not_found") /\ Entry(CodeToProto, "agent_not_found") = "agent_not_found"
  BY EntryIs DEF CodeToProto
<1>5. Known(CodeToProto, "unknown_agent") /\ Entry(CodeToProto, "unknown_agent") = "agent_not_found"
  BY EntryIs DEF CodeToProto
<1>6. Known(CodeToProto, "run_not_found") /\ Entry(CodeToProto, "run_not_found") = "run_not_found"
  BY EntryIs DEF CodeToProto
<1>7. Known(CodeToProto, "unknown_run") /\ Entry(CodeToProto, "unknown_run") = "run_not_found"
  BY EntryIs DEF CodeToProto
<1>8. Known(CodeToProto, "rate_limited") /\ Entry(CodeToProto, "rate_limited") = "rate_limit_exceeded"
  BY EntryIs DEF CodeToProto
<1>9. Known(CodeToProto, "agent_busy") /\ Entry(CodeToProto, "agent_busy") = "agent_busy"
  BY EntryIs DEF CodeToProto
<1> QED BY <1>1, <1>2, <1>3, <1>4, <1>5, <1>6, <1>7, <1>8, <1>9

(* The cases of the client's switch *)
LEMMA GoRows ==
  /\ Known(CodeToGo, "unauthorized") /\ Entry(CodeToGo, "unauthorized") = "authentication"
  /\ Known(CodeToGo, "unauthenticated") /\ Entry(CodeToGo, "unauthenticated") = "authentication"
  /\ Known(CodeToGo, "role_forbidden") /\ Entry(CodeToGo, "role_forbidden") = "permission_denied"
  /\ Known(CodeToGo, "rate_limit_exceeded") /\ Entry(CodeToGo, "rate_limit_exceeded") = "rate_limit"
  /\ Known(CodeToGo, "resource_exhausted") /\ Entry(CodeToGo, "resource_exhausted") = "rate_limit"
  /\ Known(CodeToGo, "invalid_argument") /\ Entry(CodeToGo, "invalid_argument") = "bad_request"
  /\ Known(CodeToGo, "invalid_model") /\ Entry(CodeToGo, "invalid_model") = "configuration"
  /\ Known(CodeToGo, "agent_busy") /\ Entry(CodeToGo, "agent_busy") = "agent_busy"
  /\ Known(CodeToGo, "agent_not_found") /\ Entry(CodeToGo, "agent_not_found") = "agent_not_found"
  /\ Known(CodeToGo, "run_not_found") /\ Entry(CodeToGo, "run_not_found") = "not_found"
  /\ Known(CodeToGo, "internal") /\ Entry(CodeToGo, "internal") = "internal"
<1>1. Known(CodeToGo, "unauthorized") /\ Entry(CodeToGo, "unauthorized") = "authentication"
  BY EntryIs DEF CodeToGo
<1>2. Known(CodeToGo, "unauthenticated") /\ Entry(CodeToGo, "unauthenticated") = "authentication"
  BY EntryIs DEF CodeToGo
<1>3. Known(CodeToGo, "role_forbidden") /\ Entry(CodeToGo, "role_forbidden") = "permission_denied"
  BY EntryIs DEF CodeToGo
<1>4. Known(CodeToGo, "rate_limit_exceeded") /\ Entry(CodeToGo, "rate_limit_exceeded") = "rate_limit"
  BY EntryIs DEF CodeToGo
<1>5. Known(CodeToGo, "resource_exhausted") /\ Entry(CodeToGo, "resource_exhausted") = "rate_limit"
  BY EntryIs DEF CodeToGo
<1>6. Known(CodeToGo, "invalid_argument") /\ Entry(CodeToGo, "invalid_argument") = "bad_request"
  BY EntryIs DEF CodeToGo
<1>7. Known(CodeToGo, "invalid_model") /\ Entry(CodeToGo, "invalid_model") = "configuration"
  BY EntryIs DEF CodeToGo
<1>8. Known(CodeToGo, "agent_busy") /\ Entry(CodeToGo, "agent_busy") = "agent_busy"
  BY EntryIs DEF CodeToGo
<1>9. Known(CodeToGo, "agent_not_found") /\ Entry(CodeToGo, "agent_not_found") = "agent_not_found"
  BY EntryIs DEF CodeToGo
<1>10. Known(CodeToGo, "run_not_found") /\ Entry(CodeToGo, "run_not_found") = "not_found"
  BY EntryIs DEF CodeToGo
<1>11. Known(CodeToGo, "internal") /\ Entry(CodeToGo, "internal") = "internal"
  BY EntryIs DEF CodeToGo
<1> QED BY <1>1, <1>2, <1>3, <1>4, <1>5, <1>6, <1>7, <1>8, <1>9, <1>10, <1>11


(* The codes that the bridge's table knows *)
LEMMA KnownCodes ==
  ASSUME NEW x
  PROVE  Known(CodeToConnect, x) <=>
           x \in {"invalid_model", "unauthenticated", "permission_denied", "not_found",
                  "agent_not_found", "run_not_found", "unknown_agent", "unknown_run",
                  "rate_limited", "stream_buffer_overflow", "integration_not_connected",
                  "repository_access", "agent_busy"}
  BY DEF Known, CodeToConnect

(* The detail has no code that the other table does not know. *)
LEMMA KnownDetails ==
  ASSUME NEW x
  PROVE  Known(CodeToProto, x) => Known(CodeToConnect, x) /\ x # "stream_buffer_overflow"
  BY KnownCodes DEF Known, CodeToProto

(* How an error goes over the wire, by its code *)
LEMMA CodeOnTheWire ==
  ASSUME NEW e, Known(CodeToConnect, e.code)
  PROVE  Translate(e) = Failure(Entry(CodeToConnect, e.code), ProtoOf(e.code))
  BY DEF Translate

(* How an error goes over the wire whose code the bridge does not know *)
LEMMA NameOnTheWire ==
  ASSUME NEW e, ~Known(CodeToConnect, e.code)
  PROVE  Translate(e) = IF Known(NameToConnect, e.name)
                        THEN Failure(Entry(NameToConnect, e.name), "")
                        ELSE Failure("internal", "")
<1>1. ProtoOf(e.code) = ""
  BY KnownDetails DEF ProtoOf
<1> QED BY <1>1 DEF Translate

(* What the client makes of a failure whose detail has a code it knows *)
LEMMA DetailRead ==
  /\ \A code : GoCode(Failure(code, "unauthorized")) = "authentication"
  /\ \A code : GoCode(Failure(code, "role_forbidden")) = "permission_denied"
  /\ \A code : GoCode(Failure(code, "rate_limit_exceeded")) = "rate_limit"
  /\ \A code : GoCode(Failure(code, "invalid_model")) = "configuration"
  /\ \A code : GoCode(Failure(code, "agent_busy")) = "agent_busy"
  /\ \A code : GoCode(Failure(code, "agent_not_found")) = "agent_not_found"
  /\ \A code : GoCode(Failure(code, "run_not_found")) = "not_found"
<1>1. \A code, proto : Failure(code, proto).code = code /\ Failure(code, proto).proto = proto
  BY DEF Failure
<1>2. ASSUME NEW code, NEW proto, proto # "", Known(CodeToGo, proto),
             proto \notin {"integration_not_connected", "repository_access", "pr_resolution_failed"}
      PROVE  GoCode(Failure(code, proto)) = Entry(CodeToGo, proto)
  BY <1>1, <1>2 DEF GoCode
<1>3. \A code : GoCode(Failure(code, "unauthorized")) = "authentication"
  BY <1>2, GoRows
<1>4. \A code : GoCode(Failure(code, "role_forbidden")) = "permission_denied"
  BY <1>2, GoRows
<1>5. \A code : GoCode(Failure(code, "rate_limit_exceeded")) = "rate_limit"
  BY <1>2, GoRows
<1>6. \A code : GoCode(Failure(code, "invalid_model")) = "configuration"
  BY <1>2, GoRows
<1>7. \A code : GoCode(Failure(code, "agent_busy")) = "agent_busy"
  BY <1>2, GoRows
<1>8. \A code : GoCode(Failure(code, "agent_not_found")) = "agent_not_found"
  BY <1>2, GoRows
<1>9. \A code : GoCode(Failure(code, "run_not_found")) = "not_found"
  BY <1>2, GoRows
<1> QED BY <1>3, <1>4, <1>5, <1>6, <1>7, <1>8, <1>9

(* What it makes of one without *)
LEMMA CodeRead ==
  /\ GoCode(Failure("unauthenticated", "")) = "authentication"
  /\ GoCode(Failure("invalid_argument", "")) = "bad_request"
  /\ GoCode(Failure("resource_exhausted", "")) = "rate_limit"
  /\ GoCode(Failure("internal", "")) = "internal"
<1>1. \A code : Failure(code, "").code = code /\ Failure(code, "").proto = ""
  BY DEF Failure
<1>2. ASSUME NEW code, Known(CodeToGo, code),
             code \notin {"integration_not_connected", "repository_access", "pr_resolution_failed"}
      PROVE  GoCode(Failure(code, "")) = Entry(CodeToGo, code)
  BY <1>1, <1>2 DEF GoCode
<1>3. GoCode(Failure("unauthenticated", "")) = "authentication"
  BY <1>2, GoRows
<1>4. GoCode(Failure("invalid_argument", "")) = "bad_request"
  BY <1>2, GoRows
<1>5. GoCode(Failure("resource_exhausted", "")) = "rate_limit"
  BY <1>2, GoRows
<1>6. GoCode(Failure("internal", "")) = "internal"
  BY <1>2, GoRows
<1> QED BY <1>3, <1>4, <1>5, <1>6

(* The class of an error with a code survives the way to the caller. *)
LEMMA CodeKept ==
  ASSUME NEW e, ~Lost(e), Known(CodeToConnect, e.code)
  PROVE  GoClass(GoCode(Translate(e))) \in Meant(e)
<1>1. Translate(e) = Failure(Entry(CodeToConnect, e.code), ProtoOf(e.code))
  BY CodeOnTheWire
<1>2. ProtoOf("stream_buffer_overflow") = ""
  BY KnownDetails DEF ProtoOf
<1>3. \A x : Known(CodeToProto, x) => ProtoOf(x) = Entry(CodeToProto, x)
  BY DEF ProtoOf
<1>4. CASE e.code = "invalid_model"
  <2>1. GoCode(Translate(e)) = "configuration"
    BY <1>1, <1>3, <1>4, ConnectRows, ProtoRows, DetailRead
  <2> QED BY <1>4, <2>1 DEF GoClass, Meant
<1>5. CASE e.code = "unauthenticated"
  <2>1. GoCode(Translate(e)) = "authentication"
    BY <1>1, <1>3, <1>5, ConnectRows, ProtoRows, DetailRead
  <2> QED BY <1>5, <2>1 DEF GoClass, Meant
<1>6. CASE e.code = "permission_denied"
  <2>1. GoCode(Translate(e)) = "permission_denied"
    BY <1>1, <1>3, <1>6, ConnectRows, ProtoRows, DetailRead
  <2> QED BY <1>6, <2>1 DEF GoClass, Meant
<1>7. CASE e.code \in {"agent_not_found", "unknown_agent"}
  <2>1. GoCode(Translate(e)) = "agent_not_found"
    BY <1>1, <1>3, <1>7, ConnectRows, ProtoRows, DetailRead
  <2> QED BY <1>7, <2>1 DEF GoClass, Meant
<1>8. CASE e.code \in {"run_not_found", "unknown_run"}
  <2>1. GoCode(Translate(e)) = "not_found"
    BY <1>1, <1>3, <1>8, ConnectRows, ProtoRows, DetailRead
  <2> QED BY <1>8, <2>1 DEF GoClass, Meant
<1>9. CASE e.code \in {"rate_limited", "stream_buffer_overflow"}
  <2>1. e.code = "rate_limited" => GoCode(Translate(e)) = "rate_limit"
    BY <1>1, <1>3, ConnectRows, ProtoRows, DetailRead
  <2>2. e.code = "stream_buffer_overflow" => GoCode(Translate(e)) = "rate_limit"
    BY <1>1, <1>2, ConnectRows, CodeRead
  <2>3. GoCode(Translate(e)) = "rate_limit"
    BY <1>9, <2>1, <2>2
  <2> QED BY <1>9, <2>3 DEF GoClass, Meant
<1>10. CASE e.code = "agent_busy"
  <2>1. GoCode(Translate(e)) = "agent_busy"
    BY <1>1, <1>3, <1>10, ConnectRows, ProtoRows, DetailRead
  <2> QED BY <1>10, <2>1 DEF GoClass, Meant
<1> QED BY KnownCodes, <1>4, <1>5, <1>6, <1>7, <1>8, <1>9, <1>10 DEF Lost

(* So does the class of an error that is known by its name, or not at all. *)
LEMMA NameKept ==
  ASSUME NEW e, ~Lost(e), ~Known(CodeToConnect, e.code)
  PROVE  GoClass(GoCode(Translate(e))) \in Meant(e)
<1>1. e.code \notin {"invalid_model", "unauthenticated", "permission_denied",
                     "agent_not_found", "run_not_found", "unknown_agent", "unknown_run",
                     "rate_limited", "stream_buffer_overflow", "agent_busy"}
  BY KnownCodes
<1>2. e.name \notin {"AgentNotFoundError", "AgentBusyError"}
  BY DEF Lost
<1>3. CASE e.name = "AuthenticationError"
  <2>1. Translate(e) = Failure("unauthenticated", "")
    BY <1>3, NameOnTheWire, NameRows
  <2>2. GoCode(Translate(e)) = "authentication"
    BY <2>1, CodeRead
  <2> QED BY <1>1, <1>3, <2>2 DEF GoClass, Meant
<1>4. CASE e.name = "ConfigurationError"
  <2>1. Translate(e) = Failure("invalid_argument", "")
    BY <1>4, NameOnTheWire, NameRows
  <2>2. GoCode(Translate(e)) = "bad_request"
    BY <2>1, CodeRead
  <2> QED BY <1>1, <1>4, <2>2 DEF GoClass, Meant
<1>5. CASE e.name = "RateLimitError"
  <2>1. Translate(e) = Failure("resource_exhausted", "")
    BY <1>5, NameOnTheWire, NameRows
  <2>2. GoCode(Translate(e)) = "rate_limit"
    BY <2>1, CodeRead
  <2> QED BY <1>1, <1>5, <2>2 DEF GoClass, Meant
<1>6. CASE e.name \notin {"AuthenticationError", "ConfigurationError", "RateLimitError"}
  <2>1. ~Known(NameToConnect, e.name)
    BY <1>2, <1>6 DEF Known, NameToConnect
  <2>2. Translate(e) = Failure("internal", "")
    BY <2>1, NameOnTheWire
  <2>3. GoCode(Translate(e)) = "internal"
    BY <2>2, CodeRead
  <2> QED BY <1>1, <1>6, <2>3 DEF GoClass, Meant
<1> QED BY <1>3, <1>4, <1>5, <1>6

(* Every answer has a status. *)
LEMMA TranslatedHasStatus ==
  ASSUME NEW e PROVE Translate(e).code \in DOMAIN StatusOf
<1>1. \A x : Known(CodeToConnect, x) => Entry(CodeToConnect, x) \in DOMAIN CodeToConnect
  BY DEF Known, Entry
<1>2. \A x : Known(NameToConnect, x) => Entry(NameToConnect, x) \in DOMAIN NameToConnect
  BY DEF Known, Entry
<1>3. /\ DOMAIN CodeToConnect \subseteq DOMAIN StatusOf
      /\ DOMAIN NameToConnect \subseteq DOMAIN StatusOf
      /\ "internal" \in DOMAIN StatusOf
  BY DEF CodeToConnect, NameToConnect, StatusOf
<1>4. \A x, y : Failure(x, y).code = x
  BY DEF Failure
<1> QED BY <1>1, <1>2, <1>3, <1>4 DEF Translate

(* The refusal of a handler is the code of one of its checks. *)
LEMMA FirstFailingIs ==
  ASSUME NEW checks, NEW n \in 0 .. 6, DOMAIN checks = 1 .. n
  PROVE  FirstFailing(checks) = "" \/ \E i \in 1 .. n : FirstFailing(checks) = checks[i][2]
<1> DEFINE failing == {i \in DOMAIN checks : checks[i][1]}
           first == CHOOSE i \in failing : \A j \in failing : i <= j
<1>1. CASE failing = {}
  BY <1>1 DEF FirstFailing
<1>2. CASE failing # {}
  <2>1. \E i \in failing : \A j \in failing : i <= j
    <3>1. \A i \in failing : i \in 1 .. 6
      OBVIOUS
    <3> HIDE DEF failing
    <3>2. CASE 1 \in failing
      BY <3>1, <3>2
    <3>3. CASE 1 \notin failing /\ 2 \in failing
      BY <3>1, <3>3
    <3>4. CASE 1 \notin failing /\ 2 \notin failing /\ 3 \in failing
      BY <3>1, <3>4
    <3>5. CASE 1 \notin failing /\ 2 \notin failing /\ 3 \notin failing /\ 4 \in failing
      BY <3>1, <3>5
    <3>6. CASE /\ 1 \notin failing /\ 2 \notin failing /\ 3 \notin failing /\ 4 \notin failing
               /\ 5 \in failing
      BY <3>1, <3>6
    <3>7. CASE \A i \in failing : i = 6
      BY <1>2, <3>1, <3>7
    <3> QED BY <3>1, <3>2, <3>3, <3>4, <3>5, <3>6, <3>7
  <2>2. first \in failing
    BY <2>1
  <2>3. FirstFailing(checks) = checks[first][2]
    BY <1>2 DEF FirstFailing
  <2> QED BY <2>2, <2>3
<1> QED BY <1>1, <1>2

(* The codes with which the bridge refuses a request, and its checks *)
Refusals == {"unauthenticated", "unimplemented", "invalid_argument", "failed_precondition",
             "not_found"}
Checks == BOOLEAN \X (Refusals \cup {""})

(* Of up to six checks, the first that fails gives one of these codes. *)
LEMMA FirstFailingCode ==
  ASSUME NEW checks \in Seq(Checks), Len(checks) <= 6
  PROVE  FirstFailing(checks) \in Refusals \cup {""}
<1>1. PICK n \in 0 .. 6 : DOMAIN checks = 1 .. n /\ checks \in [1 .. n -> Checks]
  <2>1. /\ Len(checks) \in Nat /\ checks \in [1 .. Len(checks) -> Checks]
        /\ DOMAIN checks = 1 .. Len(checks)
    BY LenProperties
  <2>2. Len(checks) \in 0 .. 6
    BY <2>1
  <2> QED BY <2>1, <2>2
<1>2. \A i \in 1 .. n : checks[i][2] \in Refusals \cup {""}
  BY <1>1 DEF Checks
<1>3. FirstFailing(checks) = "" \/ \E i \in 1 .. n : FirstFailing(checks) = checks[i][2]
  BY <1>1, FirstFailingIs
<1> QED BY <1>2, <1>3

(* A list of three checks *)
LEMMA ThreeChecks ==
  ASSUME NEW x \in Checks, NEW y \in Checks, NEW z \in Checks
  PROVE  <<x, y, z>> \in Seq(Checks) /\ Len(<<x, y, z>>) = 3
  OBVIOUS

(* A local store is refused with one of these codes. *)
LEMMA StoreCodes == ASSUME NEW store PROVE StoreCode(store) \in Refusals \cup {""}
  BY DEF StoreCode, Refusals

(* The checks of tools and stores *)
LEMMA OptionsChecked ==
  ASSUME NEW o
  PROVE  OptionChecks(o) \in Seq(Checks) /\ Len(OptionChecks(o)) = 3
<1>1. PICK x : x = <<o.cloud /\ o.tools, "invalid_argument">>
  OBVIOUS
<1>2. PICK y : y = <<o.tools /\ ~o.callback, "failed_precondition">>
  OBVIOUS
<1>3. PICK z : z = <<o.local /\ StoreCode(o.store) # "", StoreCode(o.store)>>
  OBVIOUS
<1>4. x \in Checks /\ y \in Checks
  BY <1>1, <1>2 DEF Checks, Refusals
<1>5. z \in Checks
  <2>1. PICK code \in Refusals \cup {""} : code = StoreCode(o.store)
    BY StoreCodes
  <2>2. z = <<o.local /\ code # "", code>>
    BY <1>3, <2>1
  <2> QED BY <2>2 DEF Checks
<1>6. OptionChecks(o) = <<x, y, z>>
  BY <1>1, <1>2, <1>3 DEF OptionChecks
<1> QED BY <1>4, <1>5, <1>6, ThreeChecks

(* Every refusal of a handler is one of Refusals. *)
LEMMA RefusalCodes == ASSUME NEW c PROVE Refusal(c) \in Refusals \cup {""}
<1>1. PICK options \in Seq(Checks) : options = OptionChecks(c.opts) /\ Len(options) = 3
  BY OptionsChecked
<1>2. CreateCode(c) \in Refusals \cup {""}
  <2>1. PICK x : x = <<IdempotencyKey(c) /\ ~c.opts.cloud, "unimplemented">>
    OBVIOUS
  <2>2. PICK y : y = <<c.opts.envVars # "none" /\ c.opts.agentId, "invalid_argument">>
    OBVIOUS
  <2>3. PICK z : z = <<c.opts.envVars = "reserved", "invalid_argument">>
    OBVIOUS
  <2>4. x \in Checks /\ y \in Checks /\ z \in Checks
    BY <2>1, <2>2, <2>3 DEF Checks, Refusals
  <2>5. PICK first : first = <<x, y, z>>
    OBVIOUS
  <2>6. first \in Seq(Checks) /\ Len(first) = 3
    BY <2>4, <2>5
  <2>7. /\ first \o options \in Seq(Checks)
        /\ Len(first \o options) = Len(first) + Len(options)
    BY ONLY <1>1, <2>6, ConcatProperties
  <2>8. Len(first \o options) <= 6
    <3>1. Len(first \o options) = 6
      BY ONLY <1>1, <2>6, <2>7
    <3> QED BY <3>1
  <2>9. CreateCode(c) = FirstFailing(first \o options)
    BY <1>1, <2>1, <2>2, <2>3, <2>5 DEF CreateCode
  <2> QED BY <2>7, <2>8, <2>9, FirstFailingCode
<1>3. ResumeCode(c) \in Refusals \cup {""}
  <2>1. ResumeCode(c) = FirstFailing(options)
    BY <1>1 DEF ResumeCode
  <2>2. Len(options) <= 6
    BY <1>1
  <2> QED BY <2>1, <2>2, FirstFailingCode
<1>4. LiveAgentCode(c) \in Refusals \cup {""}
  <2>1. PICK x : x = <<~c.known, "not_found">>
    OBVIOUS
  <2>2. PICK y : y = <<c.method = "Send" /\ IdempotencyKey(c) /\ c.id # "cloud", "unimplemented">>
    OBVIOUS
  <2>3. PICK z : z = <<c.method = "Send" /\ c.opts.urlImage /\ c.id # "cloud", "invalid_argument">>
    OBVIOUS
  <2>4. x \in Checks /\ y \in Checks /\ z \in Checks
    BY <2>1, <2>2, <2>3 DEF Checks, Refusals
  <2>5. PICK first : first = <<x, y, z>>
    OBVIOUS
  <2>6. first \in Seq(Checks) /\ Len(first) = 3
    BY <2>4, <2>5
  <2>7. LiveAgentCode(c) = FirstFailing(first)
    BY <2>1, <2>2, <2>3, <2>5 DEF LiveAgentCode
  <2>8. Len(first) <= 6
    BY <2>6
  <2> QED BY <2>6, <2>7, <2>8, FirstFailingCode
<1>5. \A x \in {"", "unauthenticated", "unimplemented", "invalid_argument", "not_found"} :
        x \in Refusals \cup {""}
  BY DEF Refusals
<1> QED BY <1>2, <1>3, <1>4, <1>5 DEF Refusal

(* Every refusal has a status. *)
LEMMA RefusalHasStatus == Refusals \subseteq DOMAIN StatusOf
  BY DEF Refusals, StatusOf

(* Every answer has a code with an HTTP status, and every outcome is one   *)
(* of the error classes of cursor/errors.go.                               *)
THEOREM TypeCorrect == Spec => []TypeOK
<1>1. IInv => TypeOK
  <2> SUFFICES ASSUME IInv PROVE TypeOK
    OBVIOUS
  <2>1. \A a \in Failures : a.code \in DOMAIN StatusOf
    <3>1. Refusal(call) \in Refusals \cup {""}
      BY RefusalCodes
    <3>2. Failure(Refusal(call), "").code = Refusal(call)
      BY DEF Failure
    <3> QED BY <3>1, <3>2, RefusalHasStatus, TranslatedHasStatus DEF Failures
  <2>2. \A n \in Sends :
          \/ answer[n] = NoAnswer /\ stage[n] # "answered"
          \/ stage[n] = "answered" /\ (answer[n] = Ok \/ answer[n].code \in DOMAIN StatusOf)
    BY <2>1 DEF IInv, Answered
  <2>3. result \in Outcomes
    <3>1. \A code : GoClass(code) \in Outcomes
      BY DEF GoClass, Outcomes
    <3>2. CASE result \in {"", "Ok"} \cup Vague
      BY <3>2 DEF Outcomes, Vague
    <3>3. CASE result \notin {"", "Ok"} \cup Vague
      BY <3>1, <3>3 DEF IInv, Settled, Outcomes
    <3> QED BY <3>2, <3>3
  <2> QED BY <2>2, <2>3 DEF TypeOK, IInv, Counted, Performed
<1> QED BY <1>1, SpecIInv, PTL

(* The caller gets the class of the SDK's error, or knows nothing of it;   *)
(* the errors of Lost are the only ones that the tables disagree on.       *)
THEOREM ErrorClassKept == Spec => []ErrorsKept
<1>1. IInv => ErrorsKept
  <2> SUFFICES ASSUME IInv, performed # {}, ~Lost(scenario.fault),
                      result \notin {"", "Ok"} \cup Vague
               PROVE  result \in Meant(scenario.fault)
    BY DEF ErrorsKept
  <2>1. Refusal(call) = "" /\ ~CreateGate(call) /\ ~KeyGate(call)
    BY DEF IInv, Performed
  <2>2. result = GoClass(GoCode(Translate(scenario.fault)))
    BY <2>1 DEF IInv, Settled, Failures
  <2> QED BY <2>2, CodeKept, NameKept
<1> QED BY <1>1, SpecIInv, PTL

-----------------------------------------------------------------------------
(* The bridge refuses a catalog call without a key. *)
LEMMA CatalogNeedsKey ==
  ASSUME NEW c, c.method \in CatalogMethods, c.token \in BOOLEAN, Refusal(c) = ""
  PROVE  KeyOwner(c) = "caller"
  BY DEF Refusal, KeyOwner,
     AgentOperations, LiveAgentMethods, RunMethods, ListMethods, CatalogMethods, ControlMethods

(* The two classifications of a call, the client's by its wire message and *)
(* the bridge's by what it hands to the SDK, agree on what may go to the   *)
(* cloud.                                                                  *)
LEMMA KeyedByGate ==
  ASSUME NEW c, NEW t, t = SdkTarget(c), c.method \in Methods,
         c.method \in CatalogMethods => KeyOwner(c) = "caller",
         c.id \in {"local", "cloud"},
         ~c.fallback, ~KeyGate(c), ~Unkeyed(c), t.runtime \in {"cloud", "auto"}
  PROVE  t.key = "caller"
<1> DEFINE k == KeyOwner(c)
<1>1. IsCloudAgentRPC(c) => k = "caller"
  BY DEF KeyGate, KeyOwner
<1>2. CASE c.method \in {"CreateAgent", "ResumeAgent"}
  <2>1. t = AgentTarget(c)
    BY <1>2 DEF SdkTarget,
       AgentOperations, LiveAgentMethods, RunMethods, ListMethods, CatalogMethods, ControlMethods
  <2>2. PICK r, d : t = [runtime |-> r, cwd |-> d, key |-> k]
                    /\ (c.opts.cloud \/ (c.method = "ResumeAgent" /\ c.id = "cloud") \/ r = "local")
    BY <2>1 DEF AgentTarget, Target
  <2>3. IsCloudAgentRPC(c)
    BY <1>2, <2>2 DEF IsCloudAgentRPC
  <2> QED BY <1>1, <2>2, <2>3
<1>3. CASE c.method \in ListMethods
  <2>1. t = ListAgentsTarget(c) \/ t = RunsTarget(c)
    BY <1>3 DEF SdkTarget,
       AgentOperations, LiveAgentMethods, RunMethods, ListMethods, CatalogMethods, ControlMethods
  <2>2. CASE Runtime(c) = "CLOUD"
    <3>1. t = [runtime |-> "cloud", cwd |-> NoCwd, key |-> k]
      BY <2>1, <2>2 DEF ListAgentsTarget, RunsTarget, Target
    <3>2. c.runtime = "RUNTIME_CLOUD"
      BY <2>2 DEF Runtime
    <3>3. IsCloudAgentRPC(c)
      BY <1>3, <3>2 DEF IsCloudAgentRPC
    <3> QED BY <1>1, <3>1, <3>3
  <2>3. CASE Runtime(c) # "CLOUD"
    <3>1. c.method = "ListAgents" \/ Runtime(c) = "LOCAL"
      BY <1>3, <2>3 DEF Unkeyed, Runtime, ListMethods
    <3>2. c.method = "ListAgents" => t = ListAgentsTarget(c)
      BY DEF SdkTarget,
         AgentOperations, LiveAgentMethods, RunMethods, ListMethods, CatalogMethods, ControlMethods
    <3>3. PICK d : t = [runtime |-> "local", cwd |-> d, key |-> "bridge"]
      BY <2>1, <2>3, <3>1, <3>2 DEF ListAgentsTarget, RunsTarget, Target
    <3> QED BY <3>3
  <2> QED BY <2>2, <2>3
<1>4. CASE c.method \in AgentOperations
  <2>1. t = [runtime |-> c.id, cwd |-> Cwd(c), key |-> k]
    BY <1>4 DEF SdkTarget, Target,
       AgentOperations, LiveAgentMethods, RunMethods, ListMethods, CatalogMethods, ControlMethods
  <2>2. CASE c.id = "cloud"
    <3>1. IsCloudAgentRPC(c)
      BY <1>4, <2>2 DEF IsCloudAgentRPC
    <3> QED BY <1>1, <2>1, <3>1
  <2>3. CASE c.id # "cloud"
    BY <2>1, <2>3
  <2> QED BY <2>2, <2>3
<1>5. CASE c.method \in RunMethods
  <2>1. IsCloudAgentRPC(c) /\ k = "bridge"
    BY <1>5 DEF IsCloudAgentRPC, OptionsKey, KeyOwner
  <2> QED BY <1>1, <2>1
<1>6. CASE c.method \in CatalogMethods
  <2>1. t = [runtime |-> "cloud", cwd |-> NoCwd, key |-> k]
    BY <1>6 DEF SdkTarget, Target,
       AgentOperations, LiveAgentMethods, RunMethods, ListMethods, CatalogMethods, ControlMethods
  <2> QED BY <1>6, <2>1
<1>7. CASE c.method \in LiveAgentMethods \cup ControlMethods
  <2>1. t = [runtime |-> "live", cwd |-> NoCwd, key |-> "bridge"]
    BY <1>7 DEF SdkTarget, LiveTarget, Target,
       AgentOperations, LiveAgentMethods, RunMethods, ListMethods, CatalogMethods, ControlMethods
  <2> QED BY <2>1
<1> QED BY <1>2, <1>3, <1>4, <1>5, <1>6, <1>7 DEF Methods, AgentMethods

(* A client that may not fall back on the environment asks for nothing in  *)
(* the cloud without a key of the caller's, but for the calls of Unkeyed.  *)
THEOREM CloudNeedsKey == Spec => []CloudKeyed
<1>1. IInv => CloudKeyed
  <2> SUFFICES ASSUME IInv, performed # {}, ~call.fallback, ~Unkeyed(call),
                      SdkTarget(call).runtime \in {"cloud", "auto"}
               PROVE  SdkTarget(call).key = "caller"
    BY DEF CloudKeyed
  <2>1. Refusal(call) = "" /\ ~KeyGate(call)
    BY DEF IInv, Performed
  <2>2. call.method \in Methods /\ call.token \in BOOLEAN /\ call.id \in {"local", "cloud"}
    BY ScenariosAssumption DEF ScenariosAssumption, IInv, call
  <2> QED BY <2>1, <2>2, KeyedByGate, CatalogNeedsKey
<1> QED BY <1>1, SpecIInv, PTL

-----------------------------------------------------------------------------
(* What the bridge makes of a call asks for the runtime and the directory  *)
(* that the caller meant.                                                  *)
LEMMA RoutedByCall ==
  ASSUME NEW c, NEW t, t = SdkTarget(c), c.method \in Methods, ~Misrouted(c), t # LiveTarget
  PROVE  /\ Asked(c) \in {"any", t.runtime}
         /\ c.method \in AgentMethods /\ t.runtime = "local" =>
              t.cwd = IF c.cwd = "" THEN DefaultCwd ELSE c.cwd
         /\ t.runtime = "cloud" => t.cwd \in {NoCwd, c.cwd}
<1>1. CASE c.method \in {"CreateAgent", "ResumeAgent"}
  <2>1. t = AgentTarget(c)
    BY <1>1 DEF SdkTarget,
       AgentOperations, LiveAgentMethods, RunMethods, ListMethods, CatalogMethods, ControlMethods
  <2>2. Asked(c) = IF c.opts.cloud \/ (c.method = "ResumeAgent" /\ c.id = "cloud")
                   THEN "cloud" ELSE "local"
    BY <1>1 DEF Asked, ListMethods, AgentOperations
  <2>3. t.runtime = Asked(c) /\ t.cwd = IF c.opts.cloud THEN c.cwd ELSE Cwd(c)
    BY <2>1, <2>2 DEF AgentTarget, Target
  <2>4. CASE c.opts.cloud
    BY <2>2, <2>3, <2>4
  <2>5. CASE ~c.opts.cloud
    <3>1. Asked(c) = "local"
      BY <1>1, <2>2, <2>5 DEF Misrouted
    <3> QED BY <2>3, <2>5, <3>1 DEF Cwd
  <2> QED BY <2>4, <2>5
<1>2. CASE c.method = "ListAgents"
  <2>1. t = ListAgentsTarget(c)
    BY <1>2 DEF SdkTarget, AgentOperations, CatalogMethods
  <2>2. Asked(c) = IF Runtime(c) = "UNSPECIFIED" THEN "any"
                   ELSE IF Runtime(c) = "CLOUD" THEN "cloud" ELSE "local"
    BY <1>2 DEF Asked, ListMethods, AgentOperations
  <2>3. CASE Runtime(c) = "CLOUD"
    <3>1. t.runtime = "cloud" /\ t.cwd = NoCwd
      BY <2>1, <2>3 DEF ListAgentsTarget, Target
    <3> QED BY <2>2, <2>3, <3>1
  <2>4. CASE Runtime(c) = "LOCAL"
    <3>1. t.runtime = "local" /\ t.cwd = Cwd(c)
      BY <2>1, <2>4 DEF ListAgentsTarget, Target
    <3> QED BY <2>2, <2>4, <3>1 DEF Cwd
  <2>5. CASE Runtime(c) = "UNSPECIFIED"
    <3>1. t.runtime = "local" /\ t.cwd = DefaultCwd
      BY <2>1, <2>5 DEF ListAgentsTarget, Target
    <3>2. c.cwd = ""
      BY <1>2, <2>5 DEF Misrouted
    <3> QED BY <2>2, <2>5, <3>1, <3>2
  <2> QED BY <2>3, <2>4, <2>5 DEF Runtime
<1>3. CASE c.method \in {"ListRuns", "GetRun"}
  <2>1. t = RunsTarget(c)
    BY <1>3 DEF SdkTarget, AgentOperations, CatalogMethods
  <2>2. Asked(c) = IF Runtime(c) = "UNSPECIFIED" THEN "any"
                   ELSE IF Runtime(c) = "CLOUD" THEN "cloud" ELSE "local"
    BY <1>3 DEF Asked, ListMethods, AgentOperations
  <2>3. CASE Runtime(c) = "CLOUD"
    <3>1. t.runtime = "cloud" /\ t.cwd = NoCwd
      BY <2>1, <2>3 DEF RunsTarget, Target
    <3> QED BY <2>2, <2>3, <3>1
  <2>4. CASE Runtime(c) = "LOCAL"
    <3>1. t.runtime = "local" /\ t.cwd = Cwd(c)
      BY <2>1, <2>4 DEF RunsTarget, Target
    <3> QED BY <2>2, <2>4, <3>1 DEF Cwd
  <2>5. CASE Runtime(c) = "UNSPECIFIED"
    <3>1. t.runtime = "auto" /\ t.cwd = Cwd(c)
      BY <2>1, <2>5 DEF RunsTarget, Target
    <3> QED BY <2>2, <2>5, <3>1
  <2> QED BY <2>3, <2>4, <2>5 DEF Runtime
<1>4. CASE c.method \in AgentOperations
  <2>1. t.runtime = c.id /\ t.cwd = Cwd(c)
    BY <1>4 DEF SdkTarget, Target,
       AgentOperations, LiveAgentMethods, RunMethods, ListMethods, CatalogMethods, ControlMethods
  <2>2. Asked(c) = c.id
    BY <1>4 DEF Asked, AgentOperations, ListMethods
  <2> QED BY <1>4, <2>1, <2>2 DEF Cwd, Misrouted
<1>5. CASE c.method \in CatalogMethods
  <2>1. t.runtime = "cloud" /\ t.cwd = NoCwd
    BY <1>5 DEF SdkTarget, Target,
       AgentOperations, LiveAgentMethods, RunMethods, ListMethods, CatalogMethods, ControlMethods
  <2>2. Asked(c) = "any"
    BY <1>5 DEF Asked, AgentOperations, ListMethods, CatalogMethods
  <2> QED BY <2>1, <2>2
<1>6. CASE c.method \in LiveAgentMethods \cup ControlMethods \cup RunMethods
  <2>1. ~(c.method \in {"CancelRun", "ObserveRun"} /\ ~c.known)
    BY DEF Misrouted
  <2>2. t = LiveTarget
    BY <1>6, <2>1 DEF SdkTarget,
       AgentOperations, LiveAgentMethods, RunMethods, ListMethods, CatalogMethods, ControlMethods
  <2> QED BY <2>2
<1>7. c.method \in ListMethods => c.method \in {"ListAgents", "ListRuns", "GetRun"}
  BY DEF ListMethods
<1> QED BY <1>1, <1>2, <1>3, <1>4, <1>5, <1>6, <1>7 DEF Methods, AgentMethods

(* But for the calls of Misrouted, the SDK is asked for the runtime and    *)
(* the directory that the caller meant.                                    *)
THEOREM RoutedRight == Spec => []RoutedAsAsked
<1>1. IInv => RoutedAsAsked
  <2> SUFFICES ASSUME IInv PROVE RoutedAsAsked
    OBVIOUS
  <2>1. call.method \in Methods
    BY ScenariosAssumption DEF ScenariosAssumption, IInv, call
  <2> QED BY <2>1, RoutedByCall DEF RoutedAsAsked
<1> QED BY <1>1, SpecIInv, PTL

(* Dividing by the length of a chunk, as the loop over the offsets does.   *)
LEMMA Rounded == ASSUME NEW a \in Nat, NEW c \in Nat \ {0}
  PROVE a \div c \in Nat /\ c * (a \div c) <= a /\ a < c * (a \div c) + c
  OBVIOUS

LEMMA Monotone == ASSUME NEW i \in Nat, NEW j \in Nat, NEW c \in Nat, i <= j PROVE i * c <= j * c
  OBVIOUS

(* The chunks of a buffer are as many as it takes: each but the last is    *)
(* full, and none is empty.                                                *)
LEMMA ChunksAreWhole ==
  ASSUME NEW size \in Nat, NEW chunk \in Nat \ {0}
  PROVE /\ Whole(Chunks(size, chunk), size)
        /\ \A i \in DOMAIN Chunks(size, chunk) :
             Chunks(size, chunk)[i].to - Chunks(size, chunk)[i].from \in 1 .. chunk
<1> DEFINE n == (size + chunk - 1) \div chunk
           cs == Chunks(size, chunk)
<1>1. n \in Nat /\ chunk * n < size + chunk /\ size + chunk - 1 < chunk * n + chunk
  <2>1. size + chunk - 1 \in Nat
    OBVIOUS
  <2> QED BY <2>1, Rounded
<1>2. chunk * n >= size
  BY <1>1
<1>3. DOMAIN cs = 1 .. n
  BY DEF Chunks
<1>4. ASSUME NEW i \in 1 .. n
      PROVE /\ cs[i].from = (i - 1) * chunk
            /\ cs[i].to = IF i * chunk <= size THEN i * chunk ELSE size
  BY <1>3 DEF Chunks, Part
<1> HIDE DEF n, cs
<1>5. ASSUME NEW i \in 1 .. n PROVE (i - 1) * chunk < size
  <2>1. (i - 1) * chunk <= (n - 1) * chunk
    <3>1. i - 1 \in Nat /\ n - 1 \in Nat /\ i - 1 <= n - 1
      BY <1>1
    <3> QED BY <3>1, Monotone
  <2>2. (n - 1) * chunk = chunk * n - chunk
    BY <1>1
  <2> QED BY <1>1, <2>1, <2>2
<1>6. ASSUME NEW i \in 1 .. n PROVE i * chunk = (i - 1) * chunk + chunk
  OBVIOUS
<1>7. ASSUME NEW i \in 1 .. n PROVE cs[i].to - cs[i].from \in 1 .. chunk
  BY <1>4, <1>5, <1>6
<1>8. ASSUME NEW i \in 1 .. n PROVE cs[i].from = IF i = 1 THEN 0 ELSE cs[i - 1].to
  <2>1. CASE i = 1
    BY <1>4, <2>1
  <2>2. CASE i # 1
    <3>1. i - 1 \in 1 .. n
      BY <1>1, <2>2
    <3>2. (i - 1) * chunk <= size
      BY <1>1, <1>5
    <3>3. cs[i - 1].to = (i - 1) * chunk
      BY <1>4, <3>1, <3>2
    <3> QED BY <1>4, <2>2, <3>3
  <2> QED BY <2>1, <2>2
<1>9. ASSUME NEW i \in 1 .. n, i + 1 \notin 1 .. n PROVE cs[i].to = size
  <2>1. i = n
    BY <1>1, <1>9
  <2>2. n * chunk >= size
    BY <1>1, <1>2
  <2> QED BY <1>4, <2>1, <2>2
<1>10. 1 .. n = {} => size = 0
  <2> SUFFICES ASSUME 1 .. n = {} PROVE size = 0
    OBVIOUS
  <2>1. n = 0
    BY <1>1
  <2> QED BY <1>2, <2>1
<1> QED BY <1>3, <1>7, <1>8, <1>9, <1>10 DEF Whole, cs

(* A date arrives, and a 64-bit number arrives as 0. *)
LEMMA DateKept == ASSUME NEW n \in Nat PROVE StringField(Stamp(n)) = n
  BY DEF StringField, Stamp, Absent

LEMMA NumberLost == ASSUME NEW n \in Nat PROVE IntField(Uint64(n)) = 0
  BY DEF IntField, Uint64, Absent

(* Whatever SDK object the scenario answers with, it is kept. *)
LEMMA EveryReplyKept == ASSUME NEW s \in Scenarios PROVE Kept(s.reply)
<1> DEFINE r == s.reply
<1>1. CASE r.kind = "run"
  <2>1. /\ r.duration \in Nat /\ r.created \in Nat
        /\ r.status \in {"running", "finished", "error", "cancelled", "expired"}
    BY <1>1, RepliesAssumption
  <2>2. ParseRun(RunToProto(r)).status = IF r.status = "expired" THEN "error" ELSE r.status
    BY <2>1 DEF ParseRun, RunToProto, GoRunStatus, ProtoRunStatus
  <2>3. ParseRun(RunToProto(r)).created = r.created
    BY <2>1, DateKept DEF ParseRun, RunToProto
  <2>4. NotGarbled(r.duration, ParseRun(RunToProto(r)).duration)
    BY <2>1, NumberLost DEF ParseRun, RunToProto, NotGarbled
  <2> QED BY <1>1, <2>2, <2>3, <2>4 DEF Kept
<1>2. CASE r.kind = "agent"
  <2>1. /\ r.created \in Nat /\ r.runtime \in {"local", "cloud", ""}
        /\ r.status \in {"running", "finished", "error", ""}
    BY <1>2, RepliesAssumption
  <2> DEFINE got == ParseAgentInfo(AgentInfoToProto(r))
  <2>2. got.status = r.status
    <3>1. GoAgentStatus(ProtoAgentStatus(r.status)) = r.status
      BY <2>1 DEF GoAgentStatus, ProtoAgentStatus
    <3> QED BY <3>1 DEF ParseAgentInfo, AgentInfoToProto
  <2>4. got.created = r.created
    <3>1. StringField(Stamp(r.created)) = r.created
      BY <2>1, DateKept
    <3> QED BY <3>1 DEF ParseAgentInfo, AgentInfoToProto
  <2>3. got.runtime = r.runtime /\ (got.runtime = "local" => got.cwd = r.cwd)
    BY <2>1 DEF ParseAgentInfo, AgentInfoToProto
  <2> QED BY <1>2, <2>2, <2>3, <2>4 DEF Kept
<1>3. CASE r.kind = "artifact"
  <2>1. r.size \in Nat /\ r.chunk \in Nat \ {0}
    BY <1>3, RepliesAssumption
  <2>2. NotGarbled(r.size, ParseArtifact(ArtifactToProto(r)).size)
    BY <2>1, NumberLost DEF ParseArtifact, ArtifactToProto, NotGarbled
  <2> QED BY <1>3, <2>1, <2>2, ChunksAreWhole DEF Kept
<1>4. CASE r.kind = "event"
  BY <1>4, RepliesAssumption DEF Kept, ParseEvent, EventToProto
<1> QED BY <1>1, <1>2, <1>3, <1>4 DEF Kept

(* A result arrives as the SDK gave it, but for the 64-bit numbers that    *)
(* the client does not read: the converters of the bridge and the parsers  *)
(* of the client undo each other for every object, and the chunks of an    *)
(* artifact of any size are joined without a gap.                          *)
THEOREM ResultsArrive == Spec => []AnswerKept
<1>1. IInv => AnswerKept
  BY EveryReplyKept DEF IInv, AnswerKept
<1> QED BY <1>1, SpecIInv, PTL
=============================================================================
