-------------------------------- MODULE Rpc --------------------------------
(***************************************************************************)
(* One call of the Go client from its checks to its outcome: the unary     *)
(* retry loop and the opening of a stream (internal/connect/connect.go),   *)
(* the bridge's interceptors and handlers, and a network between them that *)
(* may deliver a request late or never, and break while a call is being    *)
(* executed.  What the call asks and what the bridge makes of it is in     *)
(* Requests, what becomes of a failure in ErrorCodes and of a result in    *)
(* Answers.                                                                *)
(*                                                                         *)
(* A scenario is [call, fault, reply]: the call, the SDK error it may end  *)
(* with (NoFault: none), and the object the SDK answers with otherwise.    *)
(***************************************************************************)
EXTENDS Requests, ErrorCodes, Answers, FiniteSets

CONSTANTS
  Scenarios,
  MaxRetries        \* Transport.MaxRetries

ASSUME RetriesAssumption == MaxRetries \in Nat
ASSUME ScenariosAssumption ==
  \A s \in Scenarios : /\ s.call.method \in Methods /\ s.call.token \in BOOLEAN
                       /\ s.call.id \in {"local", "cloud"}

(* The objects of @cursor/sdk: their statuses and runtimes, dates and      *)
(* sizes that are whole numbers, and downloadArtifact's length of a chunk. *)
ASSUME RepliesAssumption ==
  \A s \in Scenarios :
    LET r == s.reply IN
    \/ r.kind = "none"
    \/ /\ r.kind = "run" /\ r.duration \in Nat /\ r.created \in Nat
       /\ r.status \in {"running", "finished", "error", "cancelled", "expired"}
    \/ /\ r.kind = "agent" /\ r.created \in Nat /\ r.runtime \in {"local", "cloud", ""}
       /\ r.status \in {"running", "finished", "error", ""}
    \/ r.kind = "artifact" /\ r.size \in Nat /\ r.chunk \in Nat \ {0}
    \/ r.kind = "event" /\ r.plain \in BOOLEAN

NoFault == [name |-> "", code |-> ""]

VARIABLES
  scenario,
  phase,            \* the client: "idle", "waiting", "sleeping", "done"
  attempt,          \* the attempts made
  stage,            \* attempt -> "unsent", "sent", "running", "answered"
  answer,           \* attempt -> what the bridge answered; Ok for a result
  performed,        \* the attempts for which the SDK was called
  result            \* "", "Ok", or the class of the error returned

vars == <<scenario, phase, attempt, stage, answer, performed, result>>

call == scenario.call

(* retrySafeMethods *)
RetrySafe == {"Ping", "GetVersion", "GetAgent", "ListAgents", "GetRun", "ListRuns",
              "WaitLiveRun", "GetRunConversation", "Me", "ListModels",
              "ListRepositories", "ListAgentMessages", "ListArtifacts"}

(* Mutation of Attempts: the method is not looked at. *)
AttemptsOfAny(c) == MaxRetries + 1

Attempts(c) == IF c.method \in RetrySafe THEN MaxRetries + 1 ELSE 1

Sends == 1 .. MaxRetries + 1

NoAnswer == Failure("none", "")
Ok == Failure("ok", "ok")

Init ==
  /\ scenario \in Scenarios
  /\ phase = "idle" /\ attempt = 0 /\ result = ""
  /\ stage = [n \in Sends |-> "unsent"]
  /\ answer = [n \in Sends |-> NoAnswer]
  /\ performed = {}

-----------------------------------------------------------------------------
(* The client *)

Return(outcome) == phase' = "done" /\ result' = outcome

(* createAgent and requireCloudAPIKey refuse before anything is sent. *)
Gated ==
  /\ phase = "idle"
  /\ CreateGate(call) \/ KeyGate(call)
  /\ Return("ConfigurationError")
  /\ UNCHANGED <<scenario, attempt, stage, answer, performed>>

(* Mutation of SendAttempt: a retry is not counted. *)
SendAttemptUncounted ==
  /\ attempt' = IF attempt = 0 THEN 1 ELSE attempt
  /\ stage' = [stage EXCEPT ![attempt'] = "sent"]
  /\ phase' = "waiting"
  /\ UNCHANGED <<scenario, answer, performed, result>>

SendAttempt ==
  /\ attempt' = attempt + 1
  /\ stage' = [stage EXCEPT ![attempt + 1] = "sent"]
  /\ phase' = "waiting"
  /\ UNCHANGED <<scenario, answer, performed, result>>

Start == phase = "idle" /\ ~CreateGate(call) /\ ~KeyGate(call) /\ SendAttempt

(* The next round of Unary's loop, after sleepBeforeRetry *)
Retry == phase = "sleeping" /\ SendAttempt

RetryOr(outcome, retryable) ==
  IF retryable /\ attempt < Attempts(call)
  THEN phase' = "sleeping" /\ UNCHANGED result
  ELSE Return(outcome)

Receive ==
  /\ phase = "waiting" /\ stage[attempt] = "answered"
  /\ LET a == answer[attempt] IN
     IF a = Ok THEN Return("Ok") ELSE RetryOr(GoClass(GoCode(a)), RetryableStatus(StatusOf[a.code]))
  /\ UNCHANGED <<scenario, attempt, stage, answer, performed>>

(* doUnary has cancelled the context by the time Unary reads the body: a   *)
(* body that is not buffered yet fails, with an error that is no Error.    *)
BodyCut ==
  /\ phase = "waiting" /\ stage[attempt] = "answered"
  /\ call.method \notin StreamMethods
  /\ Return("untyped")
  /\ UNCHANGED <<scenario, attempt, stage, answer, performed>>

(* client.Do fails; networkError makes every such error retryable. *)
Broken(code) ==
  /\ phase = "waiting"
  /\ RetryOr(GoClass(code), TRUE)
  /\ UNCHANGED <<scenario, attempt, stage, answer, performed>>

Disconnected == Broken("network")
TimedOut == Broken("timeout")

-----------------------------------------------------------------------------
(* The bridge, which does not notice that the client has given up *)

Reply(n, a) == stage' = [stage EXCEPT ![n] = "answered"] /\ answer' = [answer EXCEPT ![n] = a]

(* Mutation of Arrive: the handler checks the request after its work. *)
ArriveUnchecked(n) ==
  /\ stage[n] = "sent"
  /\ performed' = performed \cup {n}
  /\ IF Refusal(call) # ""
     THEN Reply(n, Failure(Refusal(call), ""))
     ELSE stage' = [stage EXCEPT ![n] = "running"] /\ UNCHANGED answer
  /\ UNCHANGED <<scenario, phase, attempt, result>>

(* The auth interceptor and the checks of the handler *)
Arrive(n) ==
  /\ stage[n] = "sent"
  /\ IF Refusal(call) # ""
     THEN Reply(n, Failure(Refusal(call), "")) /\ UNCHANGED performed
     ELSE /\ stage' = [stage EXCEPT ![n] = "running"]
          /\ performed' = performed \cup {n}
          /\ UNCHANGED answer
  /\ UNCHANGED <<scenario, phase, attempt, result>>

(* The SDK settles; createSdkErrorInterceptor translates a rejection. *)
Settle(n) ==
  /\ stage[n] = "running"
  /\ \/ Reply(n, Ok)
     \/ scenario.fault # NoFault /\ Reply(n, Translate(scenario.fault))
  /\ UNCHANGED <<scenario, phase, attempt, performed, result>>

-----------------------------------------------------------------------------

Client == Gated \/ Start \/ Retry \/ Receive \/ BodyCut \/ Disconnected \/ TimedOut
Bridge == \E n \in Sends : Arrive(n) \/ Settle(n)

Next == Client \/ Bridge

(* The client's timers fire and its own steps are not held up.  Nothing is *)
(* assumed of the network or of the bridge.                                *)
Fairness == WF_vars(Gated \/ Start) /\ WF_vars(Retry) /\ WF_vars(TimedOut)

Spec == Init /\ [][Next]_vars /\ Fairness
=============================================================================
