------------------------------ MODULE RpcProps ------------------------------
(* What a call promises, and where the code is known to fall short of it.  *)
EXTENDS Rpc

Outcomes == {"", "Ok", "untyped", "ConfigurationError", "AuthenticationError",
             "PermissionDeniedError", "RateLimitError", "AgentBusyError",
             "AgentNotFoundError", "NotFoundError", "BadRequestError", "APITimeoutError",
             "InternalServerError", "NetworkError", "UnknownAgentError"}

(* Every answer has a code with an HTTP status, and every outcome is one   *)
(* of the error classes of cursor/errors.go.                               *)
TypeOK ==
  /\ phase \in {"idle", "waiting", "sleeping", "done"}
  /\ attempt \in 0 .. MaxRetries + 1
  /\ stage \in [Sends -> {"unsent", "sent", "running", "answered"}]
  /\ \A n \in Sends :
       \/ answer[n] = NoAnswer /\ stage[n] # "answered"
       \/ stage[n] = "answered" /\ (answer[n] = Ok \/ answer[n].code \in DOMAIN StatusOf)
  /\ performed \subseteq Sends
  /\ result \in Outcomes

(* The methods that change something at the SDK or at the bridge *)
Mutating == {"CreateAgent", "ResumeAgent", "ArchiveAgent", "UnarchiveAgent", "DeleteAgent",
             "ReloadAgent", "CloseAgent", "Send", "CancelRun", "Shutdown"}

(* Whatever the network does, an agent is not created, a message not sent  *)
(* and nothing deleted twice for one call: Unary sends only the methods of *)
(* retrySafeMethods again.                                                 *)
AtMostOnce == call.method \in Mutating => \A m, n \in performed : m = n

(* The errors that leave it open whether the call was executed *)
Vague == {"NetworkError", "APITimeoutError", "untyped"}

(* An outcome can be relied on: a result comes from a call of the SDK, and *)
(* an error that is neither the SDK's nor one of Vague says that the SDK   *)
(* was not called, and so that nothing changed.                            *)
Truthful ==
  /\ result = "Ok" => attempt \in performed
  /\ result \notin {"", "Ok"} \cup Vague /\ scenario.fault = NoFault => performed = {}

(* ListRuns and GetRun without a runtime leave it to the SDK to find the   *)
(* runtime, without a key, also when the caller gave one                   *)
(* (sdk-converters.ts:265, 286); the client takes them for local.          *)
Unkeyed(c) == c.method \in {"ListRuns", "GetRun"} /\ Runtime(c) = "UNSPECIFIED"

(* client.go:499-514 against what the bridge does with the request: for a  *)
(* client that may not fall back on the environment, the SDK is not asked  *)
(* for anything that is or may be in the cloud on the bridge's own         *)
(* credentials, but for the calls of Unkeyed.  A client with the fallback  *)
(* has no such guarantee, whoever launched its bridge; a live agent or run *)
(* uses the key it was made with.                                          *)
CloudKeyed ==
  performed # {} /\ ~call.fallback /\ SdkTarget(call).runtime \in {"cloud", "auto"}
    => Unkeyed(call) \/ SdkTarget(call).key = "caller"

-----------------------------------------------------------------------------
(* The runtime a call names, by its options or by its agent's id *)
Asked(c) ==
  CASE c.method \in ListMethods -> IF Runtime(c) = "UNSPECIFIED" THEN "any"
                                   ELSE IF Runtime(c) = "CLOUD" THEN "cloud" ELSE "local"
    [] c.method \in {"CreateAgent", "ResumeAgent"} ->
         IF c.opts.cloud \/ (c.method = "ResumeAgent" /\ c.id = "cloud") THEN "cloud" ELSE "local"
    [] c.method \in AgentOperations -> c.id
    [] OTHER -> "any"

(* Where the SDK is not asked what the caller asked:                       *)
(*  - ListAgents without a runtime looks in the launch workspace, also     *)
(*    when the options name a directory (sdk-converters.ts:241);           *)
(*  - CancelRun of a run the bridge does not hold goes to the cloud when   *)
(*    the request names an agent, and Run.Cancel always names it           *)
(*    (sdk-service.ts:274);                                                *)
(*  - that call and ObserveRun name no directory, so a local run is looked *)
(*    up where the SDK looks by default (sdk-service.ts:261);              *)
(*  - ResumeAgent of a cloud agent without cloud options carries a         *)
(*    directory (sdk-converters.ts:18);                                    *)
(*  - an operation on a cloud agent that names no directory is given the   *)
(*    launch workspace (sdk-converters.ts:296).                            *)
Misrouted(c) ==
  \/ c.method = "ListAgents" /\ Runtime(c) = "UNSPECIFIED" /\ c.cwd # ""
  \/ c.method \in {"CancelRun", "ObserveRun"} /\ ~c.known
  \/ c.method = "ResumeAgent" /\ c.id = "cloud" /\ ~c.opts.cloud
  \/ c.method \in AgentOperations /\ c.id = "cloud" /\ c.cwd = ""

(* A call that is performed asks the SDK for the runtime the caller meant; *)
(* in the local runtime, agents and runs are looked for in the directory   *)
(* the caller named or else the one creations default to, so that reads    *)
(* find what was created (server.ts:42-44); a call to the cloud is given   *)
(* no directory but the caller's (sdk-converters.ts:17, 225).              *)
RoutedAsAsked ==
  LET t == SdkTarget(call) IN
  performed # {} /\ ~Misrouted(call) /\ t # LiveTarget =>
    /\ Asked(call) \in {"any", t.runtime}
    /\ call.method \in AgentMethods /\ t.runtime = "local" =>
         t.cwd = IF call.cwd = "" THEN DefaultCwd ELSE call.cwd
    /\ t.runtime = "cloud" => t.cwd \in {NoCwd, call.cwd}

-----------------------------------------------------------------------------
(* The class of the Go SDK for an error of @cursor/sdk *)
Meant(e) ==
  CASE e.code = "unauthenticated" -> {"AuthenticationError"}
    [] e.code = "permission_denied" -> {"PermissionDeniedError"}
    [] e.code \in {"rate_limited", "stream_buffer_overflow"} -> {"RateLimitError"}
    [] e.code = "invalid_model" -> {"ConfigurationError"}
    [] e.code = "agent_busy" -> {"AgentBusyError"}
    [] e.code \in {"agent_not_found", "unknown_agent"} -> {"AgentNotFoundError"}
    [] e.code \in {"run_not_found", "unknown_run"} -> {"NotFoundError"}
    [] OTHER ->
         CASE e.name = "AuthenticationError" -> {"AuthenticationError"}
           [] e.name = "ConfigurationError" -> {"ConfigurationError", "BadRequestError"}
           [] e.name = "RateLimitError" -> {"RateLimitError"}
           [] OTHER -> {"InternalServerError"}

(* Errors whose class is lost: "not_found" becomes a ConfigurationError    *)
(* (cursor/errors.go:246), as does an AgentNotFoundError without a code in *)
(* the bridge's table; an AgentBusyError without one and the two           *)
(* integration errors become an UnknownAgentError.                         *)
Lost(e) ==
  \/ e.code \in {"not_found", "integration_not_connected", "repository_access"}
  \/ ~Known(CodeToConnect, e.code) /\ e.name \in {"AgentNotFoundError", "AgentBusyError"}

(* The two tables of the bridge and the switch of the client, written      *)
(* apart in two languages, agree: the caller gets the class of the SDK's   *)
(* error, also when earlier attempts ended otherwise.                      *)
ErrorsKept ==
  performed # {} /\ ~Lost(scenario.fault) /\ result \notin {"", "Ok"} \cup Vague
    => result \in Meant(scenario.fault)

(* A 64-bit number is not read wrong, but it is lost: intField does not    *)
(* read the string that proto3 JSON makes of it.                           *)
NotGarbled(number, got) == got \in {number, 0}

(* Appended in their order, as concatBytes does, the parts are a buffer of *)
(* that length.                                                            *)
Whole(parts, length) ==
  /\ \A i \in DOMAIN parts :
       /\ parts[i].from = IF i = 1 THEN 0 ELSE parts[i - 1].to
       /\ i + 1 \notin DOMAIN parts => parts[i].to = length
  /\ DOMAIN parts = {} => length = 0

(* What the SDK answers reaches the caller: a run's status and date, an    *)
(* agent's runtime, directory and status, all bytes of an artifact in      *)
(* order and in chunks of at most the given length, and the type of a      *)
(* stream event, but for a step whose payload could not be encoded.  A run *)
(* that has expired arrives as one in error, although the protocol has a   *)
(* status for it (sdk-converters.ts:594).                                  *)
Kept(r) ==
  CASE r.kind = "run" ->
         LET got == ParseRun(RunToProto(r)) IN
         /\ got.status = IF r.status = "expired" THEN "error" ELSE r.status
         /\ got.created = r.created /\ NotGarbled(r.duration, got.duration)
    [] r.kind = "agent" ->
         LET got == ParseAgentInfo(AgentInfoToProto(r)) IN
         /\ got.status = r.status /\ got.created = r.created /\ got.runtime = r.runtime
         /\ got.runtime = "local" => got.cwd = r.cwd
    [] r.kind = "artifact" ->
         LET chunks == Chunks(r.size, r.chunk) IN
         /\ Whole(chunks, r.size)
         /\ \A i \in DOMAIN chunks : chunks[i].to - chunks[i].from \in 1 .. r.chunk
         /\ NotGarbled(r.size, ParseArtifact(ArtifactToProto(r)).size)
    [] r.kind = "event" ->
         LET got == ParseEvent(EventToProto(r)) IN
         /\ got.part = r.part
         /\ r.plain \/ r.part # "step" => got.type \in {r.type, "unknown"}
         /\ r.type # "" /\ (r.plain \/ r.part # "step") => got.type = r.type
    [] OTHER -> TRUE

AnswerKept == result = "Ok" => Kept(scenario.reply)

(* Every call returns, whatever the network and the bridge do: each        *)
(* attempt has a deadline, and there are finitely many.                    *)
CallReturns == <>(phase = "done")

-----------------------------------------------------------------------------
(* parity_test.go:39-46 and client.go:532 name the runtimes "cloud" and    *)
(* "local"; a listing that names one is not made in another.               *)
RuntimeHonoured ==
  performed # {} /\ call.runtime \in {"cloud", "local"}
    => SdkTarget(call).runtime \in {call.runtime, "auto"}
=============================================================================
