------------------------------ MODULE Requests ------------------------------
(***************************************************************************)
(* A call on its way down: what a method of the Go client puts on the wire *)
(* and which of its own checks may stop it (cursor/client.go, agent.go,    *)
(* resources.go), and what the bridge's handler makes of the request: a    *)
(* refusal, or a call of @cursor/sdk with converted options                *)
(* (sdk-service.ts, sdk-converters.ts).  A call is a record:               *)
(*                                                                         *)
(*   method    the RPC                                                     *)
(*   fallback  allowAPIKeyEnvFallback: set on every client that launches   *)
(*             its bridge, on one that was given a bridge (Connect) when   *)
(*             the caller asks for it, and changed by WithOptions          *)
(*   token     the bridge accepts the client's token                       *)
(*   env, key  CURSOR_API_KEY is set; the caller passed a key              *)
(*   id        "cloud" when the agent's id starts with bc-                 *)
(*   runtime   the runtime named in the options, as the caller wrote it    *)
(*   cwd       the directory named in the options, or ""                   *)
(*   known     the bridge's registry holds the agent or the run            *)
(*   opts      what only CreateAgent, ResumeAgent, Send and GetRun look at *)
(***************************************************************************)
EXTENDS Naturals, Sequences

DefaultCwd == "workspace"       \* the bridge's launch workspace
NoCwd == ""                     \* the SDK is given no directory

AgentOperations == {"GetAgent", "ArchiveAgent", "UnarchiveAgent", "DeleteAgent",
                    "ListAgentMessages"}
LiveAgentMethods == {"ReloadAgent", "CloseAgent", "ListArtifacts", "DownloadArtifact", "Send"}
RunMethods == {"WaitLiveRun", "GetRunConversation", "CancelRun", "ObserveRun"}
ListMethods == {"ListAgents", "ListRuns", "GetRun"}
CatalogMethods == {"Me", "ListModels", "ListRepositories"}
ControlMethods == {"Ping", "GetVersion", "Shutdown"}
AgentMethods == {"CreateAgent", "ResumeAgent"} \cup AgentOperations \cup LiveAgentMethods
                  \cup RunMethods \cup ListMethods
Methods == AgentMethods \cup CatalogMethods \cup ControlMethods

StreamMethods == {"Send", "ObserveRun", "DownloadArtifact"}

NoOpts == [local |-> FALSE, cloud |-> FALSE, model |-> TRUE, agentId |-> FALSE,
           idempotency |-> FALSE, envVars |-> "none", tools |-> FALSE,
           callback |-> FALSE, store |-> "", urlImage |-> FALSE]

-----------------------------------------------------------------------------
(* The Go client *)

(* apiKeyOrEnv: only some calls fall back on the environment *)
EffectiveKey(c) ==
  \/ c.key
  \/ /\ c.method \in {"CreateAgent", "GetAgent"} \cup CatalogMethods
     /\ c.fallback /\ c.env

(* The request's options carry the key.  The run calls send no options. *)
OptionsKey(c) == EffectiveKey(c) /\ c.method \notin RunMethods \cup {"ReloadAgent", "CloseAgent"}

(* Mutation of IsCloudAgentRPC: the id of the agent is not looked at. *)
IsCloudAgentRPCByOptions(c) ==
  \/ c.method \in {"CreateAgent", "ResumeAgent"} /\ c.opts.cloud
  \/ c.method \in ListMethods /\ c.runtime \in {"cloud", "RUNTIME_CLOUD"}
  \/ c.method \in RunMethods

IsCloudAgentRPC(c) ==
  \/ c.method = "CreateAgent" /\ c.opts.cloud
  \/ c.method = "ResumeAgent" /\ (c.id = "cloud" \/ c.opts.cloud)
  \/ /\ c.method \in AgentOperations \cup {"ListArtifacts", "DownloadArtifact", "Send"}
     /\ c.id = "cloud"
  \/ c.method \in ListMethods /\ c.runtime \in {"cloud", "RUNTIME_CLOUD"}
  \/ c.method \in RunMethods

(* requireCloudAPIKey, and Send's own copy of the test *)
KeyGate(c) == ~c.fallback /\ IsCloudAgentRPC(c) /\ ~OptionsKey(c)

(* createAgent's checks before it sends anything *)
CreateGate(c) ==
  /\ c.method = "CreateAgent"
  /\ ~EffectiveKey(c) \/ ~c.opts.model \/ (c.opts.idempotency /\ ~c.opts.cloud)

(* The key the bridge may look for: cloud creations always get one *)
IdempotencyKey(c) ==
  \/ c.method = "CreateAgent" /\ (c.opts.cloud \/ c.opts.idempotency)
  \/ c.method = "Send" /\ c.opts.idempotency /\ c.id = "cloud"

-----------------------------------------------------------------------------
(* The bridge's handlers *)

(* The first check that fails gives the Connect code of the refusal; "" accepts. *)
FirstFailing(checks) ==
  LET failing == {i \in DOMAIN checks : checks[i][1]}
      first == CHOOSE i \in failing : \A j \in failing : i <= j
  IN  IF failing = {} THEN "" ELSE checks[first][2]

(* createLocalAgentStoreFromProtoConfig; a jsonl store without a rootDir  *)
(* is refused like an unknown type.                                        *)
StoreCode(store) ==
  CASE store \in {"", "sqlite", "jsonl"} -> ""
    [] store = "custom" -> "unimplemented"
    [] OTHER -> "invalid_argument"

(* assertCustomToolsLocalOnly and assertCustomToolsConfigured, then the    *)
(* store of the local options                                              *)
OptionChecks(o) ==
  << <<o.cloud /\ o.tools, "invalid_argument">>,
     <<o.tools /\ ~o.callback, "failed_precondition">>,
     <<o.local /\ StoreCode(o.store) # "", StoreCode(o.store)>> >>

CreateCode(c) ==
  FirstFailing(<< <<IdempotencyKey(c) /\ ~c.opts.cloud, "unimplemented">>,
                  <<c.opts.envVars # "none" /\ c.opts.agentId, "invalid_argument">>,
                  <<c.opts.envVars = "reserved", "invalid_argument">> >>
               \o OptionChecks(c.opts))

ResumeCode(c) == FirstFailing(OptionChecks(c.opts))

(* The lookup of the live agent, then send's two checks *)
LiveAgentCode(c) ==
  FirstFailing(<< <<~c.known, "not_found">>,
                  <<c.method = "Send" /\ IdempotencyKey(c) /\ c.id # "cloud", "unimplemented">>,
                  <<c.method = "Send" /\ c.opts.urlImage /\ c.id # "cloud", "invalid_argument">> >>)

(* The enum value the bridge reads from the JSON name.  The names of the   *)
(* proto enum are known; any other string is an unknown enum value, which  *)
(* the Connect adapter's JSON reader leaves out.                           *)
Runtime(c) ==
  CASE c.runtime = "RUNTIME_CLOUD" -> "CLOUD"
    [] c.runtime = "RUNTIME_LOCAL" -> "LOCAL"
    [] OTHER -> "UNSPECIFIED"

Refusal(c) ==
  CASE ~c.token -> "unauthenticated"
    [] c.token /\ c.method = "CreateAgent" -> CreateCode(c)
    [] c.token /\ c.method = "ResumeAgent" -> ResumeCode(c)
    [] c.token /\ c.method \in LiveAgentMethods -> LiveAgentCode(c)
    [] c.token /\ c.method \in {"WaitLiveRun", "GetRunConversation"} ->
         IF c.known THEN "" ELSE "not_found"
    [] c.token /\ c.method = "GetRun" ->
         IF Runtime(c) = "CLOUD" /\ ~c.opts.agentId THEN "invalid_argument" ELSE ""
    [] c.token /\ c.method = "ListAgentMessages" ->
         IF Runtime(c) = "CLOUD" \/ (Runtime(c) # "LOCAL" /\ c.id = "cloud")
         THEN "unimplemented" ELSE ""
    [] c.token /\ c.method \in CatalogMethods -> IF OptionsKey(c) THEN "" ELSE "unauthenticated"
    [] OTHER -> ""

-----------------------------------------------------------------------------
(* The SDK call of an accepted request: the runtime it is bound to, its    *)
(* working directory and whether it has a key.  The SDK tells the runtime  *)
(* of an operation on an agent from the agent's id; "auto" is left to it.  *)

(* Mutation of Cwd: no default. *)
CwdAsSent(c) == c.cwd

Cwd(c) == IF c.cwd = "" THEN DefaultCwd ELSE c.cwd

(* Whose key the SDK uses: the caller's, or what the bridge finds itself *)
KeyOwner(c) == IF OptionsKey(c) THEN "caller" ELSE "bridge"

Target(runtime, cwd, key) == [runtime |-> runtime, cwd |-> cwd, key |-> key]

(* protoAgentOptionsToSdk, protoLocalAgentOptionsToSdk *)
AgentTarget(c) ==
  LET cloud == c.opts.cloud \/ (c.method = "ResumeAgent" /\ c.id = "cloud")
  IN  Target(IF cloud THEN "cloud" ELSE "local",
             IF c.opts.cloud THEN c.cwd ELSE Cwd(c), KeyOwner(c))

(* protoListAgentsOptionsToSdk *)
ListAgentsTarget(c) ==
  CASE Runtime(c) = "CLOUD" -> Target("cloud", NoCwd, KeyOwner(c))
    [] Runtime(c) = "LOCAL" -> Target("local", Cwd(c), "bridge")
    [] OTHER -> Target("local", DefaultCwd, "bridge")

(* protoListRunsOptionsToSdk, protoGetRunOptionsToSdk *)
RunsTarget(c) ==
  CASE Runtime(c) = "CLOUD" -> Target("cloud", NoCwd, KeyOwner(c))
    [] Runtime(c) = "LOCAL" -> Target("local", Cwd(c), "bridge")
    [] OTHER -> Target("auto", Cwd(c), "bridge")

(* cancelRun and observeRun of a run the registry does not hold *)
DetachedTarget(c) ==
  IF c.method = "CancelRun"
  THEN Target(IF c.opts.agentId THEN "cloud" ELSE "local", NoCwd, "bridge")
  ELSE Target("auto", NoCwd, "bridge")

(* A live agent or run knows its own runtime, directory and key. *)
LiveTarget == Target("live", NoCwd, "bridge")

SdkTarget(c) ==
  CASE c.method \in {"CreateAgent", "ResumeAgent"} -> AgentTarget(c)
    [] c.method = "ListAgents" -> ListAgentsTarget(c)
    [] c.method \in {"ListRuns", "GetRun"} -> RunsTarget(c)
    [] c.method \in AgentOperations -> Target(c.id, Cwd(c), KeyOwner(c))
    [] c.method \in {"CancelRun", "ObserveRun"} /\ ~c.known -> DetachedTarget(c)
    [] c.method \in CatalogMethods -> Target("cloud", NoCwd, KeyOwner(c))
    [] OTHER -> LiveTarget
=============================================================================
