------------------------------- MODULE MCRpc -------------------------------
(* The calls, faults and replies with which TLC checks Rpc.                *)
EXTENDS RpcProps

Base == [method |-> "Ping", fallback |-> TRUE, token |-> TRUE, env |-> FALSE, key |-> TRUE,
         id |-> "local", runtime |-> "", cwd |-> "", known |-> TRUE, opts |-> NoOpts]

CloudOpts == [NoOpts EXCEPT !.cloud = TRUE]
LocalOpts == [NoOpts EXCEPT !.local = TRUE]
ToolOpts == [LocalOpts EXCEPT !.tools = TRUE, !.callback = TRUE]

OptsOf(method) ==
  CASE method = "CreateAgent" ->
         {NoOpts, CloudOpts, LocalOpts, ToolOpts,
          [CloudOpts EXCEPT !.local = TRUE], [CloudOpts EXCEPT !.idempotency = TRUE], [NoOpts EXCEPT !.idempotency = TRUE],
          [CloudOpts EXCEPT !.envVars = "plain", !.agentId = TRUE],
          [CloudOpts EXCEPT !.envVars = "reserved"], [CloudOpts EXCEPT !.tools = TRUE],
          [ToolOpts EXCEPT !.callback = FALSE], [LocalOpts EXCEPT !.store = "custom"],
          [LocalOpts EXCEPT !.store = "jsonl"], [LocalOpts EXCEPT !.store = "bogus"],
          [NoOpts EXCEPT !.model = FALSE]}
    [] method = "ResumeAgent" ->
         {NoOpts, CloudOpts, ToolOpts, [ToolOpts EXCEPT !.callback = FALSE],
          [LocalOpts EXCEPT !.store = "bogus"]}
    [] method = "Send" ->
         {NoOpts, [NoOpts EXCEPT !.idempotency = TRUE], [NoOpts EXCEPT !.urlImage = TRUE]}
    [] method \in {"GetRun", "CancelRun"} -> {NoOpts, [NoOpts EXCEPT !.agentId = TRUE]}
    [] OTHER -> {NoOpts}

(* The parts of a call that its method looks at take all their values. *)
CallsOf(method) ==
 {c \in
  {[Base EXCEPT !.method = method, !.fallback = f, !.env = e, !.key = k, !.id = i,
                !.runtime = r, !.cwd = d, !.known = n, !.opts = o] :
     f \in BOOLEAN,
     e \in (IF method \in {"CreateAgent", "GetAgent"} \cup CatalogMethods THEN BOOLEAN ELSE {FALSE}),
     k \in (IF method \in ControlMethods THEN {TRUE} ELSE BOOLEAN),
     i \in (IF method \in ControlMethods \cup CatalogMethods
                               \cup {"CreateAgent", "ListAgents", "GetRun"}
            THEN {"local"} ELSE {"local", "cloud"}),
     r \in (IF method \in ListMethods
            THEN {"", "cloud", "local", "RUNTIME_CLOUD", "RUNTIME_LOCAL"} ELSE {""}),
     d \in (IF method \in AgentOperations \cup ListMethods \cup {"CreateAgent", "ResumeAgent"}
            THEN {"", "elsewhere"} ELSE {""}),
     n \in (IF method \in LiveAgentMethods \cup RunMethods THEN BOOLEAN ELSE {TRUE}),
     o \in OptsOf(method)} :
  c.method \in {"CreateAgent", "ResumeAgent"} /\ c.cwd # "" => c.opts.local}

AllCalls == UNION {CallsOf(m) : m \in Methods}
             \cup {[Base EXCEPT !.token = FALSE], [Base EXCEPT !.method = "Send", !.token = FALSE]}

(* Any SDK error, of a call that is sent again and of two that are not *)
FailingCalls == {[Base EXCEPT !.method = m] : m \in {"GetAgent", "DeleteAgent", "Send"}}
Faults == [name : {"AuthenticationError", "ConfigurationError", "AgentBusyError",
                   "RateLimitError", "AgentNotFoundError", "CursorSdkError"},
           code : {"", "other"} \cup UNION {CodeToConnect[k] : k \in DOMAIN CodeToConnect}]

NoReply == [kind |-> "none"]
Replies ==
  [kind : {"run"}, status : {"running", "finished", "error", "cancelled", "expired"},
   duration : {0, 7}, created : {0, 5}]
  \cup [kind : {"agent"}, status : {"running", "finished", "error", ""}, created : {0, 5},
        runtime : {"local", "cloud", ""}, cwd : {"", "elsewhere"}]
  \cup [kind : {"artifact"}, size : 0 .. 7, chunk : {1, 3, 4}]
  \cup [kind : {"event"}, part : {"sdkMessage", "interactionUpdate", "step"},
        type : {"", "assistant"}, plain : BOOLEAN]
ReplyCall == [Base EXCEPT !.method = "ListRuns"]

AllScenarios ==
  {[call |-> c, fault |-> NoFault, reply |-> NoReply] : c \in AllCalls}
  \cup {[call |-> c, fault |-> f, reply |-> NoReply] : c \in FailingCalls, f \in Faults}
  \cup {[call |-> ReplyCall, fault |-> NoFault, reply |-> r] : r \in Replies}

(* For the run that looks at the names of the runtimes *)
RunCalls == {[call |-> c, fault |-> NoFault, reply |-> NoReply] :
               c \in UNION {CallsOf(m) : m \in RunMethods \cup {"ListAgents"}}}
=============================================================================
