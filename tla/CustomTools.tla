---------------------------- MODULE CustomTools ----------------------------
(***************************************************************************)
(* Custom tools: functions of the Go program that an agent at the bridge   *)
(* calls.  The program's ToolCallbackServer keeps handlers by agent id     *)
(* (cursor/callback.go), createAgent, resumeAgent, Send and Close register *)
(* and unregister them around their calls of the bridge (client.go,        *)
(* agent.go), and the bridge keeps the address of one callback server and  *)
(* a client built for it (bridge-custom-tools.ts, tool-callback-config.ts, *)
(* setToolCallback).  Any goroutine may run an operation; only agents      *)
(* with custom tools appear.                                               *)
(*                                                                         *)
(* Operations are numbered.  A set of tools is [names, by]: their names,   *)
(* and the operation that brought the handlers.                            *)
(***************************************************************************)
EXTENDS Naturals, FiniteSets

CONSTANTS
  Ids,              \* agent ids
  Tools,            \* tool names
  MaxOps,           \* bound: operations
  MaxInFlight,      \* bound: operations in flight together
  MaxCalls,         \* bound: tool calls at one time
  MaxMoves          \* bound: changes of the bridge's callback address

Ops == 1 .. MaxOps
Pending == "pending"            \* createAgent's key until the id is known

ASSUME ToolBounds ==
  /\ Pending \notin Ids
  /\ MaxOps \in Nat /\ MaxInFlight \in Nat /\ MaxCalls \in Nat /\ MaxMoves \in Nat

NoTools == [names |-> {}, by |-> 0]

VARIABLES
  open,             \* the program's callback server listens
  registered,       \* id or Pending -> its tools at the callback server
  lock,             \* the tool call that holds the server's mutex, or 0
  config,           \* the bridge's callback address: "ours", "other", "none"
  client,           \* the address its cached client was built for, or "none"
  moves,            \* changes of the address
  attached,         \* id -> the tools @cursor/sdk has for the agent
  running,          \* the agents that execute a run
  op,               \* the operations
  handles,          \* the agents the program has a handle on
  call,             \* 1 .. MaxCalls -> the tool call there is, or was last
  disturbed,        \* history: agents whose registration was taken or replaced
  abandoned         \* history: a create left Pending behind by an early return

hostVars == <<open, registered, lock>>
bridgeVars == <<config, client, moves, attached, running>>
opVars == <<op, handles, abandoned>>
vars == <<hostVars, bridgeVars, opVars, call, disturbed>>

NotBegun == [kind |-> "none", stage |-> "notbegun", key |-> Pending, id |-> Pending,
             names |-> {}, ok |-> FALSE]
Ended == [NotBegun EXCEPT !.stage = "ended"]
NoCall == [stage |-> "none", agent |-> Pending, tool |-> "none", by |-> 0, to |-> "none",
           handler |-> 0, answer |-> "none", disturbed |-> FALSE]

(* LaunchBridge gives the bridge the server's address if it could listen;  *)
(* otherwise the environment of the bridge decides.                        *)
Init ==
  /\ open \in BOOLEAN
  /\ config \in IF open THEN {"ours"} ELSE {"other", "none"}
  /\ registered = [i \in Ids \cup {Pending} |-> NoTools]
  /\ lock = 0 /\ client = "none" /\ moves = 0
  /\ attached = [i \in Ids |-> NoTools] /\ running = {}
  /\ op = [n \in Ops |-> NotBegun]
  /\ handles = {} /\ disturbed = {} /\ abandoned = FALSE
  /\ call = [k \in 1 .. MaxCalls |-> NoCall]

-----------------------------------------------------------------------------
(* The program.  RegisterAgent and UnregisterAgent take the mutex.         *)

Register(id, tools) == lock = 0 /\ registered' = [registered EXCEPT ![id] = tools]
Unregister(id) == Register(id, NoTools)

(* Calls on their way look the handler up after what happens to it now.    *)
Disturb(id) ==
  /\ disturbed' = disturbed \cup {id}
  /\ call' = [k \in DOMAIN call |->
                IF call[k].agent = id THEN [call[k] EXCEPT !.disturbed = TRUE] ELSE call[k]]

InFlight == {n \in Ops : op[n] \notin {NotBegun, Ended}}
Free(id) == registered[id] = NoTools /\ attached[id] = NoTools /\ \A n \in Ops : op[n].id # id

Begins(n) ==
  /\ op[n] = NotBegun /\ \A m \in 1 .. n - 1 : op[m] # NotBegun
  /\ Cardinality(InFlight) < MaxInFlight

Begin(n, kind, id, names) ==
  /\ Begins(n)
  /\ op' = [op EXCEPT ![n] = [kind |-> kind, stage |-> "sent", key |-> id, id |-> id,
                              names |-> names, ok |-> FALSE]]

Brought(n) == [names |-> op[n].names, by |-> n]
HasTools == (SUBSET Tools) \ {{}}

(* A registration that is replaced is disturbed, unless there was nothing. *)
Overwrite(key, tools) ==
  /\ Register(key, tools)
  /\ IF key = Pending \/ Free(key) THEN UNCHANGED <<call, disturbed>> ELSE Disturb(key)

(* createAgent registers under the id its caller asks for, whoever has it, *)
(* or under Pending.                                                       *)
Create(n) ==
  \E key \in Ids \cup {Pending}, names \in HasTools :
    /\ Begin(n, "create", key, names)
    /\ Overwrite(key, [names |-> names, by |-> n])
    /\ UNCHANGED <<open, lock, bridgeVars, handles, abandoned>>

(* createAgent refuses an idempotency key for a local agent, which it      *)
(* notices after it has registered the tools.                              *)
CreateRefused(n) ==
  /\ Begins(n)
  /\ op' = [op EXCEPT ![n] = Ended]
  /\ \E key \in Ids \cup {Pending}, names \in HasTools :
       /\ Overwrite(key, [names |-> names, by |-> n])
       /\ abandoned' = (abandoned \/ key = Pending)
  /\ UNCHANGED <<open, lock, bridgeVars, handles>>

(* resumeAgent registers before it asks, for any id. *)
Resume(n) ==
  \E id \in Ids, names \in HasTools :
    /\ Begin(n, "resume", id, names)
    /\ Register(id, [names |-> names, by |-> n])
    /\ Disturb(id)
    /\ UNCHANGED <<open, lock, bridgeVars, handles, abandoned>>

Send(n) ==
  \E id \in handles, names \in SUBSET Tools :
    /\ Begin(n, "send", id, names)
    /\ UNCHANGED <<hostVars, bridgeVars, handles, call, disturbed, abandoned>>

(* Agent.Close unregisters before it asks. *)
Close(n) ==
  \E id \in handles :
    /\ Begin(n, "close", id, {})
    /\ Unregister(id)
    /\ Disturb(id)
    /\ UNCHANGED <<open, lock, bridgeVars, handles, abandoned>>

Ends(n, kind) ==
  /\ op[n].kind = kind /\ op[n].stage = "answered"
  /\ op' = [op EXCEPT ![n] = Ended]
  /\ UNCHANGED <<open, lock, bridgeVars>>

(* The program has the agent.  If its tools are those registered and those *)
(* at the bridge, and no other operation is about, all is well with it.    *)
Settle(n) ==
  LET id == op[n].id IN
  /\ handles' = IF op[n].ok THEN handles \cup {id} ELSE handles
  /\ disturbed' =
       IF /\ op[n].ok /\ registered'[id] = Brought(n) /\ attached[id] = Brought(n)
          /\ \A m \in Ops \ {n} : op[m].id # id
       THEN disturbed \ {id} ELSE disturbed
  /\ UNCHANGED call

(* Mutation of CreateEnds: the tools stay registered under Pending. *)
CreateEndsForgets(n) ==
  /\ Ends(n, "create")
  /\ IF op[n].key = Pending THEN Unregister(Pending) ELSE UNCHANGED registered
  /\ abandoned' = (abandoned /\ op[n].key # Pending)
  /\ Settle(n)

(* Mutation of CreateEnds: a create that fails leaves its tools behind. *)
CreateEndsUncleaned(n) ==
  /\ Ends(n, "create")
  /\ IF op[n].key = Pending /\ op[n].ok
     THEN /\ lock = 0 /\ abandoned' = FALSE
          /\ registered' = [registered EXCEPT ![op[n].id] = Brought(n), ![Pending] = NoTools]
     ELSE UNCHANGED <<registered, abandoned>>
  /\ Settle(n)

(* createAgent goes on with the bridge's answer. *)
CreateEnds(n) ==
  /\ Ends(n, "create")
  /\ IF op[n].key # Pending THEN UNCHANGED <<registered, abandoned>>
     ELSE /\ lock = 0 /\ abandoned' = FALSE
          /\ registered' = [i \in DOMAIN registered |->
               IF i = Pending THEN NoTools
               ELSE IF op[n].ok /\ i = op[n].id THEN Brought(n) ELSE registered[i]]
  /\ Settle(n)

ResumeEnds(n) == Ends(n, "resume") /\ UNCHANGED <<registered, abandoned>> /\ Settle(n)

(* Send registers its tools once the stream is open; the bridge did not    *)
(* look at them (protoSendOptionsToSdk).                                   *)
SendEnds(n) ==
  /\ Ends(n, "send")
  /\ IF op[n].ok /\ op[n].names # {}
     THEN Register(op[n].id, Brought(n)) /\ Disturb(op[n].id)
     ELSE UNCHANGED <<registered, call, disturbed>>
  /\ UNCHANGED <<handles, abandoned>>

CloseEnds(n) == Ends(n, "close") /\ UNCHANGED <<registered, handles, call, disturbed, abandoned>>

(* Client.Close stops the server; a client made by WithOptions shares it   *)
(* and goes on.  A call at the server loses its connection.                *)
ServerClose ==
  /\ open /\ open' = FALSE
  /\ call' = [k \in DOMAIN call |->
       IF call[k].stage \in {"looking", "executing", "calling", "closing", "closed"}
       THEN [call[k] EXCEPT !.answer = "unavailable"] ELSE call[k]]
  /\ UNCHANGED <<registered, lock, bridgeVars, opVars, disturbed>>

-----------------------------------------------------------------------------
(* The bridge *)

Answer(n, id, ok) ==
  op' = [op EXCEPT ![n] = [@ EXCEPT !.stage = "answered", !.id = id, !.ok = ok]]

Asked(n, kind) ==
  /\ op[n].kind = kind /\ op[n].stage = "sent"
  /\ UNCHANGED <<hostVars, config, client, moves, handles, abandoned, call, disturbed>>

(* assertCustomToolsConfigured, Agent.create and resume, with the id asked *)
(* for or a new one; registerAgent disposes of the agent that was there,   *)
(* and so of its run.  The answer may be lost.                             *)
Created(n) ==
  /\ Asked(n, "create")
  /\ config # "none"
  /\ \E id \in (IF op[n].key # Pending THEN {op[n].key}
                ELSE {i \in Ids \ handles : Free(i)}),
        ok \in BOOLEAN :
       /\ attached' = [attached EXCEPT ![id] = Brought(n)]
       /\ running' = running \ {id}
       /\ Answer(n, id, ok)

Resumed(n) ==
  /\ Asked(n, "resume")
  /\ config # "none"
  /\ attached' = [attached EXCEPT ![op[n].id] = Brought(n)]
  /\ running' = running \ {op[n].id}
  /\ \E ok \in BOOLEAN : Answer(n, op[n].id, ok)

(* The stream opens even if its first frame is an error. *)
Sent(n) ==
  /\ Asked(n, "send")
  /\ running' = IF attached[op[n].id] # NoTools THEN running \cup {op[n].id} ELSE running
  /\ \E ok \in BOOLEAN : Answer(n, op[n].id, ok)
  /\ UNCHANGED attached

Gone(id) == attached' = [attached EXCEPT ![id] = NoTools] /\ running' = running \ {id}

Closed(n) ==
  /\ Asked(n, "close")
  /\ Gone(op[n].id)
  /\ \E ok \in BOOLEAN : Answer(n, op[n].id, ok)

(* The request is refused or never arrives. *)
Failed(n) ==
  /\ op[n].kind # "none" /\ Asked(n, op[n].kind)
  /\ Answer(n, op[n].id, FALSE)
  /\ UNCHANGED <<attached, running>>

RunEnds ==
  /\ \E id \in running : running' = running \ {id}
  /\ UNCHANGED <<hostVars, config, client, moves, attached, opVars, call, disturbed>>

(* Mutation of SetToolCallback: the client built before stays. *)
SetToolCallbackKeepsClient(address) ==
  /\ moves < MaxMoves /\ moves' = moves + 1
  /\ config' = address
  /\ UNCHANGED <<hostVars, client, attached, running, opVars, call, disturbed>>

(* setToolCallback: any client of the bridge may call it. *)
SetToolCallback(address) ==
  /\ moves < MaxMoves /\ moves' = moves + 1
  /\ config' = address /\ client' = "none"
  /\ UNCHANGED <<hostVars, attached, running, opVars, call, disturbed>>

-----------------------------------------------------------------------------
(* A tool call *)

(* callHostCustomTool: without an address it fails at once; otherwise it   *)
(* goes through the cached client, which is built if there is none.        *)
ToolCall(k) ==
  \E id \in running : \E tool \in attached[id].names :
    /\ call[k].stage \in {"none", "done"}
    /\ client' = IF config = "none" \/ client # "none" THEN client ELSE config
    /\ call' = [call EXCEPT ![k] = [NoCall EXCEPT
         !.stage = IF config = "none" THEN "done" ELSE "sent",
         !.answer = IF config = "none" THEN "unconfigured" ELSE "none",
         !.agent = id, !.tool = tool, !.by = attached[id].by,
         !.to = IF config = "none" THEN "none" ELSE client',
         !.disturbed = id \in disturbed]]
    /\ UNCHANGED <<hostVars, config, moves, attached, running, opVars, disturbed>>

Answered(k, answer) ==
  call' = [call EXCEPT ![k] = [@ EXCEPT !.stage = "done", !.to = "none", !.answer = answer]]

(* ToolCallbackServer.handle takes the mutex. *)
Deliver(k) ==
  /\ call[k].stage = "sent"
  /\ \/ call[k].to # "ours" /\ Answered(k, "elsewhere") /\ UNCHANGED lock
     \/ call[k].to = "ours" /\ ~open /\ Answered(k, "unavailable") /\ UNCHANGED lock
     \/ /\ call[k].to = "ours" /\ open /\ lock = 0
        /\ lock' = k /\ call' = [call EXCEPT ![k].stage = "looking", ![k].to = "none"]
  /\ UNCHANGED <<open, registered, bridgeVars, opVars, disturbed>>

(* The first answer the agent hears is the one that counts. *)
HandlerDone(k, answer) ==
  call' = [call EXCEPT ![k] = [@ EXCEPT !.stage = "done",
                                 !.answer = IF call[k].answer = "none" THEN answer
                                            ELSE call[k].answer]]

(* The handler executes; it may be one that calls the SDK.                 *)
Executing(k, by) ==
  \E stage \in {"executing", "calling"} :
    call' = [call EXCEPT ![k].stage = stage, ![k].handler = by]

(* Mutation of LookUp: the mutex is held while the handler executes. *)
LookUpLocked(k) ==
  /\ call[k].stage = "looking"
  /\ LET tools == registered[call[k].agent] IN
     IF call[k].tool \in tools.names THEN Executing(k, tools.by) /\ UNCHANGED lock
     ELSE HandlerDone(k, "notfound") /\ lock' = 0
  /\ UNCHANGED <<open, registered, bridgeVars, opVars, disturbed>>

LookUp(k) ==
  /\ call[k].stage = "looking"
  /\ lock' = 0
  /\ LET tools == registered[call[k].agent] IN
     IF call[k].tool \in tools.names THEN Executing(k, tools.by)
     ELSE HandlerDone(k, "notfound")
  /\ UNCHANGED <<open, registered, bridgeVars, opVars, disturbed>>

(* What it calls is here Agent.Close, for its own agent. *)
CloseWithin(k) ==
  /\ call[k].stage = "calling"
  /\ Unregister(call[k].agent)
  /\ disturbed' = disturbed \cup {call[k].agent}
  /\ call' = [j \in DOMAIN call |-> [call[j] EXCEPT
       !.stage = IF j = k THEN "closing" ELSE @,
       !.disturbed = @ \/ call[j].agent = call[k].agent]]
  /\ UNCHANGED <<open, lock, bridgeVars, opVars>>

ClosedWithin(k) ==
  /\ call[k].stage = "closing"
  /\ call' = [call EXCEPT ![k].stage = "closed"]
  /\ Gone(call[k].agent) \/ UNCHANGED <<attached, running>>
  /\ UNCHANGED <<hostVars, config, client, moves, opVars, disturbed>>

(* The bridge reads the reply as a CallCustomToolResponse, whose result is *)
(* a Struct: another value is no such message, and an error in the reply   *)
(* is a field it does not know, so that no result is left.                 *)
ReplyRead == [object |-> "ok", text |-> "undecodable", error |-> "noresult"]

HandlerReturns(k) ==
  /\ call[k].stage \in {"executing", "closed"}
  /\ lock' = IF lock = k THEN 0 ELSE lock
  /\ \E value \in DOMAIN ReplyRead : HandlerDone(k, ReplyRead[value])
  /\ UNCHANGED <<open, registered, bridgeVars, opVars, disturbed>>

-----------------------------------------------------------------------------

Program == ServerClose \/ \E n \in Ops :
  Create(n) \/ CreateRefused(n) \/ Resume(n) \/ Send(n) \/ Close(n)
    \/ CreateEnds(n) \/ ResumeEnds(n) \/ SendEnds(n) \/ CloseEnds(n)

Bridge ==
  \/ RunEnds
  \/ \E address \in {"ours", "other", "none"} : SetToolCallback(address)
  \/ \E n \in Ops : Created(n) \/ Resumed(n) \/ Sent(n) \/ Closed(n) \/ Failed(n)

Serve(k) == Deliver(k) \/ LookUp(k) \/ CloseWithin(k) \/ ClosedWithin(k) \/ HandlerReturns(k)

Next == Program \/ Bridge \/ \E k \in 1 .. MaxCalls : ToolCall(k) \/ Serve(k)

(* The callback server's goroutines run, and a handler ends what it does.  *)
(* Go's mutex hands itself to the goroutine that has waited too long, so   *)
(* that calls and handlers get it however many others want it too.         *)
Fairness ==
  \A k \in 1 .. MaxCalls : WF_vars(Serve(k)) /\ SF_vars(Deliver(k)) /\ SF_vars(CloseWithin(k))

Spec == Init /\ [][Next]_vars /\ Fairness

-----------------------------------------------------------------------------

(* A tool call goes to the address last configured, however often the      *)
(* address changed while earlier calls kept a client for the old one.      *)
CurrentAddress ==
  [][\A k \in 1 .. MaxCalls :
       call[k].stage # "sent" /\ call'[k].stage = "sent" => call'[k].to = config]_vars

(* A call that reaches the program's server finds a handler, and it is the *)
(* one given with the tool, however operations on its own and on other     *)
(* agents overlap.  Not for an agent whose registration was replaced or    *)
(* taken away: by a Resume of its id, by a create that asked for its id    *)
(* (refused or not), by a Send with tools or by Close; until a resume or   *)
(* create of it has succeeded with nothing else going on (Settle).         *)
RightHandler ==
  \A k \in 1 .. MaxCalls : ~call[k].disturbed =>
    /\ call[k].answer # "notfound"
    /\ call[k].handler \in {0, call[k].by}

(* No tools stay under Pending once every create is over, except those of  *)
(* a create that was refused for its idempotency key.                      *)
NoPending ==
  ~abandoned /\ (\A n \in Ops : op[n].kind = "create" => op[n].key # Pending) =>
    registered[Pending] = NoTools

(* Every tool call is answered, also when its handler calls back into the  *)
(* SDK: the agent's run does not hang on a tool.                           *)
CallsAnswered ==
  \A k \in 1 .. MaxCalls : call[k].stage = "sent" ~> call[k].answer # "none"

(* callback_test.go: a tool that returns a string has returned a result.   *)
TextResults ==
  \A k \in 1 .. MaxCalls : call[k].answer # "undecodable"
=============================================================================
