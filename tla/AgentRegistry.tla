---------------------------- MODULE AgentRegistry ----------------------------
(***************************************************************************)
(* The bridge's registry of agents and runs (bridge/src/registry.ts) and   *)
(* the RPC handlers that change it (bridge/src/sdk-service.ts).            *)
(*                                                                         *)
(* Handlers run concurrently: each awaits the SDK, and whatever it read    *)
(* before the await may have changed behind it.  One action is what a      *)
(* handler does between two awaits.  An agent object may be registered     *)
(* under several ids: the SDK may give an agent a new id during a Send.    *)
(***************************************************************************)
EXTENDS Naturals, FiniteSets

CONSTANTS
  Ids,        \* agent ids
  Handlers,   \* concurrent RPC handlers
  MaxObjects  \* bound: agent objects the SDK makes

ASSUME RegistryBounds == MaxObjects \in Nat

None == 0
Objects == 1..MaxObjects

VARIABLES
  agents,      \* registry.agents: the object registered under an id, or None
  cloudIds,    \* registry.cloudAgentIds
  runs,        \* registry.runs: the agent a run was sent to, if any, and run.agentId
  made,        \* objects made so far
  agentId,     \* agent.agentId of each object
  cloud,       \* the object was made for the cloud
  disposals,   \* calls of the object's asyncDispose: none, one, or 2 for more
  handler,     \* where each handler is, and what it holds
  listening,   \* the HTTP server takes calls
  raced,       \* history: objects that calls in flight together disagreed about
  closed       \* history: objects a closeAgent has finished with

vars == << agents, cloudIds, runs, made, agentId, cloud, disposals, handler,
           listening, raced, closed >>

Idle == [at |-> "idle", object |-> None, old |-> None, id |-> None,
         ids |-> {}, cloud |-> FALSE]

HandlerStates ==
  [at: {"idle", "replacing", "closing", "sending", "adopting"},
   object: 0..MaxObjects, old: 0..MaxObjects, id: Ids \union {None},
   ids: SUBSET Ids, cloud: BOOLEAN]

Registered == {id \in Ids : agents[id] # None}

\* Types.  A cloud flag stands only on a registered id.
TypeOK ==
  /\ agents \in [Ids -> 0..made]
  /\ cloudIds \subseteq Registered
  /\ runs \subseteq [agent: 0..made, id: Ids]
  /\ made \in 0..MaxObjects
  /\ agentId \in [Objects -> Ids \union {None}]
  /\ cloud \in [Objects -> BOOLEAN]
  /\ disposals \in [Objects -> 0..2]
  /\ handler \in [Handlers -> HandlerStates]
  /\ listening \in BOOLEAN
  /\ raced \subseteq 1..made
  /\ closed \subseteq 1..made

Init ==
  /\ agents = [id \in Ids |-> None]
  /\ cloudIds = {}
  /\ runs = {}
  /\ made = 0
  /\ agentId = [o \in Objects |-> None]
  /\ cloud = [o \in Objects |-> FALSE]
  /\ disposals = [o \in Objects |-> 0]
  /\ handler = [h \in Handlers |-> Idle]
  /\ listening = TRUE
  /\ raced = {}
  /\ closed = {}

-----------------------------------------------------------------------------
(* The registry.                                                           *)

\* Mutation of AgentIdsFor: only the object's own id.
AgentIdsForOwn(o) == {id \in Ids : o # None /\ agents[id] = o /\ agentId[o] = id}

AgentIdsFor(o) == {id \in Ids : agents[id] = o /\ o # None}

\* Mutation of DeleteIds: the cloud flags stay.
DeleteIdsKeepsCloud(ids) ==
  /\ agents' = [id \in Ids |-> IF id \in ids THEN None ELSE agents[id]]
  /\ UNCHANGED cloudIds

DeleteIds(ids) ==
  /\ agents' = [id \in Ids |-> IF id \in ids THEN None ELSE agents[id]]
  /\ cloudIds' = cloudIds \ ids

\* Mutation of Put: the flag of the agent replaced is kept.
PutKeepsFlag(old, id, o, isCloud) ==
  LET removed == AgentIdsFor(old)
  IN  /\ agents' = [i \in Ids |-> IF i = id THEN o
                                  ELSE IF i \in removed THEN None
                                  ELSE agents[i]]
      /\ cloudIds' = (cloudIds \ (removed \ {id})) \union (IF isCloud THEN {id} ELSE {})

\* The end of registerAgent: the agent replaced loses all its ids, the new
\* one gets its own.
Put(old, id, o, isCloud) ==
  LET removed == AgentIdsFor(old)
  IN  /\ agents' = [i \in Ids |-> IF i = id THEN o
                                  ELSE IF i \in removed THEN None
                                  ELSE agents[i]]
      /\ cloudIds' = (cloudIds \ (removed \union {id})) \union (IF isCloud THEN {id} ELSE {})

Again(n) == IF n = 0 THEN 1 ELSE 2

Dispose(o) == disposals' = [disposals EXCEPT ![o] = Again(@)]

\* Two calls race on an agent when they share an object or an id and at least
\* one of them registers, removes or renames it.  A call that is to register
\* its object in the end lays claim to whatever id the object has by then.
InFlight(h) == handler[h].at # "idle"
Free(h) == listening /\ ~InFlight(h)
Lifecycle(at) == at \in {"replacing", "closing", "adopting"}
Touched(h) == {handler[h].object, handler[h].old} \ {None}
Claims(h) ==
  handler[h].ids \union
    (IF handler[h].at = "adopting" THEN {agentId[handler[h].object]} ELSE {})

Rivals(h, at, objects, ids) ==
  {g \in Handlers \ {h} :
     /\ InFlight(g)
     /\ Lifecycle(at) \/ Lifecycle(handler[g].at)
     /\ Touched(g) \intersect objects # {} \/ Claims(g) \intersect ids # {}}

Meet(h, at, objects, ids) ==
  LET rivals == Rivals(h, at, objects \ {None}, ids)
  IN  raced' = IF rivals = {} THEN raced
               ELSE raced \union (objects \ {None}) \union UNION {Touched(g) : g \in rivals}

\* A handler goes on to await the SDK.
Await(h, at, object, old, id, ids, isCloud) ==
  /\ handler' = [handler EXCEPT ![h] =
       [at |-> at, object |-> object, old |-> old, id |-> id, ids |-> ids, cloud |-> isCloud]]
  /\ Meet(h, at, {object, old}, ids)

Finish(h) ==
  /\ handler' = [handler EXCEPT ![h] = Idle]
  /\ UNCHANGED raced

-----------------------------------------------------------------------------
(* The handlers.                                                           *)

Make(o, id, isCloud) ==
  /\ made < MaxObjects
  /\ made' = o
  /\ agentId' = [agentId EXCEPT ![o] = id]
  /\ cloud' = [cloud EXCEPT ![o] = isCloud]

\* Mutation of Register: the agent in place is not disposed of.
RegisterOver(h, id, isCloud) ==
  LET o == made + 1
  IN  /\ Free(h)
      /\ Make(o, id, isCloud)
      /\ Put(agents[id], id, o, isCloud)
      /\ Meet(h, "replacing", {o, agents[id]}, {id})
      /\ UNCHANGED << runs, disposals, handler, listening, closed >>

\* createAgent and resumeAgent: the SDK has made an object, and registerAgent
\* finds its id free or begins to dispose of the agent there.
Register(h, id, isCloud) ==
  LET o == made + 1
      old == agents[id]
  IN  /\ Free(h)
      /\ Make(o, id, isCloud)
      /\ \/ /\ old = None
            /\ Put(None, id, o, isCloud)
            /\ Meet(h, "replacing", {o}, {id})
            /\ UNCHANGED << disposals, handler >>
         \/ /\ old # None
            /\ Dispose(old)
            /\ Await(h, "replacing", o, old, id, {id} \union AgentIdsFor(old), isCloud)
            /\ UNCHANGED << agents, cloudIds >>
      /\ UNCHANGED << runs, listening, closed >>

\* The agent replaced is disposed of, or failed to be: its ids go either way.
Replaced(h) ==
  LET o == handler[h].object
  IN  /\ handler[h].at = "replacing"
      /\ Put(handler[h].old, agentId[o], o, handler[h].cloud)
      /\ Finish(h)
      /\ UNCHANGED << runs, made, agentId, cloud, disposals, listening, closed >>

\* closeAgent: the ids to remove are determined before the await.
CloseAgent(h, id) ==
  /\ Free(h)
  /\ agents[id] # None
  /\ Dispose(agents[id])
  /\ Await(h, "closing", agents[id], None, id, AgentIdsFor(agents[id]), FALSE)
  /\ UNCHANGED << agents, cloudIds, runs, made, agentId, cloud, listening, closed >>

\* Mutation of Closed: only the runs of the id asked for go.
ClosedRunsOfId(h) ==
  /\ handler[h].at = "closing"
  /\ DeleteIds(handler[h].ids)
  /\ runs' = {r \in runs : r.id # handler[h].id}
  /\ closed' = closed \union {handler[h].object}
  /\ Finish(h)
  /\ UNCHANGED << made, agentId, cloud, disposals, listening >>

\* The agent is disposed of, or failed to be.
Closed(h) ==
  /\ handler[h].at = "closing"
  /\ DeleteIds(handler[h].ids)
  /\ runs' = {r \in runs : r.id \notin handler[h].ids}
  /\ closed' = closed \union {handler[h].object}
  /\ Finish(h)
  /\ UNCHANGED << made, agentId, cloud, disposals, listening >>

\* send, up to agent.send: the cloud flag is read before the await.
Send(h, id) ==
  /\ Free(h)
  /\ agents[id] # None
  /\ Await(h, "sending", agents[id], None, id, AgentIdsFor(agents[id]), id \in cloudIds)
  /\ UNCHANGED << agents, cloudIds, runs, made, agentId, cloud, disposals,
                  listening, closed >>

RegisterRun(o, id) == runs' = runs \union {[agent |-> o, id |-> id]}

\* agent.send has returned a run under runId; the agent's id is now newId.
\* One that is not the id asked for is registered too, in the place of
\* another agent if need be.
SendReturns(h, newId, runId) ==
  LET o == handler[h].object
      old == agents[newId]
      ids == handler[h].ids \union {newId} \union AgentIdsFor(old)
  IN  /\ handler[h].at = "sending"
      /\ newId \in {agentId[o]} \/ disposals[o] = 0
      /\ runId \in {handler[h].id, newId}
      /\ agentId' = [agentId EXCEPT ![o] = newId]
      /\ \/ /\ newId = handler[h].id
            /\ RegisterRun(o, runId)
            /\ Finish(h)
            /\ UNCHANGED << agents, cloudIds, disposals >>
         \/ /\ newId # handler[h].id
            /\ old \in {None, o}
            /\ Put(None, newId, o, handler[h].cloud)
            /\ RegisterRun(o, runId)
            /\ Meet(h, "adopting", {o}, ids)
            /\ handler' = [handler EXCEPT ![h] = Idle]
            /\ UNCHANGED disposals
         \/ /\ newId # handler[h].id
            /\ old \notin {None, o}
            /\ Dispose(old)
            /\ Await(h, "adopting", o, old, runId, ids, handler[h].cloud)
            /\ UNCHANGED << agents, cloudIds, runs >>
      /\ UNCHANGED << made, cloud, listening, closed >>

\* The agent whose id the sent one took is disposed of; when that fails the
\* call ends before the run is registered.
Adopted(h, fails) ==
  LET o == handler[h].object
  IN  /\ handler[h].at = "adopting"
      /\ Put(handler[h].old, agentId[o], o, handler[h].cloud)
      /\ IF fails THEN UNCHANGED runs ELSE RegisterRun(o, handler[h].id)
      /\ Finish(h)
      /\ UNCHANGED << made, agentId, cloud, disposals, listening, closed >>

SendFails(h) ==
  /\ handler[h].at = "sending"
  /\ Finish(h)
  /\ UNCHANGED << agents, cloudIds, runs, made, agentId, cloud, disposals,
                  listening, closed >>

\* getRun, listRuns and observeRun register any run the SDK knows.
FetchRun(h, id) ==
  /\ Free(h)
  /\ RegisterRun(None, id)
  /\ UNCHANGED << agents, cloudIds, made, agentId, cloud, disposals, handler,
                  listening, raced, closed >>

\* registry.dispose, called once the server has closed and every call ended.
DisposeAll ==
  /\ listening
  /\ \A h \in Handlers : ~InFlight(h)
  /\ listening' = FALSE
  /\ disposals' = [o \in Objects |-> IF AgentIdsFor(o) = {} THEN disposals[o] ELSE Again(disposals[o])]
  /\ agents' = [id \in Ids |-> None]
  /\ cloudIds' = {}
  /\ runs' = {}
  /\ UNCHANGED << made, agentId, cloud, handler, raced, closed >>

Terminated == ~listening /\ UNCHANGED vars

Next ==
  \/ \E h \in Handlers :
       \/ \E id \in Ids, isCloud \in BOOLEAN : Register(h, id, isCloud)
       \/ \E id \in Ids : CloseAgent(h, id) \/ Send(h, id) \/ FetchRun(h, id)
       \/ \E newId, runId \in Ids : SendReturns(h, newId, runId)
       \/ \E fails \in BOOLEAN : Adopted(h, fails)
       \/ Replaced(h) \/ Closed(h) \/ SendFails(h)
  \/ DisposeAll
  \/ Terminated

Spec == Init /\ [][Next]_vars

-----------------------------------------------------------------------------
(* Properties.                                                             *)

\* Whatever calls overlap, an id is marked as a cloud agent's exactly while
\* a cloud agent is registered under it: send and createAgent accept an
\* Idempotency-Key, and reject local options, by that mark.
CloudFlags ==
  \A id \in Registered : id \in cloudIds <=> cloud[agents[id]]

Held(o) == \E h \in Handlers : o \in Touched(h)

\* An agent no calls raced on is never lost: until it has been disposed of, it
\* is registered under its current id or in the hands of a call.
NoLeak ==
  \A o \in (1..made) \ raced :
    disposals[o] = 0 => Held(o) \/ agents[agentId[o]] = o

\* An agent no calls raced on is disposed of at most once, and once it is it
\* can be looked up only until the call that disposes of it ends.
DisposedOnce ==
  \A o \in (1..made) \ raced :
    /\ disposals[o] <= 1
    /\ disposals[o] = 1 => Held(o) \/ AgentIdsFor(o) = {}

\* closeAgent takes with it the runs sent to the agent under any id it had.
RunsGoWithAgent ==
  \A r \in runs : r.agent = None \/ r.agent \in raced \/ r.agent \notin closed

=============================================================================
