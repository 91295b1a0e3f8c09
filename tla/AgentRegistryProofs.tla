------------------------- MODULE AgentRegistryProofs -------------------------
(***************************************************************************)
(* The registry, for any number of ids, handlers and agents: its types and *)
(* cloud marks by the inductive invariant IInv, and by Ownership, which    *)
(* says whose each agent is, that it loses none, disposes of none twice    *)
(* and drops the runs of those it closes.                                  *)
(***************************************************************************)
EXTENDS AgentRegistry, TLAPS

\* What a handler carries over an await: an agent that was made, and the mark
\* its agent was made with.
Carries(h) ==
  /\ handler[h].object \in 0..made
  /\ handler[h].old \in 0..made
  /\ handler[h].at # "idle" => handler[h].object # None /\ handler[h].id \in Ids
  /\ handler[h].at \in {"replacing", "sending", "adopting"} =>
       handler[h].cloud = cloud[handler[h].object]

\* The inductive invariant.
IInv ==
  /\ TypeOK
  /\ \A o \in 1..made : agentId[o] \in Ids
  /\ \A h \in Handlers : Carries(h)
  /\ CloudFlags

-----------------------------------------------------------------------------
(* What the registry's operations do to the marks.                         *)

\* Registering an agent with its own mark keeps the marks right.
LEMMA PutFlags ==
  ASSUME TypeOK, CloudFlags,
         NEW old, NEW id \in Ids, NEW o \in 1..made', NEW isCloud \in BOOLEAN,
         Put(old, id, o, isCloud),
         made' \in Nat, made <= made',
         cloud'[o] = isCloud,
         \A p \in 1..made : cloud'[p] = cloud[p]
  PROVE  /\ agents' \in [Ids -> 0..made']
         /\ cloudIds' \subseteq Registered'
         /\ CloudFlags'
  <1>1. agents' = [i \in Ids |-> IF i = id THEN o
                                 ELSE IF i \in AgentIdsFor(old) THEN None
                                 ELSE agents[i]]
    BY DEF Put
  <1>2. cloudIds' = (cloudIds \ (AgentIdsFor(old) \union {id}))
                      \union (IF isCloud THEN {id} ELSE {})
    BY DEF Put
  <1>3. agents \in [Ids -> 0..made] /\ made \in Nat /\ cloudIds \subseteq Registered
    BY RegistryBounds DEF TypeOK
  <1>4. agents' \in [Ids -> 0..made']
    BY <1>1, <1>3 DEF None
  <1>5. \A i \in Ids : i \in cloudIds' => agents'[i] # None
    BY <1>1, <1>2, <1>3 DEF Registered, None
  <1>6. \A i \in Ids : agents'[i] # None => (i \in cloudIds' <=> cloud'[agents'[i]])
    <2> SUFFICES ASSUME NEW i \in Ids, agents'[i] # None
                 PROVE  i \in cloudIds' <=> cloud'[agents'[i]]
      OBVIOUS
    <2>1. CASE i = id
      BY <2>1, <1>1, <1>2
    <2>2. CASE i # id
      <3>1. agents'[i] = agents[i] /\ i \notin AgentIdsFor(old)
        BY <2>2, <1>1
      <3>2. i \in Registered /\ agents[i] \in 1..made
        BY <3>1, <1>3 DEF Registered, None
      <3>3. i \in cloudIds' <=> i \in cloudIds
        BY <1>2, <2>2, <3>1
      <3> QED
        BY <3>1, <3>2, <3>3 DEF CloudFlags
    <2> QED
      BY <2>1, <2>2
  <1>7. cloudIds' \subseteq Ids
    BY <1>2, <1>3 DEF Registered
  <1> QED
    BY <1>4, <1>5, <1>6, <1>7 DEF Registered, CloudFlags

\* Removing ids keeps the marks of the others.
LEMMA DeleteFlags ==
  ASSUME TypeOK, CloudFlags, NEW ids, DeleteIds(ids),
         UNCHANGED << made, cloud >>
  PROVE  /\ agents' \in [Ids -> 0..made']
         /\ cloudIds' \subseteq Registered'
         /\ CloudFlags'
  <1>1. agents' = [i \in Ids |-> IF i \in ids THEN None ELSE agents[i]]
    BY DEF DeleteIds
  <1>2. cloudIds' = cloudIds \ ids
    BY DEF DeleteIds
  <1>3. agents \in [Ids -> 0..made] /\ made \in Nat /\ cloudIds \subseteq Registered
    BY RegistryBounds DEF TypeOK
  <1>4. agents' \in [Ids -> 0..made']
    BY <1>1, <1>3 DEF None
  <1>5. cloudIds' \subseteq Registered'
    BY <1>1, <1>2, <1>3 DEF Registered
  <1>6. CloudFlags'
    BY <1>1, <1>2, <1>3 DEF Registered, CloudFlags
  <1> QED
    BY <1>4, <1>5, <1>6

\* Nothing happens to the marks while the registry is left alone.
LEMMA SameFlags ==
  ASSUME TypeOK, CloudFlags, UNCHANGED << agents, cloudIds >>,
         made' \in Nat, made <= made',
         \A p \in 1..made : cloud'[p] = cloud[p]
  PROVE  /\ agents' \in [Ids -> 0..made']
         /\ cloudIds' \subseteq Registered'
         /\ CloudFlags'
  <1>1. agents \in [Ids -> 0..made] /\ made \in Nat /\ cloudIds \subseteq Registered
    BY RegistryBounds DEF TypeOK
  <1>2. \A i \in Registered : agents[i] \in 1..made
    BY <1>1 DEF Registered, None
  <1> QED
    BY <1>1, <1>2 DEF Registered, CloudFlags

-----------------------------------------------------------------------------
(* What a step does to the handlers and to the objects raced on.           *)

\* What holds of the objects made by the end of a step that makes one or none.
MadeMore ==
  /\ made' \in 0..MaxObjects
  /\ made <= made'
  /\ \A p \in 1..made : cloud'[p] = cloud[p]

\* Only objects that were made are raced on.
LEMMA MeetTypes ==
  ASSUME TypeOK, \A h \in Handlers : Carries(h), MadeMore,
         NEW g, NEW at, NEW objects \in SUBSET (0..made'), NEW ids,
         Meet(g, at, objects, ids)
  PROVE  raced' \subseteq 1..made'
  <1>1. \A h \in Handlers : Touched(h) \subseteq 1..made'
    BY RegistryBounds DEF MadeMore, Carries, Touched, None, TypeOK
  <1>2. Rivals(g, at, objects \ {None}, ids) \subseteq Handlers
    BY DEF Rivals
  <1>3. objects \ {None} \subseteq 1..made'
    BY RegistryBounds DEF None, MadeMore
  <1>4. raced \subseteq 1..made'
    BY RegistryBounds DEF TypeOK, MadeMore
  <1> QED
    BY <1>1, <1>2, <1>3, <1>4 DEF Meet

\* A handler that goes on to await carries what it should.
LEMMA AwaitTypes ==
  ASSUME TypeOK, \A h \in Handlers : Carries(h), MadeMore,
         NEW g \in Handlers,
         NEW at \in {"replacing", "closing", "sending", "adopting"},
         NEW object \in 1..made', NEW old \in 0..made', NEW id \in Ids,
         NEW ids \in SUBSET Ids, NEW isCloud \in BOOLEAN,
         at # "closing" => isCloud = cloud'[object],
         Await(g, at, object, old, id, ids, isCloud)
  PROVE  /\ handler' \in [Handlers -> HandlerStates]
         /\ \A h \in Handlers : Carries(h)'
         /\ raced' \subseteq 1..made'
  <1> DEFINE new == [at |-> at, object |-> object, old |-> old, id |-> id,
                     ids |-> ids, cloud |-> isCloud]
  <1>1. handler' = [handler EXCEPT ![g] = new] /\ Meet(g, at, {object, old}, ids)
    BY DEF Await
  <1>2. raced' \subseteq 1..made'
    <2>1. {object, old} \in SUBSET (0..made')
      BY RegistryBounds DEF MadeMore
    <2> QED
      BY <1>1, <2>1, MeetTypes
  <1>3. new \in HandlerStates
    BY RegistryBounds DEF HandlerStates, MadeMore
  <1>4. handler' \in [Handlers -> HandlerStates]
    BY <1>1, <1>3 DEF TypeOK
  <1>5. ASSUME NEW h \in Handlers PROVE Carries(h)'
    <2>1. CASE h = g
      <3>1. handler'[h] = new
        BY <1>1, <2>1 DEF TypeOK
      <3> QED
        BY <3>1, RegistryBounds DEF Carries, None, MadeMore
    <2>2. CASE h # g
      <3>1. handler'[h] = handler[h]
        BY <1>1, <2>2 DEF TypeOK
      <3>2. Carries(h)
        OBVIOUS
      <3>3. made \in Nat /\ made' \in Nat /\ made <= made'
        BY RegistryBounds DEF TypeOK, MadeMore
      <3>4. handler[h].at \in {"replacing", "sending", "adopting"} =>
              handler[h].object \in 1..made
        BY <3>2, <3>3 DEF Carries, None
      <3> QED
        BY <3>1, <3>2, <3>3, <3>4 DEF Carries, MadeMore
    <2> QED
      BY <2>1, <2>2
  <1> QED
    BY <1>2, <1>4, <1>5

\* So do handlers that a step leaves alone, or that end.
LEMMA HandlersStay ==
  ASSUME TypeOK, \A h \in Handlers : Carries(h), MadeMore,
         handler' = handler \/ \E g \in Handlers : handler' = [handler EXCEPT ![g] = Idle]
  PROVE  /\ handler' \in [Handlers -> HandlerStates]
         /\ \A h \in Handlers : Carries(h)'
  <1>1. Idle \in HandlerStates
    BY RegistryBounds DEF Idle, HandlerStates, None
  <1>2. handler' \in [Handlers -> HandlerStates]
    BY <1>1 DEF TypeOK
  <1>3. ASSUME NEW h \in Handlers PROVE Carries(h)'
    <2>1. made \in Nat /\ made' \in Nat /\ made <= made'
      BY RegistryBounds DEF TypeOK, MadeMore
    <2>2. CASE handler'[h] = Idle
      BY <2>1, <2>2 DEF Carries, Idle, None
    <2>3. CASE handler'[h] = handler[h]
      <3>1. Carries(h)
        OBVIOUS
      <3>2. handler[h].at \in {"replacing", "sending", "adopting"} =>
              handler[h].object \in 1..made
        BY <2>1, <3>1 DEF Carries, None
      <3> QED
        BY <2>1, <2>3, <3>1, <3>2 DEF Carries, MadeMore
    <2>4. handler'[h] = Idle \/ handler'[h] = handler[h]
      BY DEF TypeOK
    <2> QED
      BY <2>2, <2>3, <2>4
  <1> QED
    BY <1>2, <1>3

-----------------------------------------------------------------------------
(* The steps.                                                              *)

\* The conjuncts of the invariant that are neither about the registry's maps
\* nor about the handlers.
Books ==
  /\ runs \subseteq [agent: 0..made, id: Ids]
  /\ made \in 0..MaxObjects
  /\ agentId \in [Objects -> Ids \union {None}]
  /\ cloud \in [Objects -> BOOLEAN]
  /\ disposals \in [Objects -> 0..2]
  /\ listening \in BOOLEAN
  /\ closed \subseteq 1..made
  /\ \A o \in 1..made : agentId[o] \in Ids

\* The parts make up the invariant of the next state.
LEMMA Assemble ==
  ASSUME agents' \in [Ids -> 0..made'], cloudIds' \subseteq Registered',
         CloudFlags', handler' \in [Handlers -> HandlerStates],
         \A h \in Handlers : Carries(h)', raced' \subseteq 1..made', Books'
  PROVE  IInv'
  BY DEF IInv, TypeOK, Books

\* The invariant gives what the lemmas assume, and a step that makes no object
\* leaves its objects as they were.
LEMMA Given ==
  ASSUME IInv
  PROVE  /\ TypeOK /\ CloudFlags /\ Books
         /\ \A h \in Handlers : Carries(h)
         /\ UNCHANGED << made, cloud >> => MadeMore
         /\ made \in Nat /\ raced \subseteq 1..made
         /\ 1..made \subseteq Objects
  BY RegistryBounds DEF IInv, TypeOK, Books, MadeMore, Objects

\* Disposing of an object keeps the counts.
LEMMA DisposeCounts ==
  ASSUME disposals \in [Objects -> 0..2], NEW o, Dispose(o)
  PROVE  disposals' \in [Objects -> 0..2]
  <1>1. \A n : Again(n) \in 0..2
    BY DEF Again
  <1>2. disposals' = [disposals EXCEPT ![o] = Again(disposals[o])]
    BY DEF Dispose
  <1> QED
    BY <1>1, <1>2

\* An id of an object is an id.
LEMMA IdsOfAgents ==
  /\ \A o : AgentIdsFor(o) \subseteq Ids
  BY DEF AgentIdsFor

\* registerAgent puts a new agent under an id that is free, or carries it over the
\* disposal of the one it replaces.
LEMMA RegisterIInv ==
  ASSUME IInv, NEW h \in Handlers, NEW id \in Ids, NEW isCloud \in BOOLEAN,
         Register(h, id, isCloud)
  PROVE  IInv'
  <1> DEFINE o == made + 1
             old == agents[id]
  <1>1. /\ made < MaxObjects /\ made' = o
        /\ agentId' = [agentId EXCEPT ![o] = id]
        /\ cloud' = [cloud EXCEPT ![o] = isCloud]
        /\ UNCHANGED << runs, listening, closed >>
    BY DEF Register, Make
  <1>2. TypeOK /\ CloudFlags /\ Books /\ made \in Nat
        /\ \A g \in Handlers : Carries(g)
    BY Given
  <1>3. MadeMore /\ cloud'[o] = isCloud /\ o \in 1..made' /\ made' \in Nat /\ made <= made'
    BY <1>1, <1>2, RegistryBounds DEF MadeMore, Books, Objects
  <1>4. disposals' \in [Objects -> 0..2] => Books'
    <2> HAVE disposals' \in [Objects -> 0..2]
    <2>1. runs' \subseteq [agent: 0..made', id: Ids] /\ closed' \subseteq 1..made'
      BY <1>1, <1>2, <1>3 DEF Books
    <2>2. /\ agentId' \in [Objects -> Ids \union {None}]
          /\ cloud' \in [Objects -> BOOLEAN]
      BY <1>1, <1>2 DEF Books
    <2>3. \A p \in 1..made' : agentId'[p] \in Ids
      BY <1>1, <1>2, RegistryBounds DEF Books, Objects
    <2>4. made' \in 0..MaxObjects /\ listening' \in BOOLEAN
      BY <1>1, <1>2, <1>3 DEF Books, MadeMore
    <2> QED
      BY <2>1, <2>2, <2>3, <2>4 DEF Books
  <1>5. CASE old = None
    <2>1. /\ Put(None, id, o, isCloud)
          /\ Meet(h, "replacing", {o}, {id})
          /\ UNCHANGED << disposals, handler >>
      BY <1>5 DEF Register
    <2>2. /\ agents' \in [Ids -> 0..made'] /\ cloudIds' \subseteq Registered'
          /\ CloudFlags'
      BY <1>2, <1>3, <2>1, PutFlags DEF MadeMore
    <2>3. {o} \in SUBSET (0..made')
      BY <1>2, <1>3
    <2>4. raced' \subseteq 1..made'
      BY <1>2, <1>3, <2>1, <2>3, MeetTypes
    <2>5. /\ handler' \in [Handlers -> HandlerStates]
          /\ \A g \in Handlers : Carries(g)'
      BY <1>2, <1>3, <2>1, HandlersStay
    <2>6. Books'
      BY <1>2, <1>4, <2>1 DEF Books
    <2> QED
      BY <2>2, <2>4, <2>5, <2>6, Assemble
  <1>6. CASE old # None
    <2>1. /\ Dispose(old)
          /\ Await(h, "replacing", o, old, id, {id} \union AgentIdsFor(old), isCloud)
          /\ UNCHANGED << agents, cloudIds >>
      BY <1>6 DEF Register
    <2>2. /\ agents' \in [Ids -> 0..made'] /\ cloudIds' \subseteq Registered'
          /\ CloudFlags'
      BY <1>2, <1>3, <2>1, SameFlags DEF MadeMore
    <2>3. old \in 0..made' /\ {id} \union AgentIdsFor(old) \in SUBSET Ids
      BY <1>2, <1>3, IdsOfAgents DEF TypeOK
    <2>4. /\ handler' \in [Handlers -> HandlerStates]
          /\ \A g \in Handlers : Carries(g)'
          /\ raced' \subseteq 1..made'
      BY <1>2, <1>3, <2>1, <2>3, AwaitTypes
    <2>5. Books'
      BY <1>2, <1>4, <2>1, DisposeCounts DEF Books
    <2> QED
      BY <2>2, <2>4, <2>5, Assemble
  <1> QED
    BY <1>5, <1>6

\* closeAgent and what follows its disposal only take references away.
LEMMA CloseIInv ==
  ASSUME IInv, NEW h \in Handlers, NEW id \in Ids,
         CloseAgent(h, id) \/ Closed(h)
  PROVE  IInv'
  <1>1. /\ TypeOK /\ CloudFlags /\ Books /\ made \in Nat
        /\ \A g \in Handlers : Carries(g)
    BY Given
  <1>2. UNCHANGED << made, agentId, cloud, listening >>
    BY DEF CloseAgent, Closed
  <1>3. MadeMore
    BY <1>2, Given
  <1>4. CASE CloseAgent(h, id)
    <2>1. /\ agents[id] # None /\ Dispose(agents[id])
          /\ Await(h, "closing", agents[id], None, id, AgentIdsFor(agents[id]), FALSE)
          /\ UNCHANGED << agents, cloudIds, runs, closed >>
      BY <1>4 DEF CloseAgent
    <2>2. /\ agents' \in [Ids -> 0..made'] /\ cloudIds' \subseteq Registered'
          /\ CloudFlags'
      BY <1>1, <1>2, <2>1, SameFlags
    <2>3. /\ agents[id] \in 1..made' /\ None \in 0..made'
          /\ AgentIdsFor(agents[id]) \in SUBSET Ids
      BY <1>1, <1>2, <2>1, IdsOfAgents DEF TypeOK, None
    <2>4. /\ handler' \in [Handlers -> HandlerStates]
          /\ \A g \in Handlers : Carries(g)'
          /\ raced' \subseteq 1..made'
      BY <1>1, <1>3, <2>1, <2>3, AwaitTypes
    <2>5. Books'
      BY <1>1, <1>2, <2>1, DisposeCounts DEF Books
    <2> QED
      BY <2>2, <2>4, <2>5, Assemble
  <1>5. CASE Closed(h)
    <2>1. /\ DeleteIds(handler[h].ids)
          /\ runs' \subseteq runs
          /\ closed' = closed \union {handler[h].object}
          /\ handler' = [handler EXCEPT ![h] = Idle] /\ UNCHANGED raced
          /\ handler[h].at = "closing"
          /\ UNCHANGED disposals
      BY <1>5 DEF Closed, Finish
    <2>2. /\ agents' \in [Ids -> 0..made'] /\ cloudIds' \subseteq Registered'
          /\ CloudFlags'
      BY <1>1, <1>2, <2>1, DeleteFlags
    <2>3. /\ handler' \in [Handlers -> HandlerStates]
          /\ \A g \in Handlers : Carries(g)'
      BY <1>1, <1>3, <2>1, HandlersStay
    <2>4. handler[h].object \in 1..made
      BY <1>1, <2>1 DEF Carries, None
    <2>5. Books'
      BY <1>1, <1>2, <2>1, <2>4 DEF Books
    <2> QED
      BY <1>2, <2>1, <2>2, <2>3, <2>5, Given, Assemble
  <1> QED
    BY <1>4, <1>5

\* The steps in which an awaited disposal ends and the new agent is put.
LEMMA PutIInv ==
  ASSUME IInv, NEW h \in Handlers, Replaced(h) \/ \E fails \in BOOLEAN : Adopted(h, fails)
  PROVE  IInv'
  <1> DEFINE o == handler[h].object
  <1>1. /\ TypeOK /\ CloudFlags /\ Books /\ made \in Nat
        /\ \A g \in Handlers : Carries(g)
    BY Given
  <1>2. /\ handler[h].at \in {"replacing", "adopting"}
        /\ Put(handler[h].old, agentId[o], o, handler[h].cloud)
        /\ handler' = [handler EXCEPT ![h] = Idle] /\ UNCHANGED raced
        /\ runs' \subseteq runs \union {[agent |-> o, id |-> handler[h].id]}
        /\ UNCHANGED << made, agentId, cloud, disposals, listening, closed >>
    BY DEF Replaced, Adopted, Finish, RegisterRun
  <1>3. MadeMore
    BY <1>2, Given
  <1>4. /\ o \in 1..made /\ agentId[o] \in Ids /\ handler[h].cloud = cloud[o]
        /\ handler[h].cloud \in BOOLEAN /\ handler[h].id \in Ids
    <2>1. Carries(h)
      BY <1>1
    <2>2. handler[h].object \in 1..made
      BY <1>1, <1>2, <2>1 DEF Carries, None
    <2>3. cloud[o] \in BOOLEAN /\ agentId[o] \in Ids
      BY <1>1, <2>2, Given DEF Books
    <2> QED
      BY <1>2, <2>1, <2>2, <2>3 DEF Carries
  <1>5. /\ agents' \in [Ids -> 0..made'] /\ cloudIds' \subseteq Registered'
        /\ CloudFlags'
    <2>1. /\ o \in 1..made' /\ made' \in Nat /\ made <= made'
          /\ cloud'[o] = handler[h].cloud
          /\ \A p \in 1..made : cloud'[p] = cloud[p]
      BY <1>1, <1>2, <1>4
    <2> HIDE DEF o
    <2> QED
      BY <1>1, <1>2, <1>4, <2>1, PutFlags
  <1>6. /\ handler' \in [Handlers -> HandlerStates]
        /\ \A g \in Handlers : Carries(g)'
    BY <1>1, <1>2, <1>3, HandlersStay
  <1>7. Books'
    BY <1>1, <1>2, <1>4 DEF Books
  <1> QED
    BY <1>2, <1>5, <1>6, <1>7, Given, Assemble

\* send, getRun and their kind read the registry; a send that fails puts nothing back.
LEMMA SendIInv ==
  ASSUME IInv, NEW h \in Handlers, NEW id \in Ids,
         Send(h, id) \/ SendFails(h) \/ FetchRun(h, id)
  PROVE  IInv'
  <1>1. /\ TypeOK /\ CloudFlags /\ Books /\ made \in Nat
        /\ \A g \in Handlers : Carries(g)
    BY Given
  <1>2. UNCHANGED << agents, cloudIds, made, agentId, cloud, disposals, listening, closed >>
    BY DEF Send, SendFails, FetchRun
  <1>3. MadeMore
    BY <1>2, Given
  <1>4. /\ agents' \in [Ids -> 0..made'] /\ cloudIds' \subseteq Registered'
        /\ CloudFlags'
    BY <1>1, <1>2, SameFlags
  <1>5. Books'
    <2>1. runs' \subseteq runs \union {[agent |-> None, id |-> id]}
      BY DEF Send, SendFails, FetchRun, RegisterRun
    <2> QED
      BY <1>1, <1>2, <2>1 DEF Books, None
  <1>6. CASE Send(h, id)
    <2>1. /\ agents[id] # None
          /\ Await(h, "sending", agents[id], None, id, AgentIdsFor(agents[id]), id \in cloudIds)
      BY <1>6 DEF Send
    <2>2. /\ agents[id] \in 1..made' /\ None \in 0..made'
          /\ AgentIdsFor(agents[id]) \in SUBSET Ids
      BY <1>1, <1>2, <2>1, IdsOfAgents DEF TypeOK, None
    <2>3. (id \in cloudIds) = cloud'[agents[id]] /\ (id \in cloudIds) \in BOOLEAN
      <3>1. id \in cloudIds <=> cloud[agents[id]]
        BY <1>1, <2>1 DEF CloudFlags, Registered
      <3>2. cloud[agents[id]] \in BOOLEAN
        BY <1>1, <1>2, <2>2, Given DEF Books
      <3> QED
        BY <1>2, <3>1, <3>2
    <2>4. /\ handler' \in [Handlers -> HandlerStates]
          /\ \A g \in Handlers : Carries(g)'
          /\ raced' \subseteq 1..made'
      BY <1>1, <1>3, <2>1, <2>2, <2>3, AwaitTypes
    <2> QED
      BY <1>4, <1>5, <2>4, Assemble
  <1>7. CASE SendFails(h) \/ FetchRun(h, id)
    <2>1. /\ handler' = handler \/ handler' = [handler EXCEPT ![h] = Idle]
          /\ UNCHANGED raced
      BY <1>7 DEF SendFails, FetchRun, Finish
    <2>2. /\ handler' \in [Handlers -> HandlerStates]
          /\ \A g \in Handlers : Carries(g)'
      BY <1>1, <1>3, <2>1, HandlersStay
    <2> QED
      BY <1>2, <1>4, <1>5, <2>1, <2>2, Given, Assemble
  <1> QED
    BY <1>6, <1>7

\* A send that returns carries its agent's own mark to the agent's new id.
LEMMA SendReturnsIInv ==
  ASSUME IInv, NEW h \in Handlers, NEW newId \in Ids, NEW runId \in Ids,
         SendReturns(h, newId, runId)
  PROVE  IInv'
  <1> DEFINE o == handler[h].object
             old == agents[newId]
             ids == handler[h].ids \union {newId} \union AgentIdsFor(old)
  <1>1. /\ TypeOK /\ CloudFlags /\ Books /\ made \in Nat
        /\ \A g \in Handlers : Carries(g)
    BY Given
  <1>2. /\ handler[h].at = "sending"
        /\ agentId' = [agentId EXCEPT ![o] = newId]
        /\ UNCHANGED << made, cloud, listening, closed >>
    BY DEF SendReturns
  <1>3. MadeMore
    BY <1>2, Given
  <1>4. /\ o \in 1..made /\ handler[h].cloud = cloud[o] /\ handler[h].cloud \in BOOLEAN
        /\ handler[h].ids \in SUBSET Ids /\ old \in 0..made
    <2>1. Carries(h)
      BY <1>1
    <2>2. handler[h].object \in 1..made
      BY <1>1, <1>2, <2>1 DEF Carries, None
    <2>3. handler[h] \in HandlerStates /\ old \in 0..made
      BY <1>1 DEF TypeOK
    <2> QED
      BY <1>2, <2>1, <2>2, <2>3 DEF Carries, HandlerStates
  <1>5. ASSUME runs' = runs \/ RegisterRun(o, runId), disposals' \in [Objects -> 0..2]
        PROVE  Books'
    <2>1. runs' \subseteq runs \union {[agent |-> o, id |-> runId]}
      BY <1>5 DEF RegisterRun
    <2>2. runs' \subseteq [agent: 0..made', id: Ids]
      BY <1>1, <1>2, <1>4, <2>1 DEF Books
    <2>3. agentId' \in [Objects -> Ids \union {None}]
      BY <1>1, <1>2 DEF Books
    <2>4. \A p \in 1..made' : agentId'[p] \in Ids
      BY <1>1, <1>2, Given DEF Books
    <2> QED
      BY <1>1, <1>2, <1>5, <2>2, <2>3, <2>4 DEF Books
  <1>6. /\ o \in 1..made' /\ made' \in Nat /\ made <= made'
        /\ cloud'[o] = handler[h].cloud
        /\ \A p \in 1..made : cloud'[p] = cloud[p]
    BY <1>1, <1>2, <1>4
  <1>7. disposals \in [Objects -> 0..2]
    BY <1>1 DEF Books
  <1>8. \/ /\ newId = handler[h].id
           /\ RegisterRun(o, runId)
           /\ Finish(h)
           /\ UNCHANGED << agents, cloudIds, disposals >>
        \/ /\ Put(None, newId, o, handler[h].cloud)
           /\ RegisterRun(o, runId)
           /\ Meet(h, "adopting", {o}, ids)
           /\ handler' = [handler EXCEPT ![h] = Idle]
           /\ UNCHANGED disposals
        \/ /\ Dispose(old)
           /\ Await(h, "adopting", o, old, runId, ids, handler[h].cloud)
           /\ UNCHANGED << agents, cloudIds, runs >>
    BY DEF SendReturns
  <1> HIDE DEF o, old, ids
  <1>9. CASE /\ RegisterRun(o, runId) /\ Finish(h)
             /\ UNCHANGED << agents, cloudIds, disposals >>
    <2>1. /\ agents' \in [Ids -> 0..made'] /\ cloudIds' \subseteq Registered'
          /\ CloudFlags'
      BY <1>1, <1>6, <1>9, SameFlags
    <2>2. handler' = [handler EXCEPT ![h] = Idle] /\ UNCHANGED raced
      BY <1>9 DEF Finish
    <2>3. /\ handler' \in [Handlers -> HandlerStates]
          /\ \A g \in Handlers : Carries(g)'
      BY <1>1, <1>3, <2>2, HandlersStay
    <2> QED
      BY <1>2, <1>5, <1>7, <1>9, <2>1, <2>2, <2>3, Given, Assemble
  <1>10. CASE /\ Put(None, newId, o, handler[h].cloud)
              /\ RegisterRun(o, runId)
              /\ Meet(h, "adopting", {o}, ids)
              /\ handler' = [handler EXCEPT ![h] = Idle]
              /\ UNCHANGED disposals
    <2>1. /\ agents' \in [Ids -> 0..made'] /\ cloudIds' \subseteq Registered'
          /\ CloudFlags'
      BY <1>1, <1>4, <1>6, <1>10, PutFlags
    <2>2. {o} \in SUBSET (0..made')
      BY <1>6
    <2>3. raced' \subseteq 1..made'
      BY <1>1, <1>3, <1>10, <2>2, MeetTypes
    <2>4. /\ handler' \in [Handlers -> HandlerStates]
          /\ \A g \in Handlers : Carries(g)'
      BY <1>1, <1>3, <1>10, HandlersStay
    <2> QED
      BY <1>5, <1>7, <1>10, <2>1, <2>3, <2>4, Assemble
  <1>11. CASE /\ Dispose(old)
              /\ Await(h, "adopting", o, old, runId, ids, handler[h].cloud)
              /\ UNCHANGED << agents, cloudIds, runs >>
    <2>1. /\ agents' \in [Ids -> 0..made'] /\ cloudIds' \subseteq Registered'
          /\ CloudFlags'
      BY <1>1, <1>6, <1>11, SameFlags
    <2>2. ids \in SUBSET Ids /\ old \in 0..made'
      BY <1>2, <1>4, IdsOfAgents DEF ids
    <2>3. /\ handler' \in [Handlers -> HandlerStates]
          /\ \A g \in Handlers : Carries(g)'
          /\ raced' \subseteq 1..made'
      BY <1>1, <1>3, <1>4, <1>6, <1>11, <2>2, AwaitTypes
    <2>4. Books'
      BY <1>5, <1>7, <1>11, DisposeCounts
    <2> QED
      BY <2>1, <2>3, <2>4, Assemble
  <1> QED
    BY <1>8, <1>9, <1>10, <1>11

\* dispose() empties the registry.
LEMMA DisposeAllIInv ==
  ASSUME IInv, DisposeAll
  PROVE  IInv'
  <1>1. /\ TypeOK /\ Books /\ made \in Nat
        /\ \A g \in Handlers : Carries(g)
    BY Given
  <1>2. /\ agents' = [id \in Ids |-> None] /\ cloudIds' = {} /\ runs' = {}
        /\ listening' = FALSE
        /\ UNCHANGED << made, agentId, cloud, handler, raced, closed >>
    BY DEF DisposeAll
  <1>3. /\ handler' \in [Handlers -> HandlerStates]
        /\ \A g \in Handlers : Carries(g)'
    BY <1>1, <1>2, Given, HandlersStay
  <1>4. disposals' \in [Objects -> 0..2]
    <2>1. \A n : Again(n) \in 0..2
      BY DEF Again
    <2> QED
      BY <1>1, <2>1 DEF DisposeAll, Books
  <1>5. Books'
    BY <1>1, <1>2, <1>4 DEF Books
  <1>6. agents' \in [Ids -> 0..made'] /\ cloudIds' \subseteq Registered' /\ CloudFlags'
    BY <1>1, <1>2 DEF Registered, CloudFlags, None
  <1> QED
    BY <1>2, <1>3, <1>5, <1>6, Given, Assemble

\* An empty registry satisfies IInv.
LEMMA InitIInv == Init => IInv
  <1> SUFFICES ASSUME Init PROVE IInv
    OBVIOUS
  <1>1. Idle \in HandlerStates
    BY RegistryBounds DEF Idle, HandlerStates, None
  <1> USE RegistryBounds DEF Init, None
  <1>2. TypeOK
    BY <1>1 DEF TypeOK, Registered, Objects
  <1>3. CloudFlags
    BY DEF CloudFlags, Registered
  <1>4. ASSUME NEW h \in Handlers
        PROVE  Carries(h)
    <2>1. handler[h] = Idle /\ made = 0
      OBVIOUS
    <2>2. Idle.at = "idle" /\ Idle.object = None /\ Idle.old = None
      BY DEF Idle
    <2> HIDE DEF Init
    <2> QED
      BY <2>1, <2>2 DEF Carries
  <1> QED
    BY <1>2, <1>3, <1>4 DEF IInv

\* Every handler's step preserves IInv.
LEMMA NextIInv == IInv /\ [Next]_vars => IInv'
  <1> SUFFICES ASSUME IInv, [Next]_vars PROVE IInv'
    OBVIOUS
  <1>1. CASE UNCHANGED vars
    BY <1>1 DEF vars, IInv, TypeOK, Registered, Carries, CloudFlags
  <1>2. ASSUME NEW h \in Handlers, NEW id \in Ids, NEW isCloud \in BOOLEAN,
               Register(h, id, isCloud)
        PROVE  IInv'
    BY <1>2, RegisterIInv
  <1>3. ASSUME NEW h \in Handlers, NEW id \in Ids, CloseAgent(h, id)
        PROVE  IInv'
    BY <1>3, CloseIInv
  <1>4. ASSUME NEW h \in Handlers, NEW id \in Ids, Send(h, id) \/ FetchRun(h, id)
        PROVE  IInv'
    BY <1>4, SendIInv
  <1>5. ASSUME NEW h \in Handlers, NEW newId \in Ids, NEW runId \in Ids,
               SendReturns(h, newId, runId)
        PROVE  IInv'
    BY <1>5, SendReturnsIInv
  <1>6. ASSUME NEW h \in Handlers, Replaced(h) \/ \E fails \in BOOLEAN : Adopted(h, fails)
        PROVE  IInv'
    BY <1>6, PutIInv
  <1>7. ASSUME NEW h \in Handlers, Closed(h) \/ SendFails(h)
        PROVE  IInv'
    <2>1. Carries(h) /\ handler[h].at # "idle"
      BY <1>7 DEF IInv, Closed, SendFails
    <2>2. handler[h].id \in Ids
      BY <2>1 DEF Carries
    <2> QED
      BY <1>7, <2>2, CloseIInv, SendIInv
  <1>8. CASE DisposeAll
    BY <1>8, DisposeAllIInv
  <1>9. CASE Terminated
    BY <1>1, <1>9 DEF Terminated
  <1> QED
    BY <1>1, <1>2, <1>3, <1>4, <1>5, <1>6, <1>7, <1>8, <1>9 DEF Next

\* IInv is an invariant of the registry.
THEOREM InductiveInvariant == Spec => []IInv
  BY InitIInv, NextIInv, PTL DEF Spec

\* Every variable of the registry keeps its type, and a cloud mark stands
\* only on an id that is registered.
THEOREM TypeCorrect == Spec => []TypeOK
  <1>1. IInv => TypeOK
    BY DEF IInv
  <1> QED
    BY <1>1, InductiveInvariant, PTL

\* Whatever calls overlap, an id is marked exactly while a cloud agent is
\* registered under it: the mark that send reads before it awaits the SDK is
\* still right for the agent when it is used for the new id.
THEOREM CloudMarksRight == Spec => []CloudFlags
  <1>1. IInv => CloudFlags
    BY DEF IInv
  <1> QED
    BY <1>1, InductiveInvariant, PTL

-----------------------------------------------------------------------------
(* Ownership: whose each agent is, and what each call in flight knows of it.  *)

\* The calls that have an agent's disposal under way, and those that are to
\* register an agent when the disposal they await ends.
Disposing(h, o) ==
  \/ handler[h].at = "closing" /\ handler[h].object = o
  \/ handler[h].at \in {"replacing", "adopting"} /\ handler[h].old = o
Keeping(h, o) == handler[h].at \in {"replacing", "adopting"} /\ handler[h].object = o

\* What a call in flight holds.
Shape(h) ==
  /\ InFlight(h) => handler[h].object \in 1..made /\ handler[h].id \in handler[h].ids
  /\ ~InFlight(h) => handler[h].object = None /\ handler[h].old = None
  /\ handler[h].at \in {"replacing", "adopting"} =>
       handler[h].old \in 1..made /\ handler[h].old # handler[h].object
  /\ handler[h].at \in {"closing", "sending"} => handler[h].old = None
  /\ \A o \in 1..made : Disposing(h, o) => disposals[o] # 0

\* An agent just made is known to nobody but the call that is to register it.
Fresh(h) ==
  handler[h].at = "replacing" =>
    /\ agentId[handler[h].object] = handler[h].id
    /\ AgentIdsFor(handler[h].object) = {}
    /\ disposals[handler[h].object] = 0
    /\ \A g \in Handlers \ {h} : handler[h].object \notin Touched(g)
    /\ \A r \in runs : r.agent # handler[h].object

\* Two calls that share an agent or an id send to the same agent, or raced.
Apart(g, h) ==
  Touched(g) \intersect Touched(h) # {} \/ Claims(g) \intersect Claims(h) # {} =>
    \/ handler[g].at = "sending" /\ handler[h].at = "sending" /\ handler[g].object = handler[h].object
    \/ Touched(g) \union Touched(h) \subseteq raced

\* The ids a call is to change lead to its own agents, or to one it raced with.
Claimed(h) ==
  \A id \in Claims(h) :
    \/ agents[id] = None \/ agents[id] \in Touched(h)
    \/ agents[id] \in raced /\ handler[h].object \in raced

\* What a call read of its agent before the await still holds.
Steady(h) ==
  LET o == handler[h].object
  IN  o \notin raced =>
    /\ handler[h].at = "closing" => AgentIdsFor(o) = handler[h].ids
    /\ handler[h].at = "sending" => handler[h].ids \subseteq AgentIdsFor(o)
    /\ handler[h].at = "adopting" =>
         /\ handler[h].id = agentId[o] \/ handler[h].id \in AgentIdsFor(o)
         /\ AgentIdsFor(o) # {}
    /\ handler[h].at \in {"sending", "adopting"} => disposals[o] = 0

\* An agent that nobody disposed of can be found, and one that was is on its
\* way out.
Owned(o) ==
  /\ disposals[o] = 0 =>
       (\E h \in Handlers : Keeping(h, o)) \/ agentId[o] \in AgentIdsFor(o)
  /\ disposals[o] <= 1
  /\ disposals[o] # 0 => (\E h \in Handlers : Disposing(h, o)) \/ AgentIdsFor(o) = {}

\* A run sent to an agent is under one of its ids as long as it has any.
RunOf(r) ==
  r.agent # None /\ r.agent \notin raced =>
    /\ r.agent \notin closed
    /\ r.id \in AgentIdsFor(r.agent) \/ AgentIdsFor(r.agent) = {}

\* The second inductive invariant: whose each agent is.
Ownership ==
  /\ IInv
  /\ \A o \in closed : disposals[o] # 0
  /\ \A o \in Objects : o > made => disposals[o] = 0
  /\ \A h \in Handlers : Shape(h) /\ Fresh(h)
  /\ \A g, h \in Handlers : g # h /\ InFlight(g) /\ InFlight(h) => Apart(g, h)
  /\ \A h \in Handlers : InFlight(h) => Claimed(h) /\ Steady(h)
  /\ \A o \in (1..made) \ raced : Owned(o)
  /\ \A r \in runs : RunOf(r)

-----------------------------------------------------------------------------
(* What two calls know of each other.                                      *)

\* A call that races with another leaves both their agents in raced.
LEMMA MeetRaces ==
  ASSUME NEW h \in Handlers, NEW at, NEW objects, NEW ids, Meet(h, at, objects, ids)
  PROVE  /\ raced \subseteq raced'
         /\ \A g \in Handlers \ {h} :
              /\ InFlight(g)
              /\ Lifecycle(at) \/ Lifecycle(handler[g].at)
              /\ Touched(g) \intersect objects # {} \/ Claims(g) \intersect ids # {}
              => (objects \ {None}) \union Touched(g) \subseteq raced'
  <1> DEFINE rivals == Rivals(h, at, objects \ {None}, ids)
  <1>1. raced' = IF rivals = {} THEN raced
                 ELSE raced \union (objects \ {None}) \union UNION {Touched(g) : g \in rivals}
    BY DEF Meet
  <1>2. ASSUME NEW g \in Handlers \ {h}, InFlight(g),
               Lifecycle(at) \/ Lifecycle(handler[g].at),
               Touched(g) \intersect objects # {} \/ Claims(g) \intersect ids # {}
        PROVE  g \in rivals
    <2>1. None \notin Touched(g)
      BY DEF Touched
    <2>2. Touched(g) \intersect (objects \ {None}) = Touched(g) \intersect objects
      BY <2>1
    <2> QED
      BY <1>2, <2>2 DEF Rivals
  <1> HIDE DEF rivals
  <1> QED
    BY <1>1, <1>2

\* The objects and ids in play are made ones, and known ones.
LEMMA OwnershipTypes ==
  ASSUME Ownership
  PROVE  /\ TypeOK /\ Books /\ made \in Nat /\ raced \subseteq 1..made
         /\ 1..made \subseteq Objects
         /\ \A o \in 1..made : agentId[o] \in Ids /\ disposals[o] \in 0..2
         /\ \A id \in Ids : agents[id] \in 0..made
         /\ \A r \in runs : r.agent \in 0..made /\ r.id \in Ids
         /\ \A h \in Handlers : /\ Touched(h) \subseteq 1..made
                                /\ handler[h] \in HandlerStates
                                /\ InFlight(h) => Claims(h) \subseteq Ids
  <1>1. /\ TypeOK /\ Books /\ made \in Nat /\ raced \subseteq 1..made
        /\ 1..made \subseteq Objects
    BY Given DEF Ownership
  <1>2. \A o \in 1..made : agentId[o] \in Ids /\ disposals[o] \in 0..2
    BY <1>1 DEF Books
  <1>3. \A id \in Ids : agents[id] \in 0..made
    BY <1>1 DEF TypeOK
  <1>4. \A r \in runs : r.agent \in 0..made /\ r.id \in Ids
    BY <1>1 DEF TypeOK
  <1>5. ASSUME NEW h \in Handlers
        PROVE  /\ Touched(h) \subseteq 1..made
               /\ handler[h] \in HandlerStates
               /\ InFlight(h) => Claims(h) \subseteq Ids
    <2>1. handler[h] \in HandlerStates
      BY <1>1 DEF TypeOK
    <2>2. Shape(h)
      BY DEF Ownership
    <2>3. handler[h].object \in 0..made /\ handler[h].old \in 0..made
      BY <1>5 DEF Ownership, IInv, Carries
    <2>4. Touched(h) \subseteq 1..made
      BY <1>1, <2>3 DEF Touched, None
    <2>5. InFlight(h) => Claims(h) \subseteq Ids
      BY <1>2, <2>1, <2>2 DEF Claims, HandlerStates, Shape
    <2> QED
      BY <2>1, <2>4, <2>5
  <1> QED
    BY <1>1, <1>2, <1>3, <1>4, <1>5

-----------------------------------------------------------------------------
(* What a step of one call leaves to the others.                           *)

\* A step that leaves an agent registered as it was.
Unmoved(o) == AgentIdsFor(o)' = AgentIdsFor(o) /\ disposals'[o] = disposals[o]

\* A step that is of one call only.
StepOf(h) ==
  /\ made' \in Nat /\ made <= made' /\ raced \subseteq raced'
  /\ \A g \in Handlers \ {h} : handler'[g] = handler[g]
  /\ \A o \in 1..made : disposals[o] # 0 => disposals'[o] # 0

\* A new agent stays unknown to all others.
SparesFresh(h) ==
  \A o \in 1..made :
    o \notin Touched(h) /\ AgentIdsFor(o) = {} =>
      /\ Unmoved(o) /\ agentId'[o] = agentId[o]
      /\ o \notin Touched(h)'
      /\ \A r \in runs' : r.agent = o => r \in runs

\* An id another call is to change is left alone, or its agents raced.
SparesClaims(h) ==
  \A g \in Handlers \ {h} : InFlight(g) =>
    \A id \in Claims(g)' :
      \/ id \in Claims(g) /\ agents'[id] \in {agents[id], None}
      \/ agents'[id] \in Touched(g) \union {None}
      \/ {agents'[id], handler[g].object} \subseteq raced'

\* Two other calls do not come to share an id, or their agents raced.
SparesPairs(h) ==
  \A f, g \in Handlers \ {h} :
    f # g /\ InFlight(f) /\ InFlight(g) /\ Claims(f)' \intersect Claims(g)' # {} =>
      Claims(f) \intersect Claims(g) # {} \/ Touched(f) \union Touched(g) \subseteq raced'

\* What another call read of its agent is left alone, or the agent raced.
SparesRead(h) ==
  \A g \in Handlers \ {h} :
    InFlight(g) /\ handler[g].object \notin raced' =>
      /\ Unmoved(handler[g].object)
      /\ handler[g].at = "adopting" => agentId'[handler[g].object] = agentId[handler[g].object]

\* Then the invariant's part of every other call is kept.
LEMMA OthersKept ==
  ASSUME Ownership, NEW h \in Handlers, StepOf(h), SparesFresh(h), SparesClaims(h),
         SparesPairs(h), SparesRead(h)
  PROVE  /\ \A g \in Handlers \ {h} : Shape(g)' /\ Fresh(g)'
         /\ \A g \in Handlers \ {h} : InFlight(g)' => Claimed(g)' /\ Steady(g)'
         /\ \A f, g \in Handlers \ {h} :
              f # g /\ InFlight(f)' /\ InFlight(g)' => Apart(f, g)'
  <1>1. \A g \in Handlers \ {h} : handler'[g] = handler[g]
    BY DEF StepOf
  <1>2. \A g \in Handlers \ {h} : Touched(g)' = Touched(g) /\ InFlight(g)' = InFlight(g)
    BY <1>1 DEF Touched, InFlight
  <1>3. raced \subseteq raced' /\ made \in Nat /\ made' \in Nat /\ made <= made'
    BY OwnershipTypes DEF StepOf
  <1>4. ASSUME NEW g \in Handlers \ {h} PROVE Shape(g)'
    <2>1. Shape(g)
      BY DEF Ownership
    <2>2. ASSUME NEW o \in 1..made', Disposing(g, o)' PROVE disposals'[o] # 0
      <3>1. Disposing(g, o)
        BY <1>1, <2>2 DEF Disposing
      <3>2. o \in 1..made
        BY <2>1, <3>1 DEF Disposing, Shape, InFlight
      <3>3. disposals[o] # 0
        BY <2>1, <3>1, <3>2 DEF Shape
      <3> QED
        BY <3>2, <3>3 DEF StepOf
    <2>3. 1..made \subseteq 1..made'
      BY <1>3
    <2> QED
      BY <1>1, <1>2, <2>1, <2>2, <2>3 DEF Shape
  <1>5. ASSUME NEW g \in Handlers \ {h} PROVE Fresh(g)'
    <2> DEFINE o == handler[g].object
    <2>1. Fresh(g) /\ Shape(g)
      BY DEF Ownership
    <2> SUFFICES ASSUME handler[g].at = "replacing"
                 PROVE  /\ agentId'[o] = handler[g].id
                        /\ AgentIdsFor(o)' = {}
                        /\ disposals'[o] = 0
                        /\ \A f \in Handlers \ {g} : o \notin Touched(f)'
                        /\ \A r \in runs' : r.agent # o
      BY <1>1 DEF Fresh
    <2>2. /\ agentId[o] = handler[g].id /\ AgentIdsFor(o) = {} /\ disposals[o] = 0
          /\ \A f \in Handlers \ {g} : o \notin Touched(f)
          /\ \A r \in runs : r.agent # o
      BY <2>1 DEF Fresh
    <2>3. o \in 1..made
      BY <2>1 DEF Shape, InFlight
    <2>4. /\ Unmoved(o) /\ agentId'[o] = agentId[o] /\ o \notin Touched(h)'
          /\ \A r \in runs' : r.agent = o => r \in runs
      BY <2>2, <2>3 DEF SparesFresh
    <2> QED
      BY <1>2, <2>2, <2>4 DEF Unmoved
  <1>6. ASSUME NEW g \in Handlers \ {h}, InFlight(g)' PROVE Claimed(g)'
    <2>1. InFlight(g) /\ Claimed(g)
      BY <1>2, <1>6 DEF Ownership
    <2>2. ASSUME NEW id \in Claims(g)'
          PROVE  \/ agents'[id] = None \/ agents'[id] \in Touched(g)
                 \/ agents'[id] \in raced' /\ handler[g].object \in raced'
      BY <1>3, <2>1, <2>2 DEF SparesClaims, Claimed
    <2> QED
      BY <1>1, <1>2, <2>2 DEF Claimed
  <1>7. ASSUME NEW g \in Handlers \ {h}, InFlight(g)' PROVE Steady(g)'
    <2>1. InFlight(g) /\ Steady(g)
      BY <1>2, <1>7 DEF Ownership
    <2>2. handler[g].object \notin raced' =>
            /\ Unmoved(handler[g].object)
            /\ handler[g].at = "adopting" => agentId'[handler[g].object] = agentId[handler[g].object]
      BY <2>1 DEF SparesRead
    <2> QED
      BY <1>1, <1>3, <2>1, <2>2 DEF Steady, Unmoved
  <1>8. ASSUME NEW f \in Handlers \ {h}, NEW g \in Handlers \ {h}, f # g,
               InFlight(f)', InFlight(g)'
        PROVE  Apart(f, g)'
    <2>1. InFlight(f) /\ InFlight(g) /\ Apart(f, g)
      BY <1>2, <1>8 DEF Ownership
    <2>2. Claims(f)' \intersect Claims(g)' # {} =>
            Claims(f) \intersect Claims(g) # {} \/ Touched(f) \union Touched(g) \subseteq raced'
      BY <1>8, <2>1 DEF SparesPairs
    <2> QED
      BY <1>1, <1>2, <1>3, <2>1, <2>2 DEF Apart
  <1> QED
    BY <1>4, <1>5, <1>6, <1>7, <1>8

\* A step that renames no agent lets every call in flight claim what it did.
LEMMA ClaimsKept ==
  ASSUME Ownership, NEW h \in Handlers, StepOf(h), \A o \in 1..made : agentId'[o] = agentId[o]
  PROVE  SparesPairs(h) /\ \A g \in Handlers \ {h} : InFlight(g) => Claims(g)' = Claims(g)
  <1>1. ASSUME NEW g \in Handlers \ {h}, InFlight(g) PROVE Claims(g)' = Claims(g)
    <2>1. handler'[g] = handler[g]
      BY DEF StepOf
    <2>2. handler[g].object \in 1..made
      BY <1>1 DEF Ownership, Shape
    <2>3. agentId'[handler[g].object] = agentId[handler[g].object]
      BY <2>2
    <2> QED
      BY <2>1, <2>3 DEF Claims
  <1> QED
    BY <1>1 DEF SparesPairs

\* An agent that the step's call did not hold, and left alone, is as it was.
LEMMA OwnedKept ==
  ASSUME Ownership, NEW h \in Handlers, StepOf(h),
         NEW o \in (1..made) \ raced', o \notin Touched(h),
         Unmoved(o), agentId'[o] = agentId[o]
  PROVE  Owned(o)'
  <1>1. Owned(o) /\ \A g \in Handlers \ {h} : handler'[g] = handler[g]
    BY DEF Ownership, StepOf
  <1>2. o # None
    BY DEF None
  <1>3. ~Keeping(h, o) /\ ~Disposing(h, o)
    BY <1>2 DEF Keeping, Disposing, Touched
  <1>4. \A g \in Handlers \ {h} : Keeping(g, o) => Keeping(g, o)'
    BY <1>1 DEF Keeping
  <1>5. \A g \in Handlers \ {h} : Disposing(g, o) => Disposing(g, o)'
    BY <1>1 DEF Disposing
  <1> QED
    BY <1>1, <1>3, <1>4, <1>5 DEF Owned, Unmoved

\* So are its runs.
LEMMA RunKept ==
  ASSUME Ownership, NEW h \in Handlers, StepOf(h), NEW r \in runs,
         r.agent # None /\ r.agent \notin raced' => AgentIdsFor(r.agent)' = AgentIdsFor(r.agent),
         r.agent \in closed' => r.agent \in closed
  PROVE  RunOf(r)'
  <1>1. RunOf(r) /\ raced \subseteq raced'
    BY DEF Ownership, StepOf
  <1> QED
    BY <1>1 DEF RunOf

\* An agent in the registry that no call in flight disposes of has not been disposed of.
LEMMA NotYetDisposed ==
  ASSUME Ownership, NEW o \in (1..made) \ raced, AgentIdsFor(o) # {},
         \A g \in Handlers : ~Disposing(g, o)
  PROVE  disposals[o] = 0
  BY DEF Ownership, Owned

\* A call that begins, with the agent it finds, meets whoever disposes of it.
LEMMA FoundAlive ==
  ASSUME Ownership, NEW h \in Handlers, NEW at, NEW objects, NEW ids,
         Meet(h, at, objects, ids), handler[h].at \in {"idle", "sending"},
         NEW o \in (1..made) \ raced', o \in objects, AgentIdsFor(o) # {}
  PROVE  disposals[o] = 0
  <1>1. o # None /\ raced \subseteq raced'
    BY MeetRaces DEF None
  <1>2. ASSUME NEW g \in Handlers, Disposing(g, o) PROVE FALSE
    <2>1. g # h /\ InFlight(g) /\ Lifecycle(handler[g].at)
      BY <1>2 DEF Disposing, InFlight, Lifecycle
    <2>2. o \in Touched(g)
      BY <1>1, <1>2 DEF Disposing, Touched
    <2> QED
      BY <1>1, <2>1, <2>2, MeetRaces
  <1> QED
    BY <1>1, <1>2, NotYetDisposed

-----------------------------------------------------------------------------
(* The call that steps.                                                    *)

\* The parts make up the invariant of the next state.
LEMMA OwnershipNext ==
  ASSUME Ownership, IInv', NEW h \in Handlers, StepOf(h), SparesFresh(h), SparesClaims(h),
         SparesPairs(h), SparesRead(h),
         \A o \in closed' : disposals'[o] # 0,
         \A o \in Objects : o > made' => disposals'[o] = 0,
         Shape(h)', Fresh(h)',
         InFlight(h)' => Claimed(h)' /\ Steady(h)',
         InFlight(h)' => \A g \in Handlers \ {h} : InFlight(g) => Apart(g, h)',
         \A o \in (1..made') \ raced' : Owned(o)',
         \A r \in runs' : RunOf(r)'
  PROVE  Ownership'
  <1>1. /\ \A g \in Handlers \ {h} : Shape(g)' /\ Fresh(g)'
        /\ \A g \in Handlers \ {h} : InFlight(g)' => Claimed(g)' /\ Steady(g)'
        /\ \A f, g \in Handlers \ {h} :
             f # g /\ InFlight(f)' /\ InFlight(g)' => Apart(f, g)'
    BY OthersKept
  <1>2. \A g \in Handlers \ {h} : InFlight(g)' = InFlight(g)
    BY DEF StepOf, InFlight
  <1>3. \A g \in Handlers : Apart(g, h)' => Apart(h, g)'
    BY DEF Apart
  <1>4. ASSUME NEW f \in Handlers, NEW g \in Handlers, f # g, InFlight(f)', InFlight(g)'
        PROVE  Apart(f, g)'
    <2>1. CASE f # h /\ g # h
      BY <1>1, <1>4, <2>1
    <2>2. CASE f = h
      BY <1>2, <1>3, <1>4, <2>2
    <2>3. CASE g = h
      BY <1>2, <1>4, <2>3
    <2> QED
      BY <2>1, <2>2, <2>3
  <1> QED
    BY <1>1, <1>4 DEF Ownership

\* A call that has ended, or not begun, holds nothing.
LEMMA IdleHolds ==
  ASSUME NEW h \in Handlers, handler[h] = Idle
  PROVE  /\ ~InFlight(h) /\ Shape(h) /\ Fresh(h) /\ Touched(h) = {}
         /\ \A o : ~Keeping(h, o) /\ ~Disposing(h, o)
  BY DEF Idle, InFlight, Shape, Fresh, Touched, None, Disposing, Keeping

\* A call that ends.
LEMMA EndHolds ==
  ASSUME TypeOK, NEW h \in Handlers, handler' = [handler EXCEPT ![h] = Idle]
  PROVE  /\ ~InFlight(h)' /\ Shape(h)' /\ Fresh(h)' /\ Touched(h)' = {}
         /\ \A g \in Handlers \ {h} : handler'[g] = handler[g]
  <1>1. handler'[h] = Idle /\ \A g \in Handlers \ {h} : handler'[g] = handler[g]
    BY DEF TypeOK
  <1> QED
    BY <1>1 DEF Idle, InFlight, Shape, Fresh, Touched, None, Disposing

\* A call that goes on to await.
LEMMA AwaitHolds ==
  ASSUME TypeOK, NEW h \in Handlers, NEW at, NEW object, NEW old, NEW id, NEW ids, NEW isCloud,
         Await(h, at, object, old, id, ids, isCloud)
  PROVE  /\ handler'[h] = [at |-> at, object |-> object, old |-> old, id |-> id,
                           ids |-> ids, cloud |-> isCloud]
         /\ \A g \in Handlers \ {h} : handler'[g] = handler[g]
         /\ Touched(h)' = {object, old} \ {None}
         /\ Claims(h)' = ids \union (IF at = "adopting" THEN {agentId'[object]} ELSE {})
         /\ Meet(h, at, {object, old}, ids)
  BY DEF Await, TypeOK, Touched, Claims

\* The calls it shares something with then share it in raced.
LEMMA AwaitApart ==
  ASSUME Ownership, NEW h \in Handlers, NEW at, NEW object, NEW old, NEW id, NEW ids, NEW isCloud,
         Await(h, at, object, old, id, ids, isCloud), Lifecycle(at),
         Claims(h)' = ids,
         NEW g \in Handlers \ {h}, InFlight(g),
         Claims(g)' = Claims(g) \/ Touched(g) \intersect {object, old} # {}
  PROVE  Apart(g, h)'
  <1>1. /\ handler'[g] = handler[g]
        /\ Touched(h)' = {object, old} \ {None}
        /\ Meet(h, at, {object, old}, ids)
    BY AwaitHolds, OwnershipTypes
  <1>2. Touched(g)' = Touched(g)
    BY <1>1 DEF Touched
  <1>3. Touched(g) \intersect {object, old} # {} \/ Claims(g) \intersect ids # {} =>
          ({object, old} \ {None}) \union Touched(g) \subseteq raced'
    BY <1>1, MeetRaces
  <1> QED
    BY <1>1, <1>2, <1>3 DEF Apart

\* What Put, DeleteIds and Dispose do to the ids and the counts of an agent.
LEMMA PutIds ==
  ASSUME NEW old, NEW id \in Ids, NEW o, o # None, NEW isCloud, Put(old, id, o, isCloud)
  PROVE  /\ \A i \in Ids : agents'[i] = IF i = id THEN o ELSE IF i \in AgentIdsFor(old) THEN None
                                        ELSE agents[i]
         /\ AgentIdsFor(o)' = {id} \union (IF o = old THEN {} ELSE AgentIdsFor(o))
         /\ old # o => AgentIdsFor(old)' = {}
         /\ \A p : p \notin {o, old, agents[id]} => AgentIdsFor(p)' = AgentIdsFor(p)
  BY DEF Put, AgentIdsFor, None

LEMMA PutFreeIds ==
  ASSUME NEW id \in Ids, NEW o, o # None, NEW isCloud, Put(None, id, o, isCloud)
  PROVE  /\ \A i \in Ids : agents'[i] = IF i = id THEN o ELSE agents[i]
         /\ AgentIdsFor(o)' = {id} \union AgentIdsFor(o)
         /\ \A p : p \notin {o, None, agents[id]} => AgentIdsFor(p)' = AgentIdsFor(p)
  <1>1. AgentIdsFor(None) = {}
    BY DEF AgentIdsFor
  <1>2. agents' = [i \in Ids |-> IF i = id THEN o ELSE agents[i]]
    BY <1>1 DEF Put
  <1> QED
    BY <1>2 DEF AgentIdsFor

LEMMA DisposeOne ==
  ASSUME disposals \in [Objects -> 0..2], NEW o \in Objects, Dispose(o)
  PROVE  /\ disposals'[o] # 0 /\ (disposals[o] = 0 => disposals'[o] = 1)
         /\ \A p \in Objects : p # o => disposals'[p] = disposals[p]
  BY DEF Dispose, Again

\* registerAgent with its id free: the new agent is found under it at once.
LEMMA RegisterFreeOwnership ==
  ASSUME Ownership, NEW h \in Handlers, NEW id \in Ids, NEW isCloud \in BOOLEAN,
         Register(h, id, isCloud), agents[id] = None, IInv'
  PROVE  Ownership'
  <1>0. PICK o : o = made + 1
    OBVIOUS
  <1>1. /\ Free(h) /\ made' = o /\ made < MaxObjects
        /\ agentId' = [agentId EXCEPT ![o] = id]
        /\ Put(None, id, o, isCloud)
        /\ Meet(h, "replacing", {o}, {id})
        /\ UNCHANGED << disposals, handler, runs, closed >>
    BY <1>0 DEF Register, Make
  <1>2. /\ TypeOK /\ made \in Nat /\ raced \subseteq 1..made /\ 1..made \subseteq Objects
        /\ \A r \in runs : r.agent \in 0..made
        /\ \A g \in Handlers : Touched(g) \subseteq 1..made
    BY OwnershipTypes
  <1>3. o \in Objects /\ o > made /\ o \in 1..made' /\ o # None
    BY <1>0, <1>1, <1>2, RegistryBounds DEF Objects, None
  <1>4. raced \subseteq raced'
    BY <1>1, MeetRaces
  <1>5. StepOf(h)
    BY <1>1, <1>2, <1>3, <1>4 DEF StepOf
  <1>6. \A i \in Ids : agents'[i] = IF i = id THEN o ELSE agents[i]
    <2>1. AgentIdsFor(None) = {}
      BY DEF AgentIdsFor
    <2> QED
      BY <1>1, <2>1 DEF Put
  <1>7. \A p \in 1..made : Unmoved(p) /\ agentId'[p] = agentId[p]
    <2> TAKE p \in 1..made
    <2>1. p # o /\ p # None
      BY <1>2, <1>3 DEF None
    <2>2. agentId'[p] = agentId[p]
      BY <1>1, <1>2, <2>1 DEF TypeOK
    <2>3. AgentIdsFor(p)' = AgentIdsFor(p)
      BY <1>6, <2>1 DEF AgentIdsFor
    <2> QED
      BY <1>1, <2>2, <2>3 DEF Unmoved
  <1>8. /\ AgentIdsFor(o)' = {id} /\ agentId'[o] = id /\ disposals'[o] = 0
    <2>1. AgentIdsFor(o) = {}
      BY <1>2, <1>3 DEF AgentIdsFor, TypeOK
    <2>2. disposals[o] = 0 /\ o # None
      BY <1>3 DEF Ownership, Objects, None
    <2> QED
      BY <1>1, <1>2, <1>3, <1>6, <2>1, <2>2 DEF TypeOK, AgentIdsFor
  <1>9. ~InFlight(h) /\ handler'[h] = handler[h] /\ \A g : Touched(g)' = Touched(g)
    BY <1>1 DEF Free, Touched
  <1>10. SparesFresh(h)
    BY <1>1, <1>7, <1>9 DEF SparesFresh
  <1>11. SparesPairs(h) /\ \A g \in Handlers \ {h} : InFlight(g) => Claims(g)' = Claims(g)
    BY <1>5, <1>7, ClaimsKept
  <1>12. SparesClaims(h)
    <2> SUFFICES ASSUME NEW g \in Handlers \ {h}, InFlight(g), NEW i \in Claims(g), i \in Ids
                 PROVE  \/ agents'[i] = agents[i]
                        \/ {agents'[i], handler[g].object} \subseteq raced'
      BY <1>11, OwnershipTypes DEF SparesClaims
    <2>1. CASE i # id
      BY <1>6, <2>1
    <2>2. CASE i = id
      <3>1. ({o} \ {None}) \union Touched(g) \subseteq raced'
        BY <1>1, <2>2, MeetRaces DEF Lifecycle
      <3>2. handler[g].object \in Touched(g)
        BY OwnershipTypes DEF Ownership, Shape, Touched, None
      <3> QED
        BY <1>2, <1>6, <2>2, <3>1, <3>2 DEF None
    <2> QED
      BY <2>1, <2>2
  <1>13. SparesRead(h)
    BY <1>7 DEF SparesRead, Ownership, Shape
  <1>14. Shape(h)' /\ Fresh(h)' /\ ~InFlight(h)'
    <2>1. Shape(h)
      BY DEF Ownership
    <2> QED
      BY <1>9, <2>1 DEF Shape, Fresh, InFlight, Disposing
  <1>15. \A p \in (1..made') \ raced' : Owned(p)'
    <2> TAKE p \in (1..made') \ raced'
    <2>1. CASE p = o
      BY <1>8, <2>1 DEF Owned, AgentIdsFor
    <2>2. CASE p # o
      <3>1. p \in (1..made) \ raced'
        BY <1>0, <1>1, <1>2, <2>2
      <3>2. Touched(h) = {}
        BY <1>9 DEF Ownership, Shape, Touched
      <3> QED
        BY <1>5, <1>7, <3>1, <3>2, OwnedKept
    <2> QED
      BY <2>1, <2>2
  <1>16. \A r \in runs' : RunOf(r)'
    <2> TAKE r \in runs'
    <2>1. r \in runs /\ r.agent \in 0..made
      BY <1>1, <1>2
    <2>2. r.agent # None => AgentIdsFor(r.agent)' = AgentIdsFor(r.agent)
      BY <1>2, <1>7, <2>1 DEF Unmoved, None
    <2> QED
      BY <1>1, <1>5, <2>1, <2>2, RunKept
  <1>17. \A p \in closed' : disposals'[p] # 0
    BY <1>1 DEF Ownership
  <1>18. \A p \in Objects : p > made' => disposals'[p] = 0
    BY <1>0, <1>1, <1>2 DEF Ownership, Objects
  <1> QED
    BY <1>5, <1>10, <1>11, <1>12, <1>13, <1>14, <1>15, <1>16, <1>17, <1>18, OwnershipNext

\* registerAgent with its id taken: the agent there is disposed of, and the
\* new one is in the call's hands only.
LEMMA RegisterTakenOwnership ==
  ASSUME Ownership, NEW h \in Handlers, NEW id \in Ids, NEW isCloud \in BOOLEAN,
         Register(h, id, isCloud), agents[id] # None, IInv'
  PROVE  Ownership'
  <1>0. /\ TypeOK /\ made \in Nat /\ raced \subseteq 1..made /\ 1..made \subseteq Objects
        /\ \A r \in runs : r.agent \in 0..made
        /\ \A i \in Ids : agents[i] \in 0..made
        /\ disposals \in [Objects -> 0..2]
        /\ \A g \in Handlers : Touched(g) \subseteq 1..made
    BY OwnershipTypes DEF TypeOK
  <1>1. PICK o, old, ids : o = made + 1 /\ old = agents[id] /\ ids = {id} \union AgentIdsFor(agents[id])
    OBVIOUS
  <1>2. /\ Free(h) /\ made' = o /\ made < MaxObjects
        /\ agentId' = [agentId EXCEPT ![o] = id]
        /\ Dispose(old)
        /\ Await(h, "replacing", o, old, id, ids, isCloud)
        /\ UNCHANGED << agents, runs, closed >>
    BY <1>1 DEF Register, Make
  <1>3. o \in Objects /\ o > made /\ o \in 1..made' /\ o # None /\ old \in 1..made /\ o # old
    BY <1>0, <1>1, <1>2, RegistryBounds DEF Objects, None
  <1>4. /\ handler'[h] = [at |-> "replacing", object |-> o, old |-> old, id |-> id,
                          ids |-> ids, cloud |-> isCloud]
        /\ \A g \in Handlers \ {h} : handler'[g] = handler[g]
        /\ Touched(h)' = {o, old}
        /\ Claims(h)' = ids
        /\ Meet(h, "replacing", {o, old}, ids)
    <2>1. {o, old} \ {None} = {o, old}
      BY <1>3 DEF None
    <2> QED
      BY <1>0, <1>2, <2>1, AwaitHolds
  <1>5. /\ disposals'[old] # 0 /\ (disposals[old] = 0 => disposals'[old] = 1)
        /\ \A p \in Objects : p # old => disposals'[p] = disposals[p]
    BY <1>0, <1>2, <1>3, DisposeOne
  <1>6. raced \subseteq raced'
    BY <1>4, MeetRaces
  <1>7. StepOf(h)
    BY <1>0, <1>2, <1>3, <1>4, <1>5, <1>6 DEF StepOf
  <1>8. /\ \A p : AgentIdsFor(p)' = AgentIdsFor(p)
        /\ \A p \in 1..made : agentId'[p] = agentId[p] /\ (p # old => Unmoved(p))
    BY <1>0, <1>2, <1>3, <1>5 DEF AgentIdsFor, Unmoved, TypeOK
  <1>9. /\ AgentIdsFor(o)' = {} /\ agentId'[o] = id /\ disposals'[o] = 0
        /\ AgentIdsFor(old) # {}
    <2>1. AgentIdsFor(o) = {}
      BY <1>0, <1>3 DEF AgentIdsFor
    <2>2. disposals[o] = 0
      BY <1>3 DEF Ownership
    <2>3. id \in AgentIdsFor(old)
      BY <1>1, <1>3 DEF AgentIdsFor, None
    <2> QED
      BY <1>0, <1>2, <1>3, <1>5, <1>8, <2>1, <2>2, <2>3 DEF TypeOK
  <1>10. ~InFlight(h) /\ Touched(h) = {} /\ handler[h].at = "idle"
    BY <1>2 DEF Free, InFlight, Ownership, Shape, Touched
  <1>11. SparesFresh(h)
    <2> SUFFICES ASSUME NEW p \in 1..made, AgentIdsFor(p) = {}
                 PROVE  /\ Unmoved(p) /\ agentId'[p] = agentId[p]
                        /\ p \notin Touched(h)'
      BY <1>2 DEF SparesFresh
    <2>1. p # old /\ p # o
      BY <1>0, <1>3, <1>9
    <2> QED
      BY <1>4, <1>8, <2>1
  <1>12. SparesPairs(h) /\ \A g \in Handlers \ {h} : InFlight(g) => Claims(g)' = Claims(g)
    BY <1>7, <1>8, ClaimsKept
  <1>13. SparesClaims(h)
    BY <1>2, <1>12 DEF SparesClaims
  <1>14. SparesRead(h)
    <2> SUFFICES ASSUME NEW g \in Handlers \ {h}, InFlight(g), handler[g].object = old
                 PROVE  old \in raced'
      BY <1>8 DEF SparesRead, Ownership, Shape
    <2>1. old \in Touched(g)
      BY <1>3 DEF Touched, None
    <2> QED
      BY <1>4, <2>1, MeetRaces DEF Lifecycle
  <1>15. Shape(h)'
    <2>1. InFlight(h)'
      BY <1>4 DEF InFlight
    <2>2. \A p : Disposing(h, p)' => p = old
      BY <1>4 DEF Disposing
    <2>3. 1..made \subseteq 1..made'
      BY <1>0, <1>2, <1>3
    <2> QED
      BY <1>1, <1>3, <1>4, <1>5, <2>1, <2>2, <2>3 DEF Shape
  <1>16. Fresh(h)'
    <2>1. \A g \in Handlers \ {h} : Touched(g)' = Touched(g)
      BY <1>4 DEF Touched
    <2>2. \A g \in Handlers \ {h} : o \notin Touched(g)'
      BY <1>0, <1>3, <2>1
    <2>3. \A r \in runs' : r.agent # o
      BY <1>0, <1>2, <1>3
    <2> QED
      BY <1>4, <1>9, <2>2, <2>3 DEF Fresh, AgentIdsFor
  <1>17. Claimed(h)'
    <2> SUFFICES ASSUME NEW i \in ids PROVE agents'[i] = old
      BY <1>4 DEF Claimed
    <2> QED
      BY <1>1, <1>2 DEF AgentIdsFor
  <1>18. Steady(h)'
    BY <1>4 DEF Steady
  <1>19. \A g \in Handlers \ {h} : InFlight(g) => Apart(g, h)'
    BY <1>2, <1>4, <1>12, AwaitApart DEF Lifecycle
  <1>20. \A p \in (1..made') \ raced' : Owned(p)'
    <2> TAKE p \in (1..made') \ raced'
    <2>1. CASE p = o
      BY <1>4, <1>9, <2>1 DEF Owned, AgentIdsFor, Keeping
    <2>2. CASE p = old
      <3>1. disposals[p] = 0
        BY <1>3, <1>4, <1>9, <1>10, <2>2, FoundAlive
      <3>2. Disposing(h, p)'
        BY <1>4, <2>2 DEF Disposing
      <3> QED
        BY <1>5, <2>2, <3>1, <3>2 DEF Owned
    <2>3. CASE p # o /\ p # old
      <3>1. p \in (1..made) \ raced'
        BY <1>0, <1>1, <1>2, <2>3
      <3> QED
        BY <1>7, <1>8, <1>10, <2>3, <3>1, OwnedKept
    <2> QED
      BY <2>1, <2>2, <2>3
  <1>21. \A r \in runs' : RunOf(r)'
    BY <1>2, <1>7, <1>8, RunKept
  <1>22. \A p \in closed' : disposals'[p] # 0
    <2>1. closed \subseteq 1..made
      BY <1>0 DEF TypeOK
    <2> QED
      BY <1>0, <1>2, <1>5, <2>1 DEF Ownership
  <1>23. \A p \in Objects : p > made' => disposals'[p] = 0
    BY <1>0, <1>1, <1>2, <1>3, <1>5 DEF Ownership, Objects
  <1> QED
    BY <1>7, <1>11, <1>12, <1>13, <1>14, <1>15, <1>16, <1>17, <1>18, <1>19, <1>20, <1>21,
       <1>22, <1>23, OwnershipNext

\* closeAgent, up to the disposal it awaits.
LEMMA CloseAgentOwnership ==
  ASSUME Ownership, NEW h \in Handlers, NEW id \in Ids, CloseAgent(h, id), IInv'
  PROVE  Ownership'
  <1>0. /\ TypeOK /\ made \in Nat /\ raced \subseteq 1..made /\ 1..made \subseteq Objects
        /\ \A i \in Ids : agents[i] \in 0..made
        /\ disposals \in [Objects -> 0..2]
    BY OwnershipTypes DEF TypeOK
  <1>1. PICK o, ids, mark :
         o = agents[id] /\ ids = AgentIdsFor(agents[id]) /\ mark = FALSE
    OBVIOUS
  <1>2. /\ Free(h) /\ o # None
        /\ Dispose(o)
        /\ Await(h, "closing", o, None, id, ids, mark)
        /\ UNCHANGED << agents, runs, closed, made, agentId >>
    BY <1>1 DEF CloseAgent
  <1>3. o \in 1..made
    BY <1>0, <1>1, <1>2 DEF None
  <1>4. /\ handler'[h] = [at |-> "closing", object |-> o, old |-> None, id |-> id,
                          ids |-> ids, cloud |-> mark]
        /\ \A g \in Handlers \ {h} : handler'[g] = handler[g]
        /\ Touched(h)' = {o}
        /\ Claims(h)' = ids
        /\ Meet(h, "closing", {o, None}, ids)
    <2>1. {o, None} \ {None} = {o}
      BY <1>2
    <2> QED
      BY <1>0, <1>2, <2>1, AwaitHolds
  <1>5. /\ disposals'[o] # 0 /\ (disposals[o] = 0 => disposals'[o] = 1)
        /\ \A p \in Objects : p # o => disposals'[p] = disposals[p]
    BY <1>0, <1>2, <1>3, DisposeOne
  <1>6. raced \subseteq raced'
    BY <1>4, MeetRaces
  <1>7. StepOf(h)
    BY <1>0, <1>2, <1>4, <1>5, <1>6 DEF StepOf
  <1>8. /\ \A p : AgentIdsFor(p)' = AgentIdsFor(p)
        /\ \A p \in 1..made : agentId'[p] = agentId[p] /\ (p # o => Unmoved(p))
    BY <1>0, <1>2, <1>5 DEF AgentIdsFor, Unmoved
  <1>9. id \in ids /\ ids = AgentIdsFor(o)
    BY <1>1, <1>2 DEF AgentIdsFor
  <1>10. ~InFlight(h) /\ Touched(h) = {} /\ handler[h].at = "idle"
    BY <1>2 DEF Free, InFlight, Ownership, Shape, Touched
  <1>11. SparesFresh(h)
    BY <1>2, <1>4, <1>8, <1>9 DEF SparesFresh
  <1>12. SparesPairs(h) /\ \A g \in Handlers \ {h} : InFlight(g) => Claims(g)' = Claims(g)
    BY <1>7, <1>8, ClaimsKept
  <1>13. SparesClaims(h)
    BY <1>2, <1>12 DEF SparesClaims
  <1>14. SparesRead(h)
    <2> SUFFICES ASSUME NEW g \in Handlers \ {h}, InFlight(g), handler[g].object = o
                 PROVE  o \in raced'
      BY <1>8 DEF SparesRead, Ownership, Shape
    <2>1. o \in Touched(g)
      BY <1>2 DEF Touched
    <2> QED
      BY <1>4, <2>1, MeetRaces DEF Lifecycle
  <1>15. Shape(h)' /\ Fresh(h)'
    <2>1. \A p : Disposing(h, p)' => p = o
      BY <1>4 DEF Disposing
    <2> QED
      BY <1>2, <1>3, <1>4, <1>5, <1>9, <2>1 DEF Shape, Fresh, InFlight
  <1>16. Claimed(h)' /\ Steady(h)'
    <2>1. \A i \in ids : agents'[i] = o
      BY <1>1, <1>2 DEF AgentIdsFor
    <2>2. Claimed(h)'
      BY <1>4, <2>1 DEF Claimed
    <2>3. Steady(h)'
      BY <1>4, <1>8, <1>9 DEF Steady, AgentIdsFor
    <2> QED
      BY <2>2, <2>3
  <1>17. \A g \in Handlers \ {h} : InFlight(g) => Apart(g, h)'
    BY <1>2, <1>4, <1>12, AwaitApart DEF Lifecycle
  <1>18. \A p \in (1..made') \ raced' : Owned(p)'
    <2> TAKE p \in (1..made') \ raced'
    <2>1. CASE p = o
      <3>1. disposals[p] = 0
        BY <1>3, <1>4, <1>9, <1>10, <2>1, FoundAlive
      <3>2. Disposing(h, p)'
        BY <1>4, <2>1 DEF Disposing
      <3> QED
        BY <1>5, <2>1, <3>1, <3>2 DEF Owned
    <2>2. CASE p # o
      BY <1>2, <1>7, <1>8, <1>10, <2>2, OwnedKept
    <2> QED
      BY <2>1, <2>2
  <1>19. \A r \in runs' : RunOf(r)'
    BY <1>2, <1>7, <1>8, RunKept
  <1>20. \A p \in closed' : disposals'[p] # 0
    <2>1. closed \subseteq 1..made
      BY <1>0 DEF TypeOK
    <2> QED
      BY <1>0, <1>2, <1>5, <2>1 DEF Ownership
  <1>21. \A p \in Objects : p > made' => disposals'[p] = 0
    BY <1>0, <1>2, <1>3, <1>5 DEF Ownership, Objects
  <1> QED
    BY <1>7, <1>11, <1>12, <1>13, <1>14, <1>15, <1>16, <1>17, <1>18, <1>19, <1>20, <1>21,
       OwnershipNext

\* The rest of closeAgent: the ids found before the await are still the agent's,
\* and its runs are under them.
LEMMA ClosedOwnership ==
  ASSUME Ownership, NEW h \in Handlers, Closed(h), IInv'
  PROVE  Ownership'
  <1>0. /\ TypeOK /\ made \in Nat /\ raced \subseteq 1..made /\ 1..made \subseteq Objects
        /\ \A i \in Ids : agents[i] \in 0..made
        /\ \A r \in runs : r.agent \in 0..made /\ r.id \in Ids
    BY OwnershipTypes
  <1>1. PICK o, ids : o = handler[h].object /\ ids = handler[h].ids
    OBVIOUS
  <1>2. /\ handler[h].at = "closing"
        /\ agents' = [i \in Ids |-> IF i \in ids THEN None ELSE agents[i]]
        /\ runs' = {r \in runs : r.id \notin ids}
        /\ closed' = closed \union {o}
        /\ handler' = [handler EXCEPT ![h] = Idle]
        /\ UNCHANGED << raced, made, agentId, disposals >>
    BY <1>1 DEF Closed, DeleteIds, Finish
  <1>3. /\ InFlight(h) /\ o \in 1..made /\ o # None /\ handler[h].id \in ids
        /\ Touched(h) = {o} /\ Claims(h) = ids /\ disposals[o] # 0
        /\ Claimed(h) /\ Steady(h)
    <2>1. InFlight(h) /\ Shape(h) /\ Claimed(h) /\ Steady(h)
      BY <1>2 DEF InFlight, Ownership
    <2>2. Disposing(h, o)
      BY <1>1, <1>2 DEF Disposing
    <2> QED
      BY <1>1, <1>2, <2>1, <2>2 DEF Shape, Touched, Claims, None
  <1>4. /\ ~InFlight(h)' /\ Shape(h)' /\ Fresh(h)' /\ Touched(h)' = {}
        /\ \A g \in Handlers \ {h} : handler'[g] = handler[g]
    BY <1>0, <1>2, EndHolds
  <1>5. StepOf(h)
    BY <1>0, <1>2, <1>4 DEF StepOf
  <1>6. \A p \in 1..made : p \notin raced /\ p # o => Unmoved(p)
    <2> TAKE p \in 1..made
    <2> HAVE p \notin raced /\ p # o
    <2>1. \A i \in Ids : agents[i] = p => i \notin ids
      BY <1>0, <1>3 DEF Claimed, None
    <2>2. AgentIdsFor(p)' = AgentIdsFor(p)
      BY <1>0, <1>2, <2>1 DEF AgentIdsFor, None
    <2> QED
      BY <1>2, <2>2 DEF Unmoved
  <1>7. o \notin raced => AgentIdsFor(o)' = {}
    BY <1>1, <1>2, <1>3 DEF Steady, AgentIdsFor, None
  <1>8. SparesFresh(h)
    BY <1>0, <1>2, <1>4 DEF SparesFresh, AgentIdsFor, Unmoved, None
  <1>9. SparesPairs(h) /\ \A g \in Handlers \ {h} : InFlight(g) => Claims(g)' = Claims(g)
    BY <1>2, <1>5, ClaimsKept
  <1>10. SparesClaims(h)
    BY <1>2, <1>9, OwnershipTypes DEF SparesClaims
  <1>11. SparesRead(h)
    <2> SUFFICES ASSUME NEW g \in Handlers \ {h}, InFlight(g), handler[g].object = o
                 PROVE  o \in raced
      BY <1>2, <1>6 DEF SparesRead, Ownership, Shape
    <2>1. Apart(g, h) /\ o \in Touched(g)
      BY <1>3 DEF Ownership, Touched
    <2> QED
      BY <1>2, <1>3, <2>1 DEF Apart
  <1>12. \A p \in (1..made') \ raced' : Owned(p)'
    <2> TAKE p \in (1..made') \ raced'
    <2>1. CASE p = o
      BY <1>2, <1>3, <1>7, <2>1 DEF Owned, Ownership, AgentIdsFor
    <2>2. CASE p # o
      BY <1>2, <1>3, <1>5, <1>6, <2>2, OwnedKept
    <2> QED
      BY <2>1, <2>2
  <1>13. \A r \in runs' : RunOf(r)'
    <2> TAKE r \in runs'
    <2>1. r \in runs /\ r.id \notin ids /\ r.agent \in 0..made
      BY <1>0, <1>2
    <2>2. CASE r.agent # o
      <3>1. r.agent # None /\ r.agent \notin raced' => AgentIdsFor(r.agent)' = AgentIdsFor(r.agent)
        BY <1>0, <1>2, <1>6, <2>1, <2>2 DEF Unmoved, None
      <3>2. r.agent \in closed' => r.agent \in closed
        BY <1>2, <2>2
      <3> QED
        BY <1>5, <2>1, <3>1, <3>2, RunKept
    <2>3. CASE r.agent = o /\ o \notin raced
      <3>1. RunOf(r) /\ AgentIdsFor(o) = ids
        BY <1>1, <1>2, <1>3, <2>1, <2>3 DEF Ownership, Steady
      <3> QED
        BY <1>3, <2>1, <2>3, <3>1 DEF RunOf
    <2>4. CASE r.agent = o /\ o \in raced
      BY <1>2, <2>4 DEF RunOf
    <2> QED
      BY <2>2, <2>3, <2>4
  <1>14. \A p \in closed' : disposals'[p] # 0
    BY <1>2, <1>3 DEF Ownership
  <1>15. \A p \in Objects : p > made' => disposals'[p] = 0
    BY <1>2 DEF Ownership
  <1> QED
    BY <1>4, <1>5, <1>8, <1>9, <1>10, <1>11, <1>12, <1>13, <1>14, <1>15, OwnershipNext

\* send, up to the SDK's answer it awaits: the agent it found is alive, and no
\* call that is to remove or rename one is at it.
LEMMA SendOwnership ==
  ASSUME Ownership, NEW h \in Handlers, NEW id \in Ids, Send(h, id), IInv'
  PROVE  Ownership'
  <1>0. /\ TypeOK /\ made \in Nat /\ raced \subseteq 1..made /\ 1..made \subseteq Objects
        /\ \A i \in Ids : agents[i] \in 0..made
    BY OwnershipTypes
  <1>1. PICK o, ids, mark :
         o = agents[id] /\ ids = AgentIdsFor(agents[id]) /\ mark = (id \in cloudIds)
    OBVIOUS
  <1>2. /\ Free(h) /\ o # None
        /\ Await(h, "sending", o, None, id, ids, mark)
        /\ UNCHANGED << agents, runs, closed, made, agentId, disposals >>
    BY <1>1 DEF Send
  <1>3. o \in 1..made
    BY <1>0, <1>1, <1>2 DEF None
  <1>4. /\ handler'[h] = [at |-> "sending", object |-> o, old |-> None, id |-> id,
                          ids |-> ids, cloud |-> mark]
        /\ \A g \in Handlers \ {h} : handler'[g] = handler[g]
        /\ Touched(h)' = {o}
        /\ Claims(h)' = ids
        /\ Meet(h, "sending", {o, None}, ids)
    <2>1. {o, None} \ {None} = {o}
      BY <1>2
    <2> QED
      BY <1>0, <1>2, <2>1, AwaitHolds
  <1>5. raced \subseteq raced'
    BY <1>4, MeetRaces
  <1>6. StepOf(h)
    BY <1>0, <1>2, <1>4, <1>5 DEF StepOf
  <1>7. \A p : AgentIdsFor(p)' = AgentIdsFor(p) /\ Unmoved(p) /\ agentId'[p] = agentId[p]
    BY <1>2 DEF AgentIdsFor, Unmoved
  <1>8. id \in ids /\ ids = AgentIdsFor(o) /\ \A i \in ids : i \in Ids /\ agents[i] = o
    BY <1>1, <1>2 DEF AgentIdsFor
  <1>9. ~InFlight(h) /\ Touched(h) = {} /\ handler[h].at = "idle"
    BY <1>2 DEF Free, InFlight, Ownership, Shape, Touched
  <1>10. SparesFresh(h)
    BY <1>2, <1>4, <1>7, <1>8 DEF SparesFresh
  <1>11. SparesPairs(h) /\ \A g \in Handlers \ {h} : InFlight(g) => Claims(g)' = Claims(g)
    BY <1>6, <1>7, ClaimsKept
  <1>12. SparesClaims(h) /\ SparesRead(h)
    BY <1>2, <1>7, <1>11 DEF SparesClaims, SparesRead
  <1>13. Shape(h)' /\ Fresh(h)'
    <2>1. \A p : ~Disposing(h, p)'
      BY <1>4 DEF Disposing
    <2> QED
      BY <1>2, <1>3, <1>4, <1>8, <2>1 DEF Shape, Fresh, InFlight
  <1>14. Claimed(h)'
    BY <1>2, <1>4, <1>8 DEF Claimed
  <1>15. Steady(h)'
    <2>1. o \notin raced' => disposals[o] = 0
      BY <1>3, <1>4, <1>8, <1>9, FoundAlive
    <2> QED
      BY <1>2, <1>4, <1>8, <2>1 DEF Steady, AgentIdsFor
  <1>16. ASSUME NEW g \in Handlers \ {h}, InFlight(g) PROVE Apart(g, h)'
    <2>1. /\ handler'[g] = handler[g] /\ Touched(g)' = Touched(g) /\ Claims(g)' = Claims(g)
          /\ Claimed(g) /\ Shape(g)
      BY <1>4, <1>11, <1>16 DEF Touched, Ownership
    <2>2. CASE Lifecycle(handler[g].at)
      <3>1. Touched(g) \intersect {o, None} # {} \/ Claims(g) \intersect ids # {} =>
              ({o, None} \ {None}) \union Touched(g) \subseteq raced'
        BY <1>4, <1>16, <2>2, MeetRaces
      <3> QED
        BY <1>2, <1>4, <2>1, <3>1 DEF Apart
    <2>3. CASE handler[g].at = "sending"
      <3>1. Touched(g) = {handler[g].object}
        BY <2>1, <2>3 DEF Shape, Touched, InFlight, None
      <3>2. \A i \in Claims(g) \intersect ids :
              o = handler[g].object \/ {o, handler[g].object} \subseteq raced'
        BY <1>2, <1>5, <1>8, <2>1, <3>1 DEF Claimed
      <3> QED
        BY <1>4, <2>1, <2>3, <3>1, <3>2 DEF Apart
    <2>4. handler[g].at \in {"replacing", "closing", "sending", "adopting"}
      BY <1>0, <1>16 DEF InFlight, TypeOK, HandlerStates
    <2> QED
      BY <2>2, <2>3, <2>4 DEF Lifecycle
  <1>17. \A p \in (1..made') \ raced' : Owned(p)'
    BY <1>2, <1>6, <1>7, <1>9, OwnedKept
  <1>18. \A r \in runs' : RunOf(r)'
    BY <1>2, <1>6, <1>7, RunKept
  <1>19. /\ \A p \in closed' : disposals'[p] # 0
         /\ \A p \in Objects : p > made' => disposals'[p] = 0
    BY <1>2 DEF Ownership
  <1> QED
    BY <1>6, <1>10, <1>11, <1>12, <1>13, <1>14, <1>15, <1>16, <1>17, <1>18, <1>19,
       OwnershipNext

\* A send that fails, and a run that the SDK knows, change no agent.
LEMMA QuietOwnership ==
  ASSUME Ownership, NEW h \in Handlers, NEW id, SendFails(h) \/ FetchRun(h, id), IInv'
  PROVE  Ownership'
  <1>0. TypeOK /\ made \in Nat
    BY OwnershipTypes
  <1>1. /\ UNCHANGED << agents, closed, made, agentId, disposals, raced >>
        /\ runs' \subseteq runs \union {[agent |-> None, id |-> id]}
    BY DEF SendFails, FetchRun, Finish, RegisterRun
  <1>2. /\ \A g \in Handlers \ {h} : handler'[g] = handler[g]
        /\ (handler'[h] = handler[h] /\ handler[h].at = "idle") \/ handler'[h] = Idle
        /\ \A o : ~Keeping(h, o) /\ ~Disposing(h, o)
    <2>1. CASE SendFails(h)
      BY <1>0, <2>1 DEF SendFails, Finish, TypeOK, Keeping, Disposing
    <2>2. CASE FetchRun(h, id)
      BY <2>2 DEF FetchRun, Free, InFlight, Keeping, Disposing
    <2> QED
      BY <2>1, <2>2
  <1>3. Shape(h)' /\ Fresh(h)' /\ ~InFlight(h)' /\ Touched(h)' = {}
    <2>1. CASE handler'[h] = Idle
      BY <2>1 DEF Idle, InFlight, Shape, Fresh, Touched, None, Disposing
    <2>2. CASE handler'[h] = handler[h] /\ handler[h].at = "idle"
      <3>1. Shape(h)
        BY DEF Ownership
      <3> QED
        BY <2>2, <3>1 DEF InFlight, Shape, Fresh, Touched, None, Disposing
    <2> QED
      BY <1>2, <2>1, <2>2
  <1>4. StepOf(h)
    BY <1>0, <1>1, <1>2 DEF StepOf
  <1>5. \A p : AgentIdsFor(p)' = AgentIdsFor(p) /\ Unmoved(p) /\ agentId'[p] = agentId[p]
    BY <1>1 DEF AgentIdsFor, Unmoved
  <1>6. SparesFresh(h)
    BY <1>0, <1>1, <1>3, <1>5 DEF SparesFresh, None
  <1>7. SparesPairs(h) /\ \A g \in Handlers \ {h} : InFlight(g) => Claims(g)' = Claims(g)
    BY <1>4, <1>5, ClaimsKept
  <1>8. SparesClaims(h) /\ SparesRead(h)
    BY <1>1, <1>5, <1>7 DEF SparesClaims, SparesRead
  <1>9. \A p \in (1..made') \ raced' : Owned(p)'
    <2> TAKE p \in (1..made') \ raced'
    <2>1. Owned(p)
      BY <1>1 DEF Ownership
    <2>2. \A g \in Handlers : (Keeping(g, p) => Keeping(g, p)') /\ (Disposing(g, p) => Disposing(g, p)')
      BY <1>2 DEF Keeping, Disposing
    <2> QED
      BY <1>1, <1>5, <2>1, <2>2 DEF Owned
  <1>10. \A r \in runs' : RunOf(r)'
    <2> TAKE r \in runs'
    <2>1. CASE r \in runs
      BY <1>1, <1>4, <1>5, <2>1, RunKept
    <2>2. CASE r = [agent |-> None, id |-> id]
      BY <2>2 DEF RunOf
    <2> QED
      BY <1>1, <2>1, <2>2
  <1>11. /\ \A p \in closed' : disposals'[p] # 0
         /\ \A p \in Objects : p > made' => disposals'[p] = 0
    BY <1>1 DEF Ownership
  <1> QED
    BY <1>3, <1>4, <1>6, <1>7, <1>8, <1>9, <1>10, <1>11, OwnershipNext

\* The disposal awaited has ended: the agent it was for takes the place.
LEMMA PutOwnership ==
  ASSUME Ownership, NEW h \in Handlers,
         Replaced(h) \/ \E fails \in BOOLEAN : Adopted(h, fails), IInv'
  PROVE  Ownership'
  <1>0. /\ TypeOK /\ made \in Nat /\ raced \subseteq 1..made /\ 1..made \subseteq Objects
        /\ \A i \in Ids : agents[i] \in 0..made
        /\ \A p \in 1..made : agentId[p] \in Ids
        /\ \A r \in runs : r.agent \in 0..made
    BY OwnershipTypes
  <1>1. PICK o, old, id, mark :
         /\ o = handler[h].object /\ old = handler[h].old /\ id = agentId[handler[h].object]
         /\ mark = handler[h].cloud
    OBVIOUS
  <1>2. /\ handler[h].at \in {"replacing", "adopting"}
        /\ Put(old, id, o, mark)
        /\ handler' = [handler EXCEPT ![h] = Idle]
        /\ \/ runs' = runs
           \/ handler[h].at = "adopting" /\ runs' = runs \union {[agent |-> o, id |-> handler[h].id]}
        /\ UNCHANGED << closed, raced, made, agentId, disposals >>
    BY <1>1 DEF Replaced, Adopted, Finish, RegisterRun
  <1>3. InFlight(h) /\ Shape(h) /\ Fresh(h) /\ Claimed(h) /\ Steady(h)
    BY <1>2 DEF InFlight, Ownership
  <1>4. /\ o \in 1..made /\ old \in 1..made /\ old # o /\ o # None /\ old # None
        /\ Touched(h) = {o, old} /\ id \in Ids
    BY <1>0, <1>1, <1>2, <1>3 DEF Shape, Touched, None
  <1>5. id \in Claims(h)
    BY <1>1, <1>2, <1>3 DEF Claims, Fresh, Shape
  <1>6. /\ \A i \in Ids : agents'[i] = IF i = id THEN o ELSE IF i \in AgentIdsFor(old) THEN None
                                       ELSE agents[i]
        /\ AgentIdsFor(o)' = {id} \union AgentIdsFor(o)
        /\ AgentIdsFor(old)' = {}
        /\ \A p : p \notin {o, old, agents[id]} => AgentIdsFor(p)' = AgentIdsFor(p)
    <2>1. Put(old, id, o, mark)
      BY <1>2
    <2> QED
      BY <1>4, <2>1, PutIds
  <1>7. /\ ~InFlight(h)' /\ Shape(h)' /\ Fresh(h)' /\ Touched(h)' = {}
        /\ \A g \in Handlers \ {h} : handler'[g] = handler[g]
    BY <1>0, <1>2, EndHolds
  <1>8. StepOf(h)
    BY <1>0, <1>2, <1>7 DEF StepOf
  <1>9. \A p \in 1..made : p \notin raced /\ p \notin {o, old} => Unmoved(p)
    <2> TAKE p \in 1..made
    <2> HAVE p \notin raced /\ p \notin {o, old}
    <2>1. agents[id] # p
      BY <1>0, <1>3, <1>4, <1>5 DEF Claimed, None
    <2> QED
      BY <1>2, <1>6, <2>1 DEF Unmoved
  <1>10. SparesFresh(h)
    <2> SUFFICES ASSUME NEW p \in 1..made, p \notin Touched(h), AgentIdsFor(p) = {}
                 PROVE  Unmoved(p) /\ \A r \in runs' : r.agent = p => r \in runs
      BY <1>2, <1>7 DEF SparesFresh
    <2>1. p # o /\ p # old
      BY <1>4
    <2>2. agents[id] # p
      BY <1>0, <1>4 DEF AgentIdsFor, None
    <2>3. \A r \in runs' : r.agent = p => r \in runs
      BY <1>2, <2>1
    <2> QED
      BY <1>2, <1>6, <2>1, <2>2, <2>3 DEF Unmoved
  <1>11. SparesPairs(h) /\ \A g \in Handlers \ {h} : InFlight(g) => Claims(g)' = Claims(g)
    BY <1>2, <1>8, ClaimsKept
  <1>12. \A g \in Handlers \ {h} : InFlight(g) =>
           (Touched(g) \intersect {o, old} # {} \/ id \in Claims(g) =>
              {o, old} \union Touched(g) \subseteq raced)
    <2> TAKE g \in Handlers \ {h}
    <2> HAVE InFlight(g)
    <2>1. Apart(g, h)
      BY <1>3 DEF Ownership
    <2> QED
      BY <1>2, <1>4, <1>5, <2>1 DEF Apart
  <1>13. SparesClaims(h)
    <2> SUFFICES ASSUME NEW g \in Handlers \ {h}, InFlight(g), NEW i \in Claims(g), i \in Ids
                 PROVE  \/ agents'[i] \in {agents[i], None}
                        \/ {agents'[i], handler[g].object} \subseteq raced'
      BY <1>11, OwnershipTypes DEF SparesClaims
    <2>1. CASE i # id
      BY <1>6, <2>1
    <2>2. CASE i = id
      <3>1. handler[g].object \in Touched(g)
        BY <1>0 DEF Ownership, Shape, Touched, None
      <3> QED
        BY <1>2, <1>6, <1>12, <2>2, <3>1
    <2> QED
      BY <2>1, <2>2
  <1>14. SparesRead(h)
    <2> SUFFICES ASSUME NEW g \in Handlers \ {h}, InFlight(g), handler[g].object \in {o, old}
                 PROVE  handler[g].object \in raced
      BY <1>2, <1>9 DEF SparesRead, Ownership, Shape
    <2>1. handler[g].object \in Touched(g)
      BY <1>4 DEF Touched
    <2> QED
      BY <1>12, <2>1
  <1>15. o \notin raced => disposals[o] = 0
    BY <1>1, <1>2, <1>3 DEF Fresh, Steady
  <1>16. old \notin raced => disposals[old] # 0 /\ disposals[old] <= 1
    <2>1. Disposing(h, old)
      BY <1>1, <1>2 DEF Disposing
    <2>2. disposals[old] # 0
      BY <1>3, <1>4, <2>1 DEF Shape
    <2>3. old \notin raced => Owned(old)
      BY <1>4 DEF Ownership
    <2> QED
      BY <2>2, <2>3 DEF Owned
  <1>17. \A p \in (1..made') \ raced' : Owned(p)'
    <2> TAKE p \in (1..made') \ raced'
    <2>1. CASE p = o
      <3>1. agentId'[o] \in AgentIdsFor(o)'
        BY <1>1, <1>2, <1>6
      <3> QED
        BY <1>2, <1>15, <2>1, <3>1 DEF Owned
    <2>2. CASE p = old
      BY <1>2, <1>6, <1>16, <2>2 DEF Owned
    <2>3. CASE p # o /\ p # old
      BY <1>2, <1>4, <1>8, <1>9, <2>3, OwnedKept
    <2> QED
      BY <2>1, <2>2, <2>3
  <1>18. \A r \in runs' : RunOf(r)'
    <2> TAKE r \in runs'
    <2>1. CASE r \in runs /\ r.agent \notin {o, old}
      <3>1. r.agent # None /\ r.agent \notin raced => AgentIdsFor(r.agent)' = AgentIdsFor(r.agent)
        BY <1>0, <1>9, <2>1 DEF Unmoved, None
      <3> QED
        BY <1>2, <1>8, <2>1, <3>1, RunKept
    <2>2. CASE r \in runs /\ r.agent = old
      BY <1>2, <1>6, <2>2 DEF RunOf, Ownership
    <2>3. CASE r \in runs /\ r.agent = o
      <3>1. handler[h].at = "replacing" => FALSE
        BY <1>1, <1>3, <2>3 DEF Fresh
      <3>2. RunOf(r)
        BY <2>3 DEF Ownership
      <3>3. o \notin raced => AgentIdsFor(o) # {}
        BY <1>1, <1>2, <1>3, <3>1 DEF Steady
      <3> QED
        BY <1>2, <1>4, <1>6, <2>3, <3>2, <3>3 DEF RunOf
    <2>4. CASE handler[h].at = "adopting" /\ r = [agent |-> o, id |-> handler[h].id]
      <3>1. r.agent = o /\ r.id = handler[h].id
        BY <2>4
      <3>2. o \notin raced => o \notin closed
        BY <1>15 DEF Ownership
      <3>3. o \notin raced => r.id \in AgentIdsFor(o)'
        BY <1>1, <1>3, <1>6, <2>4, <3>1 DEF Steady
      <3> QED
        BY <1>2, <3>1, <3>2, <3>3 DEF RunOf
    <2> QED
      BY <1>2, <2>1, <2>2, <2>3, <2>4
  <1>19. /\ \A p \in closed' : disposals'[p] # 0
         /\ \A p \in Objects : p > made' => disposals'[p] = 0
    BY <1>2 DEF Ownership
  <1> QED
    BY <1>7, <1>8, <1>10, <1>11, <1>13, <1>14, <1>17, <1>18, <1>19, OwnershipNext

\* A send returns, and its agent's id is newId.
Renames(h, o, newId) ==
  /\ handler[h].at = "sending" /\ handler[h].object = o
  /\ agentId' = [agentId EXCEPT ![o] = newId]

\* What a send that returns holds, and what the agent's new id changes for the
\* other calls: one that is to register the same agent has raced with it.
LEMMA Renaming ==
  ASSUME Ownership, NEW h \in Handlers, NEW o, NEW newId, Renames(h, o, newId), StepOf(h)
  PROVE  /\ InFlight(h) /\ o \in 1..made /\ o # None /\ agentId'[o] = newId
         /\ Touched(h) = {o} /\ Claims(h) = handler[h].ids
         /\ handler[h].id \in handler[h].ids
         /\ o \notin raced => disposals[o] = 0 /\ handler[h].ids \subseteq AgentIdsFor(o)
         /\ \A p \in 1..made : p # o => agentId'[p] = agentId[p]
         /\ \A g \in Handlers \ {h} : InFlight(g) =>
              IF handler[g].at = "adopting" /\ handler[g].object = o
              THEN /\ Touched(g) \subseteq raced /\ o \in raced
                   /\ Claims(g)' \subseteq Claims(g) \union {newId}
              ELSE Claims(g)' = Claims(g)
  <1>1. InFlight(h) /\ Shape(h) /\ Steady(h) /\ TypeOK /\ 1..made \subseteq Objects
    BY OwnershipTypes DEF InFlight, Ownership, Renames
  <1>2. o \in 1..made /\ o # None /\ Touched(h) = {o} /\ Claims(h) = handler[h].ids
        /\ handler[h].id \in handler[h].ids
    BY <1>1 DEF Shape, Touched, Claims, None, Renames
  <1>3. o \notin raced => disposals[o] = 0 /\ handler[h].ids \subseteq AgentIdsFor(o)
    BY <1>1 DEF Steady, Renames
  <1>4. agentId'[o] = newId /\ \A p \in 1..made : p # o => agentId'[p] = agentId[p]
    BY <1>1, <1>2 DEF TypeOK, Renames
  <1>5. ASSUME NEW g \in Handlers \ {h}, InFlight(g)
        PROVE  IF handler[g].at = "adopting" /\ handler[g].object = o
               THEN /\ Touched(g) \subseteq raced /\ o \in raced
                    /\ Claims(g)' \subseteq Claims(g) \union {newId}
               ELSE Claims(g)' = Claims(g)
    <2>1. handler'[g] = handler[g] /\ Shape(g) /\ Apart(g, h)
      BY <1>1, <1>5 DEF StepOf, Ownership
    <2>2. CASE handler[g].at = "adopting" /\ handler[g].object = o
      <3>1. o \in Touched(g)
        BY <1>2, <2>2 DEF Touched
      <3>2. Touched(g) \union Touched(h) \subseteq raced
        BY <1>2, <2>1, <2>2, <3>1 DEF Apart
      <3>3. Claims(g)' = handler[g].ids \union {newId}
        BY <1>4, <2>1, <2>2 DEF Claims
      <3> QED
        BY <1>2, <2>2, <3>2, <3>3 DEF Claims
    <2>3. CASE ~(handler[g].at = "adopting" /\ handler[g].object = o)
      <3>1. handler[g].object \in 1..made
        BY <1>5, <2>1 DEF Shape
      <3>2. handler[g].at = "adopting" => agentId'[handler[g].object] = agentId[handler[g].object]
        BY <1>4, <2>3, <3>1
      <3> QED
        BY <2>1, <2>3, <3>2 DEF Claims
    <2> QED
      BY <2>2, <2>3
  <1> QED
    BY <1>1, <1>2, <1>3, <1>4, <1>5

\* The calls that claim the new id are then apart, when it is claimed openly.
LEMMA RenamingPairs ==
  ASSUME Ownership, NEW h \in Handlers, NEW o, NEW newId, Renames(h, o, newId), StepOf(h),
         \A g \in Handlers \ {h} :
           InFlight(g) /\ newId \in Claims(g) /\ o \in raced => Touched(g) \subseteq raced'
  PROVE  SparesPairs(h)
  <1>1. raced \subseteq raced'
    BY DEF StepOf
  <1>2. \A g \in Handlers \ {h} : InFlight(g) =>
          \/ Claims(g)' = Claims(g)
          \/ Touched(g) \subseteq raced /\ o \in raced /\ Claims(g)' \subseteq Claims(g) \union {newId}
    BY Renaming
  <1> QED
    BY <1>1, <1>2 DEF SparesPairs

\* The SDK has kept the id asked for.
LEMMA SameIdOwnership ==
  ASSUME Ownership, NEW h \in Handlers, NEW newId \in Ids, NEW runId \in Ids,
         handler[h].at = "sending", newId = handler[h].id,
         agentId' = [agentId EXCEPT ![handler[h].object] = newId],
         RegisterRun(handler[h].object, runId), runId = newId,
         Finish(h), UNCHANGED << agents, disposals, made, closed >>, IInv'
  PROVE  Ownership'
  <1>0. TypeOK /\ made \in Nat
    BY OwnershipTypes
  <1>1. PICK o : o = handler[h].object
    OBVIOUS
  <1>2. /\ Renames(h, o, newId)
        /\ runs' = runs \union {[agent |-> o, id |-> newId]}
        /\ handler' = [handler EXCEPT ![h] = Idle] /\ UNCHANGED raced
    BY <1>1 DEF RegisterRun, Finish, Renames
  <1>3. /\ ~InFlight(h)' /\ Shape(h)' /\ Fresh(h)' /\ Touched(h)' = {}
        /\ \A g \in Handlers \ {h} : handler'[g] = handler[g]
    BY <1>0, <1>2, EndHolds
  <1>4. StepOf(h)
    BY <1>0, <1>2, <1>3 DEF StepOf
  <1>5. /\ InFlight(h) /\ o \in 1..made /\ o # None /\ agentId'[o] = newId
        /\ Touched(h) = {o} /\ Claims(h) = handler[h].ids
        /\ handler[h].id \in handler[h].ids
        /\ o \notin raced => disposals[o] = 0 /\ handler[h].ids \subseteq AgentIdsFor(o)
        /\ \A p \in 1..made : p # o => agentId'[p] = agentId[p]
        /\ \A g \in Handlers \ {h} : InFlight(g) =>
             IF handler[g].at = "adopting" /\ handler[g].object = o
             THEN /\ Touched(g) \subseteq raced /\ o \in raced
                  /\ Claims(g)' \subseteq Claims(g) \union {newId}
             ELSE Claims(g)' = Claims(g)
    BY <1>2, <1>4, Renaming
  <1>6. \A p : AgentIdsFor(p)' = AgentIdsFor(p) /\ Unmoved(p)
    BY DEF AgentIdsFor, Unmoved
  <1>7. SparesFresh(h)
    BY <1>2, <1>3, <1>5, <1>6 DEF SparesFresh
  <1>8. SparesPairs(h)
    <2>1. ASSUME NEW g \in Handlers \ {h}, InFlight(g), newId \in Claims(g), o \in raced
          PROVE  Touched(g) \subseteq raced'
      <3>1. Apart(g, h) /\ Shape(g)
        BY <1>5, <2>1 DEF Ownership
      <3>2. handler[g].at = "sending" /\ handler[g].object = o => Touched(g) \subseteq {o}
        BY <3>1 DEF Shape, Touched
      <3> QED
        BY <1>1, <1>2, <1>5, <2>1, <3>1, <3>2 DEF Apart
    <2> QED
      BY <1>2, <1>4, <2>1, RenamingPairs
  <1>9. SparesClaims(h)
    <2> SUFFICES ASSUME NEW g \in Handlers \ {h}, InFlight(g), NEW id \in Claims(g)', id \notin Claims(g)
                 PROVE  \/ agents'[id] \in Touched(g) \union {None}
                        \/ {agents'[id], handler[g].object} \subseteq raced'
      BY DEF SparesClaims
    <2>1. id = newId /\ handler[g].object = o /\ o \in raced
      BY <1>5
    <2>2. agents[id] = None \/ agents[id] = o \/ agents[id] \in raced
      BY <1>5, <2>1 DEF Ownership, Claimed
    <2>3. o \in Touched(g)
      BY <1>5, <2>1 DEF Touched
    <2> QED
      BY <1>2, <2>1, <2>2, <2>3
  <1>10. SparesRead(h)
    BY <1>2, <1>5, <1>6 DEF SparesRead, Ownership, Shape
  <1>11. \A p \in (1..made') \ raced' : Owned(p)'
    <2> TAKE p \in (1..made') \ raced'
    <2>1. CASE p = o
      BY <1>2, <1>5, <1>6, <2>1 DEF Owned, AgentIdsFor
    <2>2. CASE p # o
      BY <1>2, <1>4, <1>5, <1>6, <2>2, OwnedKept
    <2> QED
      BY <2>1, <2>2
  <1>12. \A r \in runs' : RunOf(r)'
    <2> TAKE r \in runs'
    <2>1. CASE r \in runs
      BY <1>2, <1>4, <1>6, <2>1, RunKept
    <2>2. CASE r = [agent |-> o, id |-> newId]
      <3>1. r.agent = o /\ r.id = newId
        BY <2>2
      <3>2. o \notin raced => o \notin closed /\ newId \in AgentIdsFor(o)
        BY <1>5 DEF Ownership
      <3> QED
        BY <1>2, <1>6, <3>1, <3>2 DEF RunOf, AgentIdsFor
    <2> QED
      BY <1>2, <2>1, <2>2
  <1>13. /\ \A p \in closed' : disposals'[p] # 0
         /\ \A p \in Objects : p > made' => disposals'[p] = 0
    BY DEF Ownership
  <1> QED
    BY <1>3, <1>4, <1>7, <1>8, <1>9, <1>10, <1>11, <1>12, <1>13, OwnershipNext

\* A new id that is free, or the agent's already: it is registered at once.
LEMMA NewIdOwnership ==
  ASSUME Ownership, NEW h \in Handlers, NEW newId \in Ids, NEW runId \in Ids,
         NEW o, NEW ids, NEW mark, Renames(h, o, newId),
         runId \in {handler[h].id, newId}, agents[newId] \in {None, o},
         newId \in ids,
         Put(None, newId, o, mark), RegisterRun(o, runId), Meet(h, "adopting", {o}, ids),
         handler' = [handler EXCEPT ![h] = Idle],
         UNCHANGED << disposals, made, closed >>, IInv'
  PROVE  Ownership'
  <1>0. /\ TypeOK /\ made \in Nat
        /\ \A r \in runs : r.agent \in 0..made
    BY OwnershipTypes
  <1>1. raced \subseteq raced'
    BY MeetRaces
  <1>2. /\ ~InFlight(h)' /\ Shape(h)' /\ Fresh(h)' /\ Touched(h)' = {}
        /\ \A g \in Handlers \ {h} : handler'[g] = handler[g]
    BY <1>0, EndHolds
  <1>3. StepOf(h)
    BY <1>0, <1>1, <1>2 DEF StepOf
  <1>4. /\ InFlight(h) /\ o \in 1..made /\ o # None /\ agentId'[o] = newId
        /\ Touched(h) = {o} /\ Claims(h) = handler[h].ids
        /\ handler[h].id \in handler[h].ids
        /\ o \notin raced => disposals[o] = 0 /\ handler[h].ids \subseteq AgentIdsFor(o)
        /\ \A p \in 1..made : p # o => agentId'[p] = agentId[p]
        /\ \A g \in Handlers \ {h} : InFlight(g) =>
             IF handler[g].at = "adopting" /\ handler[g].object = o
             THEN /\ Touched(g) \subseteq raced /\ o \in raced
                  /\ Claims(g)' \subseteq Claims(g) \union {newId}
             ELSE Claims(g)' = Claims(g)
    BY <1>3, Renaming
  <1>5. /\ \A i \in Ids : agents'[i] = IF i = newId THEN o ELSE agents[i]
        /\ AgentIdsFor(o)' = {newId} \union AgentIdsFor(o)
        /\ \A p \in 1..made : p # o => AgentIdsFor(p)' = AgentIdsFor(p) /\ Unmoved(p)
    <2>1. Put(None, newId, o, mark) /\ o # None
      BY <1>4
    <2>3. \A i \in Ids : agents'[i] = IF i = newId THEN o ELSE agents[i]
      BY ONLY <2>1, newId \in Ids, PutFreeIds
    <2>4. AgentIdsFor(o)' = {newId} \union AgentIdsFor(o)
      BY ONLY <2>1, newId \in Ids, PutFreeIds
    <2>5. \A p : p \notin {o, None, agents[newId]} => AgentIdsFor(p)' = AgentIdsFor(p)
      BY ONLY <2>1, newId \in Ids, PutFreeIds
    <2>2. \A p \in 1..made : p # None
      BY <1>0 DEF None
    <2> QED
      BY <2>2, <2>3, <2>4, <2>5 DEF Unmoved
  <1>6. \A g \in Handlers \ {h} :
          InFlight(g) /\ (o \in Touched(g) \/ newId \in Claims(g)) =>
            {o} \union Touched(g) \subseteq raced'
    <2>1. Lifecycle("adopting") /\ {o} \ {None} = {o}
      BY <1>4 DEF Lifecycle
    <2> QED
      BY <2>1, MeetRaces
  <1>7. SparesFresh(h)
    <2> SUFFICES ASSUME NEW p \in 1..made, p # o
                 PROVE  \A r \in runs' : r.agent = p => r \in runs
      BY <1>2, <1>4, <1>5 DEF SparesFresh
    <2> QED
      BY DEF RegisterRun
  <1>8. SparesPairs(h)
    BY <1>3, <1>6, RenamingPairs
  <1>9. SparesClaims(h)
    <2> SUFFICES ASSUME NEW g \in Handlers \ {h}, InFlight(g), NEW id \in Claims(g)'
                 PROVE  \/ id \in Claims(g) /\ agents'[id] = agents[id]
                        \/ agents'[id] \in Touched(g)
                        \/ {agents'[id], handler[g].object} \subseteq raced'
      BY DEF SparesClaims
    <2>1. Claims(g) \subseteq Ids
      BY OwnershipTypes
    <2>2. handler[g].object \in Touched(g)
      BY <1>0 DEF Ownership, Shape, Touched, None
    <2>3. CASE id # newId
      BY <1>4, <1>5, <2>1, <2>3
    <2>4. CASE id = newId /\ id \in Claims(g)
      BY <1>5, <1>6, <2>2, <2>4
    <2>5. CASE id = newId /\ id \notin Claims(g)
      BY <1>4, <1>5, <2>2, <2>5
    <2> QED
      BY <2>3, <2>4, <2>5
  <1>10. SparesRead(h)
    <2> SUFFICES ASSUME NEW g \in Handlers \ {h}, InFlight(g), handler[g].object \notin raced'
                 PROVE  handler[g].object \in 1..made /\ handler[g].object # o
      BY <1>4, <1>5 DEF SparesRead
    <2>1. handler[g].object \in 1..made
      BY DEF Ownership, Shape
    <2>2. handler[g].object = o => o \in Touched(g)
      BY <1>4 DEF Touched
    <2> QED
      BY <1>6, <2>1, <2>2
  <1>11. \A p \in (1..made') \ raced' : Owned(p)'
    <2> TAKE p \in (1..made') \ raced'
    <2>1. CASE p = o
      <3>1. disposals'[o] = 0 /\ agentId'[o] \in AgentIdsFor(o)'
        BY <1>1, <1>4, <1>5, <2>1
      <3> QED
        BY <2>1, <3>1 DEF Owned
    <2>2. CASE p # o
      BY <1>3, <1>4, <1>5, <2>2, OwnedKept
    <2> QED
      BY <2>1, <2>2
  <1>12. \A r \in runs' : RunOf(r)'
    <2> TAKE r \in runs'
    <2>1. CASE r \in runs /\ r.agent # o
      <3>1. r.agent # None /\ r.agent \notin raced' => AgentIdsFor(r.agent)' = AgentIdsFor(r.agent)
        BY <1>0, <1>5, <2>1 DEF None
      <3> QED
        BY <1>3, <2>1, <3>1, RunKept
    <2>2. CASE r \in runs /\ r.agent = o
      BY <1>1, <1>4, <1>5, <2>2 DEF RunOf, Ownership
    <2>3. CASE r = [agent |-> o, id |-> runId]
      <3>1. r.agent = o /\ r.id = runId
        BY <2>3
      <3>2. o \notin raced' => o \notin closed /\ runId \in AgentIdsFor(o)'
        BY <1>1, <1>4, <1>5 DEF Ownership
      <3> QED
        BY <3>1, <3>2 DEF RunOf
    <2> QED
      BY <2>1, <2>2, <2>3 DEF RegisterRun
  <1>13. /\ \A p \in closed' : disposals'[p] # 0
         /\ \A p \in Objects : p > made' => disposals'[p] = 0
    BY DEF Ownership
  <1> QED
    BY <1>2, <1>3, <1>7, <1>8, <1>9, <1>10, <1>11, <1>12, <1>13, OwnershipNext

\* A new id that another agent has: that one is disposed of first.
LEMMA TakenIdOwnership ==
  ASSUME Ownership, NEW h \in Handlers, NEW newId \in Ids, NEW runId \in Ids,
         NEW o, NEW old, NEW ids, NEW mark, Renames(h, o, newId),
         runId \in {handler[h].id, newId}, old = agents[newId], old \notin {None, o},
         ids = handler[h].ids \union {newId} \union AgentIdsFor(old),
         Dispose(old), Await(h, "adopting", o, old, runId, ids, mark),
         UNCHANGED << agents, runs, made, closed >>, IInv'
  PROVE  Ownership'
  <1>0. /\ TypeOK /\ made \in Nat /\ 1..made \subseteq Objects
        /\ \A i \in Ids : agents[i] \in 0..made
        /\ disposals \in [Objects -> 0..2]
        /\ raced \subseteq 1..made
    BY OwnershipTypes DEF TypeOK
  <1>1. old \in 1..made
    BY <1>0 DEF None
  <1>2. /\ handler'[h] = [at |-> "adopting", object |-> o, old |-> old, id |-> runId,
                          ids |-> ids, cloud |-> mark]
        /\ \A g \in Handlers \ {h} : handler'[g] = handler[g]
        /\ Touched(h)' = {o, old} \ {None}
        /\ Claims(h)' = ids \union {agentId'[o]}
        /\ Meet(h, "adopting", {o, old}, ids)
    <2>1. Await(h, "adopting", o, old, runId, ids, mark)
      OBVIOUS
    <2> QED
      BY ONLY <1>0, <2>1, h \in Handlers, AwaitHolds
  <1>3. /\ disposals'[old] # 0 /\ (disposals[old] = 0 => disposals'[old] = 1)
        /\ \A p \in Objects : p # old => disposals'[p] = disposals[p]
    <2>1. Dispose(old) /\ old \in Objects
      BY <1>0, <1>1
    <2> QED
      BY ONLY <1>0, <2>1, DisposeOne
  <1>4. raced \subseteq raced'
    BY <1>2, MeetRaces
  <1>5. StepOf(h)
    BY <1>0, <1>2, <1>3, <1>4 DEF StepOf
  <1>6. /\ InFlight(h) /\ o \in 1..made /\ o # None /\ agentId'[o] = newId
        /\ Touched(h) = {o} /\ Claims(h) = handler[h].ids
        /\ handler[h].id \in handler[h].ids
        /\ o \notin raced => disposals[o] = 0 /\ handler[h].ids \subseteq AgentIdsFor(o)
        /\ \A p \in 1..made : p # o => agentId'[p] = agentId[p]
        /\ \A g \in Handlers \ {h} : InFlight(g) =>
             IF handler[g].at = "adopting" /\ handler[g].object = o
             THEN /\ Touched(g) \subseteq raced /\ o \in raced
                  /\ Claims(g)' \subseteq Claims(g) \union {newId}
             ELSE Claims(g)' = Claims(g)
    BY <1>5, Renaming
  <1>7. Touched(h)' = {o, old} /\ Claims(h)' = ids /\ newId \in AgentIdsFor(old)
    BY <1>2, <1>6 DEF AgentIdsFor
  <1>8. /\ \A p : AgentIdsFor(p)' = AgentIdsFor(p)
        /\ \A p \in 1..made : p # old => Unmoved(p)
    BY <1>0, <1>3 DEF AgentIdsFor, Unmoved
  <1>9. \A g \in Handlers \ {h} :
          InFlight(g) /\ (o \in Touched(g) \/ old \in Touched(g) \/ newId \in Claims(g)) =>
            {o, old} \union Touched(g) \subseteq raced'
    <2>1. Lifecycle("adopting") /\ {o, old} \ {None} = {o, old}
      BY <1>6 DEF Lifecycle
    <2> QED
      BY <1>2, <2>1, MeetRaces
  <1>10. \A g \in Handlers \ {h} : InFlight(g) =>
           /\ handler[g].object \in 1..made /\ handler[g].object \in Touched(g)
           /\ handler[g].object \in {o, old} => {o, old} \union Touched(g) \subseteq raced'
    <2> TAKE g \in Handlers \ {h}
    <2> HAVE InFlight(g)
    <2>1. handler[g].object \in 1..made
      BY DEF Ownership, Shape
    <2>2. handler[g].object \in Touched(g)
      BY <1>0, <2>1 DEF Touched, None
    <2> QED
      BY <1>9, <2>1, <2>2
  <1>11. SparesFresh(h)
    <2> SUFFICES ASSUME NEW p \in 1..made, p # o, AgentIdsFor(p) = {}
                 PROVE  p # old
      BY <1>6, <1>7, <1>8 DEF SparesFresh
    <2> QED
      BY <1>7
  <1>12. SparesPairs(h)
    BY <1>5, <1>9, RenamingPairs
  <1>13. SparesClaims(h)
    <2> SUFFICES ASSUME NEW g \in Handlers \ {h}, InFlight(g), NEW id \in Claims(g)', id \notin Claims(g)
                 PROVE  {agents[id], handler[g].object} \subseteq raced'
      BY DEF SparesClaims
    <2>1. id = newId /\ handler[g].object = o
      BY <1>6
    <2> QED
      BY <1>10, <2>1
  <1>14. SparesRead(h)
    BY <1>6, <1>8, <1>10 DEF SparesRead
  <1>15. Shape(h)' /\ Fresh(h)'
    <2>1. InFlight(h)'
      BY <1>2 DEF InFlight
    <2>2. \A p : Disposing(h, p)' => p = old
      BY <1>2 DEF Disposing
    <2> QED
      BY <1>1, <1>2, <1>3, <1>6, <2>1, <2>2 DEF Shape, Fresh
  <1>16. Claimed(h)'
    <2> SUFFICES ASSUME NEW i \in ids
                 PROVE  agents[i] \in {None, o, old} \/ {agents[i], o} \subseteq raced
      BY <1>2, <1>4, <1>7 DEF Claimed
    <2>1. CASE i \in handler[h].ids
      <3>1. Claimed(h)
        BY <1>6 DEF Ownership
      <3> QED
        BY <1>6, <2>1, <3>1 DEF Claimed, Renames
    <2>2. CASE i \in {newId} \union AgentIdsFor(old)
      BY <2>2 DEF AgentIdsFor
    <2> QED
      BY <2>1, <2>2
  <1>17. Steady(h)'
    <2>1. o \notin raced' =>
            /\ runId = newId \/ runId \in AgentIdsFor(o)
            /\ AgentIdsFor(o) # {} /\ disposals'[o] = 0
      BY <1>0, <1>3, <1>4, <1>6
    <2>2. AgentIdsFor(o)' = AgentIdsFor(o)
      BY <1>8
    <2> QED
      BY <1>2, <1>6, <2>1, <2>2 DEF Steady, AgentIdsFor
  <1>18. ASSUME NEW g \in Handlers \ {h}, InFlight(g) PROVE Apart(g, h)'
    <2>1. Claims(g)' = Claims(g) \/ Touched(g) \intersect {o, old} # {}
      <3>1. CASE handler[g].object = o
        BY <1>10, <1>18, <3>1
      <3>2. CASE handler[g].object # o
        BY <1>6, <1>18, <3>2
      <3> QED
        BY <3>1, <3>2
    <2>2. Await(h, "adopting", o, old, runId, ids, mark) /\ Lifecycle("adopting")
      BY DEF Lifecycle
    <2> QED
      BY ONLY Ownership, h \in Handlers, g \in Handlers \ {h}, <1>7, <1>18, <2>1, <2>2, AwaitApart
  <1>19. \A p \in (1..made') \ raced' : Owned(p)'
    <2> TAKE p \in (1..made') \ raced'
    <2>1. CASE p = o
      <3>1. Keeping(h, p)'
        BY <1>2, <2>1 DEF Keeping
      <3>2. disposals'[p] = 0
        BY <1>0, <1>3, <1>4, <1>6, <2>1
      <3> QED
        BY <3>1, <3>2 DEF Owned
    <2>2. CASE p = old
      <3>1. disposals[p] = 0
        BY <1>1, <1>2, <1>7, <2>2, FoundAlive DEF Renames
      <3>2. Disposing(h, p)'
        BY <1>2, <2>2 DEF Disposing
      <3> QED
        BY <1>3, <2>2, <3>1, <3>2 DEF Owned
    <2>3. CASE p # o /\ p # old
      BY <1>5, <1>6, <1>8, <2>3, OwnedKept
    <2> QED
      BY <2>1, <2>2, <2>3
  <1>20. \A r \in runs' : RunOf(r)'
    BY <1>5, <1>8, RunKept
  <1>21. \A p \in closed' : disposals'[p] # 0
    <2>1. closed \subseteq 1..made
      BY <1>0 DEF TypeOK
    <2> QED
      BY <1>0, <1>3, <2>1 DEF Ownership
  <1>22. \A p \in Objects : p > made' => disposals'[p] = 0
    BY <1>0, <1>1, <1>3 DEF Ownership, Objects
  <1>23. InFlight(h)' => Claimed(h)' /\ Steady(h)'
    BY <1>16, <1>17
  <1> QED
    BY <1>5, <1>11, <1>12, <1>13, <1>14, <1>15, <1>18, <1>19, <1>20, <1>21, <1>22, <1>23,
       OwnershipNext

\* agent.send has returned, in each of the three ways.
LEMMA SendReturnsOwnership ==
  ASSUME Ownership, NEW h \in Handlers, NEW newId \in Ids, NEW runId \in Ids,
         SendReturns(h, newId, runId), IInv'
  PROVE  Ownership'
  <1>1. PICK o, old, ids, mark :
          /\ o = handler[h].object /\ old = agents[newId] /\ mark = handler[h].cloud
          /\ ids = handler[h].ids \union {newId} \union AgentIdsFor(agents[newId])
    OBVIOUS
  <1>2. /\ Renames(h, o, newId) /\ runId \in {handler[h].id, newId}
        /\ UNCHANGED << made, closed >>
    BY <1>1 DEF SendReturns, Renames
  <1>3. \/ /\ newId = handler[h].id
           /\ RegisterRun(o, runId)
           /\ Finish(h)
           /\ UNCHANGED << agents, disposals >>
        \/ /\ old \in {None, o}
           /\ Put(None, newId, o, mark)
           /\ RegisterRun(o, runId)
           /\ Meet(h, "adopting", {o}, ids)
           /\ handler' = [handler EXCEPT ![h] = Idle]
           /\ UNCHANGED disposals
        \/ /\ old \notin {None, o}
           /\ Dispose(old)
           /\ Await(h, "adopting", o, old, runId, ids, mark)
           /\ UNCHANGED << agents, runs >>
    BY <1>1 DEF SendReturns
  <1>4. CASE /\ newId = handler[h].id
             /\ RegisterRun(o, runId)
             /\ Finish(h)
             /\ UNCHANGED << agents, disposals >>
    BY <1>1, <1>2, <1>4, SameIdOwnership DEF Renames
  <1>5. CASE /\ old \in {None, o}
             /\ Put(None, newId, o, mark)
             /\ RegisterRun(o, runId)
             /\ Meet(h, "adopting", {o}, ids)
             /\ handler' = [handler EXCEPT ![h] = Idle]
             /\ UNCHANGED disposals
    <2>1. newId \in ids /\ agents[newId] \in {None, o} /\ UNCHANGED << disposals, made, closed >>
      BY <1>1, <1>2, <1>5
    <2> QED
      BY ONLY Ownership, IInv', h \in Handlers, newId \in Ids, runId \in Ids, <1>2, <1>5, <2>1,
         NewIdOwnership
  <1>6. CASE /\ old \notin {None, o}
             /\ Dispose(old)
             /\ Await(h, "adopting", o, old, runId, ids, mark)
             /\ UNCHANGED << agents, runs >>
    BY <1>1, <1>2, <1>6, TakenIdOwnership
  <1> QED
    BY <1>3, <1>4, <1>5, <1>6

\* dispose() is called when no call is in flight: each agent left in the
\* registry has not been disposed of, and is now.
LEMMA DisposeAllOwnership ==
  ASSUME Ownership, DisposeAll, IInv'
  PROVE  Ownership'
  <1>0. /\ TypeOK /\ made \in Nat /\ 1..made \subseteq Objects
        /\ disposals \in [Objects -> 0..2]
        /\ \A i \in Ids : agents[i] \in 0..made
        /\ \A o \in 1..made : agentId[o] \in Ids
    BY OwnershipTypes DEF TypeOK
  <1>1. /\ \A h \in Handlers : ~InFlight(h)
        /\ disposals' = [o \in Objects |-> IF AgentIdsFor(o) = {} THEN disposals[o]
                                           ELSE Again(disposals[o])]
        /\ agents' = [i \in Ids |-> None] /\ runs' = {}
        /\ UNCHANGED << made, agentId, handler, raced, closed >>
    BY DEF DisposeAll
  <1>2. \A o : AgentIdsFor(o)' = {}
    BY <1>1 DEF AgentIdsFor
  <1>3. \A h \in Handlers : ~InFlight(h)' /\ \A o : ~Keeping(h, o) /\ ~Disposing(h, o)
    BY <1>1 DEF InFlight, Keeping, Disposing
  <1>4. \A h \in Handlers : Shape(h)' /\ Fresh(h)'
    <2> TAKE h \in Handlers
    <2>1. Shape(h)
      BY DEF Ownership
    <2>2. handler'[h] = handler[h] /\ handler[h].at = "idle"
      BY <1>1 DEF InFlight
    <2> QED
      BY <1>3, <2>1, <2>2 DEF Shape, Fresh, Disposing, InFlight
  <1>5. \A o \in Objects : disposals[o] # 0 => disposals'[o] # 0
    BY <1>0, <1>1 DEF Again
  <1>6. \A o \in (1..made) \ raced : Owned(o)'
    <2> TAKE o \in (1..made) \ raced
    <2>1. Owned(o)
      BY DEF Ownership
    <2>2. CASE AgentIdsFor(o) = {}
      <3>1. disposals'[o] = disposals[o] /\ disposals[o] # 0
        BY <1>0, <1>1, <1>3, <2>1, <2>2 DEF Owned
      <3> QED
        BY <1>2, <2>1, <3>1 DEF Owned
    <2>3. CASE AgentIdsFor(o) # {}
      <3>1. disposals[o] = 0
        BY <1>3, <2>3, NotYetDisposed
      <3>2. disposals'[o] = 1
        BY <1>0, <1>1, <2>3, <3>1 DEF Again
      <3> QED
        BY <1>2, <3>2 DEF Owned
    <2> QED
      BY <2>2, <2>3
  <1>7. \A o \in closed' : disposals'[o] # 0
    <2>1. closed \subseteq 1..made
      BY <1>0 DEF TypeOK
    <2> QED
      BY <1>0, <1>1, <1>5, <2>1 DEF Ownership
  <1>8. \A o \in Objects : o > made' => disposals'[o] = 0
    <2> SUFFICES ASSUME NEW o \in Objects, o > made PROVE AgentIdsFor(o) = {}
      BY <1>0, <1>1 DEF Ownership
    <2> QED
      BY <1>0, RegistryBounds DEF AgentIdsFor, Objects
  <1> QED
    BY <1>1, <1>3, <1>4, <1>6, <1>7, <1>8 DEF Ownership

\* Nobody owns anything at first.
LEMMA InitOwnership == Init => Ownership
  <1> SUFFICES ASSUME Init PROVE Ownership
    OBVIOUS
  <1>1. IInv
    BY InitIInv
  <1>2. \A h \in Handlers : handler[h] = Idle
    BY DEF Init
  <1>3. \A h \in Handlers : ~InFlight(h) /\ Shape(h) /\ Fresh(h)
    BY <1>2, IdleHolds
  <1>4. made = 0 /\ closed = {} /\ runs = {} /\ \A o \in Objects : disposals[o] = 0
    BY DEF Init
  <1> QED
    BY <1>1, <1>3, <1>4 DEF Ownership

\* Every call's step preserves Ownership.
LEMMA NextOwnership == Ownership /\ [Next]_vars => Ownership'
  <1> SUFFICES ASSUME Ownership, [Next]_vars PROVE Ownership'
    OBVIOUS
  <1>0. IInv'
    BY NextIInv DEF Ownership
  <1>1. CASE UNCHANGED vars
    <2> USE <1>1 DEF vars
    <2>1. /\ \A h \in Handlers : Shape(h)' /\ Fresh(h)'
          /\ \A h \in Handlers : InFlight(h)' => Claimed(h)' /\ Steady(h)'
      BY DEF Ownership, Shape, Fresh, InFlight, Disposing, AgentIdsFor, Touched, Claimed, Steady,
             Claims
    <2>2. \A g, h \in Handlers : g # h /\ InFlight(g)' /\ InFlight(h)' => Apart(g, h)'
      BY DEF Ownership, InFlight, Apart, Touched, Claims
    <2>3. /\ \A o \in (1..made') \ raced' : Owned(o)'
          /\ \A r \in runs' : RunOf(r)'
      BY DEF Ownership, Owned, Keeping, Disposing, AgentIdsFor, RunOf
    <2>4. /\ \A o \in closed' : disposals'[o] # 0
          /\ \A o \in Objects : o > made' => disposals'[o] = 0
      BY DEF Ownership
    <2> QED
      BY <1>0, <2>1, <2>2, <2>3, <2>4 DEF Ownership
  <1>2. ASSUME NEW h \in Handlers, NEW id \in Ids, NEW isCloud \in BOOLEAN,
               Register(h, id, isCloud)
        PROVE  Ownership'
    <2>1. CASE agents[id] = None
      BY <1>0, <1>2, <2>1, RegisterFreeOwnership
    <2>2. CASE agents[id] # None
      BY <1>0, <1>2, <2>2, RegisterTakenOwnership
    <2> QED
      BY <2>1, <2>2
  <1>3. ASSUME NEW h \in Handlers, NEW id \in Ids,
               CloseAgent(h, id) \/ Send(h, id) \/ FetchRun(h, id)
        PROVE  Ownership'
    BY <1>0, <1>3, CloseAgentOwnership, SendOwnership, QuietOwnership
  <1>4. ASSUME NEW h \in Handlers, NEW newId \in Ids, NEW runId \in Ids,
               SendReturns(h, newId, runId)
        PROVE  Ownership'
    BY <1>0, <1>4, SendReturnsOwnership
  <1>5. ASSUME NEW h \in Handlers,
               Replaced(h) \/ (\E fails \in BOOLEAN : Adopted(h, fails)) \/ Closed(h) \/ SendFails(h)
        PROVE  Ownership'
    BY <1>0, <1>5, PutOwnership, ClosedOwnership, QuietOwnership
  <1>6. CASE DisposeAll
    BY <1>0, <1>6, DisposeAllOwnership
  <1>7. CASE Terminated
    BY <1>1, <1>7 DEF Terminated
  <1> QED
    BY <1>1, <1>2, <1>3, <1>4, <1>5, <1>6, <1>7 DEF Next

\* Ownership is an invariant of the registry.
THEOREM OwnershipInvariant == Spec => []Ownership
  BY InitOwnership, NextOwnership, PTL DEF Spec

\* The registry loses no agent: one that no calls raced on is, until it has
\* been disposed of, registered under its current id or in the hands of a call.
THEOREM NothingLeaks == Spec => []NoLeak
  <1>1. Ownership => NoLeak
    <2> SUFFICES ASSUME Ownership, NEW o \in (1..made) \ raced, disposals[o] = 0
                 PROVE  Held(o) \/ agents[agentId[o]] = o
      BY DEF NoLeak
    <2>1. o # None /\ Owned(o)
      BY OwnershipTypes DEF Ownership, None
    <2>2. \A h \in Handlers : Keeping(h, o) => o \in Touched(h)
      BY <2>1 DEF Keeping, Touched
    <2> QED
      BY <2>1, <2>2 DEF Owned, Held, AgentIdsFor
  <1> QED
    BY <1>1, OwnershipInvariant, PTL

\* The registry disposes of an agent that no calls raced on at most once, and
\* once it has, finds the agent only until the call that does so ends.
THEOREM DisposedOfOnce == Spec => []DisposedOnce
  <1>1. Ownership => DisposedOnce
    <2> SUFFICES ASSUME Ownership, NEW o \in (1..made) \ raced
                 PROVE  /\ disposals[o] <= 1
                        /\ disposals[o] = 1 => Held(o) \/ AgentIdsFor(o) = {}
      BY DEF DisposedOnce
    <2>1. o # None /\ Owned(o)
      BY OwnershipTypes DEF Ownership, None
    <2>2. \A h \in Handlers : Disposing(h, o) => o \in Touched(h)
      BY <2>1 DEF Disposing, Touched
    <2> QED
      BY <2>1, <2>2 DEF Owned, Held
  <1> QED
    BY <1>1, OwnershipInvariant, PTL

\* closeAgent takes with it every run that was sent to the agent, under any id
\* the agent had, though it looked the ids up before it awaited the disposal.
THEOREM RunsGo == Spec => []RunsGoWithAgent
  <1>1. Ownership => RunsGoWithAgent
    BY DEF Ownership, RunOf, RunsGoWithAgent
  <1> QED
    BY <1>1, OwnershipInvariant, PTL

=============================================================================
