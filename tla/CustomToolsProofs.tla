-------------------------- MODULE CustomToolsProofs --------------------------
(***************************************************************************)
(* The registrations of custom tools, for any agents, tools, operations    *)
(* and tool calls.                                                         *)
(***************************************************************************)
EXTENDS CustomTools, TLAPS

ToolSets == [names : SUBSET Tools, by : Nat]

OpRecords ==
  [kind : {"none", "create", "resume", "send", "close"},
   stage : {"notbegun", "sent", "answered", "ended"},
   key : Ids \cup {Pending}, id : Ids \cup {Pending},
   names : SUBSET Tools, ok : BOOLEAN]

CallRecords ==
  [stage : {"none", "sent", "looking", "executing", "calling", "closing", "closed", "done"},
   agent : Ids \cup {Pending}, tool : Tools \cup {"none"}, by : Nat,
   to : {"ours", "other", "none"}, handler : Nat,
   answer : {"none", "ok", "noresult", "undecodable", "notfound", "unavailable",
             "elsewhere", "unconfigured"},
   disturbed : BOOLEAN]

Types ==
  /\ registered \in [Ids \cup {Pending} -> ToolSets]
  /\ attached \in [Ids -> ToolSets]
  /\ running \subseteq handles /\ handles \subseteq Ids /\ disturbed \subseteq Ids
  /\ op \in [Ops -> OpRecords]
  /\ call \in [1 .. MaxCalls -> CallRecords]
  /\ config \in {"ours", "other", "none"} /\ client \in {"ours", "other", "none"}
  /\ abandoned \in BOOLEAN

\* An agent the program can use, whose registration nobody has touched, is
\* registered with the tools that the bridge has for it, if it is there.
Agents ==
  /\ \A i \in running : attached[i] # NoTools
  /\ \A i \in handles \ disturbed :
       registered[i] # NoTools /\ attached[i] \in {NoTools, registered[i]}

\* The answer to a create names an agent, the one asked for if there was one.
Creating(o) ==
  /\ o.key \in {Pending, o.id}
  /\ o.stage = "sent" => o.id = o.key
  /\ o.ok => o.id # Pending

\* An agent that is being created is nobody else's.
Fresh(n) ==
  /\ op[n].id \notin handles
  /\ registered[op[n].id] = IF op[n].key = Pending THEN NoTools ELSE Brought(n)
  /\ attached[op[n].id] \in {NoTools, Brought(n)}

\* What an operation in flight may rely on.
OpAgrees(n) ==
  /\ op[n].kind = "none" => op[n].id = Pending
  /\ op[n].kind = "create" => Creating(op[n])
  /\ op[n].kind = "create" /\ op[n].id \in Ids \ disturbed => Fresh(n)
  /\ op[n].kind \in {"resume", "close"} => op[n].id \in disturbed
  /\ op[n].kind \in {"send", "close"} => op[n].id \in handles

\* No two creates have the same agent, unless one asked for it by its id.
OwnAgents ==
  \A m, n \in Ops :
    op[m].kind = "create" /\ op[n].kind = "create" /\ op[m].id = op[n].id =>
      op[m].id \in {Pending} \cup disturbed \/ m = n

Live(c) == c.stage \in {"sent", "looking"}
Aims(c, tools) == c.tool \in tools.names /\ c.by = tools.by
Served(c) == ~c.disturbed => c.answer # "notfound" /\ c.handler \in {0, c.by}

\* A call on its way to the handlers will find the one given with its tool.
CallAgrees(k) ==
  /\ call[k].stage # "none" => call[k].agent \in handles
  /\ Live(call[k]) /\ call[k].agent \in disturbed => call[k].disturbed
  /\ Live(call[k]) /\ ~call[k].disturbed => Aims(call[k], registered[call[k].agent])
  /\ Served(call[k])

\* Tools under Pending belong to a create that is not over, or was refused.
PendingAgrees ==
  registered[Pending] # NoTools =>
    abandoned \/ \E n \in Ops : op[n].kind = "create" /\ op[n].key = Pending

\* The inductive invariant.
IInv ==
  /\ Types
  /\ Agents
  /\ \A n \in Ops : OpAgrees(n)
  /\ OwnAgents
  /\ \A k \in 1 .. MaxCalls : CallAgrees(k)
  /\ PendingAgrees

-----------------------------------------------------------------------------
\* The sets of tools that the variables hold.
LEMMA ToolSetsOf ==
  ASSUME NEW n \in Ops, NEW names \in SUBSET Tools
  PROVE  /\ n \in Nat /\ [names |-> names, by |-> n] \in ToolSets
         /\ NoTools \in ToolSets /\ [names |-> names, by |-> n] # NoTools
<1>1. n \in Nat /\ n # 0
  BY ToolBounds DEF Ops
<1>2. NoTools.by = 0 /\ NoTools \in ToolSets
  BY DEF NoTools, ToolSets
<1>3. [names |-> names, by |-> n].by = n /\ [names |-> names, by |-> n] \in ToolSets
  BY <1>1 DEF ToolSets
<1>4. QED
  BY <1>1, <1>2, <1>3

LEMMA ToolsBrought ==
  ASSUME NEW n \in Ops, op[n] \in OpRecords
  PROVE  Brought(n) \in ToolSets /\ Brought(n) # NoTools /\ NoTools \in ToolSets
BY ToolSetsOf DEF Brought, OpRecords

\* Nothing is registered or attached in the beginning.
LEMMA InitIInv == Init => IInv
<1> SUFFICES ASSUME Init PROVE IInv
  OBVIOUS
<1>1. NoTools \in ToolSets /\ NotBegun \in OpRecords /\ NoCall \in CallRecords
  BY DEF NoTools, ToolSets, NotBegun, OpRecords, NoCall, CallRecords
<1>2. \A n \in Ops : op[n] = NotBegun
  BY DEF Init
<1>3. NotBegun.kind = "none" /\ NotBegun.id = Pending
  BY DEF NotBegun
<1>4. \A k \in 1 .. MaxCalls : call[k] = NoCall
  BY DEF Init
<1>5. /\ NoCall.stage = "none" /\ NoCall.answer = "none" /\ NoCall.handler = 0
  BY DEF NoCall
<1>6. Types
  BY <1>1 DEF Init, Types
<1>7. Agents /\ OwnAgents /\ PendingAgrees
  BY <1>2, <1>3 DEF Init, Agents, OwnAgents, PendingAgrees
<1>8. \A n \in Ops : OpAgrees(n)
  BY <1>2, <1>3 DEF OpAgrees
<1>9. \A k \in 1 .. MaxCalls : CallAgrees(k)
  BY <1>4, <1>5 DEF CallAgrees, Live, Served
<1>10. QED
  BY <1>6, <1>7, <1>8, <1>9 DEF IInv

\* The program takes a registration away, or puts another in its place: from
\* then on nothing is known of the agent's calls.
LEMMA DisturbCalls ==
  ASSUME IInv, NEW id \in Ids, Disturb(id),
         \A i \in Ids \ {id} : registered'[i] = registered[i],
         handles' = handles
  PROVE  /\ disturbed' = disturbed \cup {id}
         /\ call' \in [1 .. MaxCalls -> CallRecords]
         /\ \A k \in 1 .. MaxCalls : CallAgrees(k)'
<1>1. /\ Types /\ \A k \in 1 .. MaxCalls : CallAgrees(k)
      /\ handles \subseteq Ids
  BY DEF IInv, Types
<1>2. /\ disturbed' = disturbed \cup {id}
      /\ call' = [k \in DOMAIN call |->
                    IF call[k].agent = id THEN [call[k] EXCEPT !.disturbed = TRUE] ELSE call[k]]
  BY DEF Disturb
<1>3. DOMAIN call = 1 .. MaxCalls /\ \A k \in 1 .. MaxCalls : call[k] \in CallRecords
  BY <1>1 DEF Types
<1>4. ASSUME NEW k \in 1 .. MaxCalls
      PROVE  /\ call'[k] \in CallRecords
             /\ call'[k].stage = call[k].stage /\ call'[k].agent = call[k].agent
             /\ call'[k].tool = call[k].tool /\ call'[k].by = call[k].by
             /\ call'[k].handler = call[k].handler /\ call'[k].answer = call[k].answer
             /\ call[k].agent = id => call'[k].disturbed
             /\ call[k].agent # id => (call'[k].disturbed <=> call[k].disturbed)
  <2>1. call[k] \in CallRecords
    BY <1>3
  <2>2. CASE call[k].agent = id
    <3>1. call'[k] = [call[k] EXCEPT !.disturbed = TRUE]
      BY <1>2, <1>3, <2>2
    <3>2. QED
      BY <2>1, <2>2, <3>1 DEF CallRecords
  <2>3. CASE call[k].agent # id
    BY <1>2, <1>3, <2>1, <2>3
  <2>4. QED
    BY <2>2, <2>3
<1>5. call' \in [1 .. MaxCalls -> CallRecords]
  BY <1>2, <1>3, <1>4
<1>6. ASSUME NEW k \in 1 .. MaxCalls
      PROVE  CallAgrees(k)'
  <2> DEFINE c == call[k]
             d == call'[k]
  <2>1. /\ d.stage = c.stage /\ d.agent = c.agent /\ d.tool = c.tool /\ d.by = c.by
        /\ d.handler = c.handler /\ d.answer = c.answer
        /\ c.agent = id => d.disturbed
        /\ c.agent # id => (d.disturbed <=> c.disturbed)
    BY <1>4
  <2>2. /\ c.stage # "none" => c.agent \in handles
        /\ Live(c) /\ c.agent \in disturbed => c.disturbed
        /\ Live(c) /\ ~c.disturbed => Aims(c, registered[c.agent])
        /\ Served(c)
    BY <1>1 DEF CallAgrees
  <2>3. d.stage # "none" => d.agent \in handles'
    BY <2>1, <2>2
  <2>4. Live(d) /\ d.agent \in disturbed' => d.disturbed
    BY <1>2, <2>1, <2>2 DEF Live
  <2>5. Live(d) /\ ~d.disturbed => Aims(d, registered'[d.agent])
    <3>1. ASSUME Live(d), ~d.disturbed
          PROVE  Aims(d, registered'[d.agent])
      <4>1. c.agent # id /\ Aims(c, registered[c.agent]) /\ c.agent \in Ids
        BY <1>1, <2>1, <2>2, <3>1 DEF Live
      <4>2. registered'[c.agent] = registered[c.agent]
        BY <4>1
      <4>3. QED
        BY <2>1, <4>1, <4>2 DEF Aims
    <3>2. QED
      BY <3>1
  <2>6. Served(d)
    BY <2>1, <2>2 DEF Served
  <2>7. QED
    BY <2>3, <2>4, <2>5, <2>6 DEF CallAgrees
<1>7. QED
  BY <1>2, <1>5, <1>6

-----------------------------------------------------------------------------
\* Calls keep what is known of them while the registrations they rely on stay.
LEMMA CallsStay ==
  ASSUME IInv, call' = call, handles \subseteq handles', disturbed' \subseteq disturbed,
         \A i \in handles \ disturbed : registered'[i] = registered[i]
  PROVE  \A k \in 1 .. MaxCalls : CallAgrees(k)'
<1> SUFFICES ASSUME NEW k \in 1 .. MaxCalls PROVE CallAgrees(k)'
  OBVIOUS
<1> DEFINE c == call[k]
<1>1. /\ c.stage # "none" => c.agent \in handles
      /\ Live(c) /\ c.agent \in disturbed => c.disturbed
      /\ Live(c) /\ ~c.disturbed => Aims(c, registered[c.agent])
      /\ Served(c)
  BY DEF IInv, CallAgrees
<1>2. call'[k] = c
  OBVIOUS
<1>3. Live(c) /\ ~c.disturbed => registered'[c.agent] = registered[c.agent]
  BY <1>1 DEF Live
<1>4. Live(c) /\ ~c.disturbed => Aims(c, registered'[c.agent])
  BY <1>1, <1>3
<1>5. QED
  BY <1>1, <1>2, <1>4 DEF CallAgrees

\* An operation keeps what it relies on while its agent is left alone.
LEMMA OpStays ==
  ASSUME NEW m \in Ops, OpAgrees(m), op'[m] = op[m], handles \subseteq handles',
         op[m].kind = "create" /\ op[m].id \in Ids \ disturbed' =>
           /\ op[m].id \notin disturbed /\ op[m].id \notin handles'
           /\ registered'[op[m].id] = registered[op[m].id]
           /\ attached'[op[m].id] \in {NoTools, attached[op[m].id]},
         op[m].kind \in {"resume", "close"} => op[m].id \in disturbed'
  PROVE  OpAgrees(m)'
<1>1. Brought(m)' = Brought(m)
  BY DEF Brought
<1>2. op[m].kind = "create" /\ op[m].id \in Ids \ disturbed' => Fresh(m)'
  BY <1>1 DEF OpAgrees, Fresh
<1>3. QED
  BY <1>2 DEF OpAgrees

\* What an operation finds and leaves when it begins.
LEMMA Beginning ==
  ASSUME IInv, NEW n \in Ops, NEW kind \in {"create", "resume", "send", "close"},
         NEW id \in Ids \cup {Pending}, NEW names \in SUBSET Tools,
         Begin(n, kind, id, names)
  PROVE  /\ op' \in [Ops -> OpRecords]
         /\ op'[n].kind = kind /\ op'[n].stage = "sent" /\ op'[n].key = id
         /\ op'[n].id = id /\ op'[n].names = names /\ ~op'[n].ok
         /\ Brought(n)' = [names |-> names, by |-> n]
         /\ \A m \in Ops \ {n} : op'[m] = op[m]
         /\ op[n].kind = "none"
<1> DEFINE o == [kind |-> kind, stage |-> "sent", key |-> id, id |-> id,
                 names |-> names, ok |-> FALSE]
<1>1. op \in [Ops -> OpRecords] /\ op' = [op EXCEPT ![n] = o] /\ op[n] = NotBegun
  BY DEF IInv, Types, Begin, Begins
<1>2. o \in OpRecords
  BY DEF OpRecords
<1>3. /\ o.kind = kind /\ o.stage = "sent" /\ o.key = id /\ o.id = id
      /\ o.names = names /\ ~o.ok
  OBVIOUS
<1>4. op[n].kind = "none"
  BY <1>1 DEF NotBegun
<1> HIDE DEF o
<1>5. op'[n] = o /\ op' \in [Ops -> OpRecords] /\ \A m \in Ops \ {n} : op'[m] = op[m]
  BY <1>1, <1>2
<1>6. QED
  BY <1>3, <1>4, <1>5 DEF Brought

\* An agent that nobody has is not known to any operation or call.
LEMMA FreeAgents ==
  ASSUME IInv, NEW id \in Ids, Free(id)
  PROVE  /\ id \notin running /\ id \notin handles \ disturbed
         /\ registered[id] = NoTools /\ attached[id] = NoTools
         /\ \A n \in Ops : op[n].id # id
  BY DEF IInv, Agents, Free

\* createAgent registers: whoever had the registration is disturbed.
LEMMA Overwriting ==
  ASSUME IInv, NEW key \in Ids \cup {Pending}, NEW tools \in ToolSets,
         Overwrite(key, tools), handles' = handles
  PROVE  /\ registered' \in [Ids \cup {Pending} -> ToolSets] /\ registered'[key] = tools
         /\ \A i \in (Ids \cup {Pending}) \ {key} : registered'[i] = registered[i]
         /\ disturbed \subseteq disturbed' /\ disturbed' \subseteq Ids
         /\ key \in Ids \ disturbed' =>
              /\ key \notin handles /\ attached[key] = NoTools
              /\ \A m \in Ops : op[m].id # key
         /\ call' \in [1 .. MaxCalls -> CallRecords]
         /\ \A k \in 1 .. MaxCalls : CallAgrees(k)'
<1>1. Types /\ Pending \notin Ids /\ handles \subseteq Ids
  BY ToolBounds DEF IInv, Types
<1>2. registered' = [registered EXCEPT ![key] = tools]
  BY DEF Overwrite, Register
<1>3. /\ registered' \in [Ids \cup {Pending} -> ToolSets] /\ registered'[key] = tools
      /\ \A i \in (Ids \cup {Pending}) \ {key} : registered'[i] = registered[i]
  BY <1>1, <1>2 DEF Types
<1>4. CASE key = Pending \/ Free(key)
  <2>1. UNCHANGED <<call, disturbed>>
    BY <1>4 DEF Overwrite
  <2>2. key \in Ids =>
          /\ key \notin handles \ disturbed /\ attached[key] = NoTools
          /\ \A m \in Ops : op[m].id # key
    BY <1>1, <1>4, FreeAgents
  <2>3. \A i \in handles \ disturbed : registered'[i] = registered[i]
    BY <1>1, <1>3, <2>2
  <2>4. \A k \in 1 .. MaxCalls : CallAgrees(k)'
    BY <2>1, <2>3, CallsStay
  <2>5. QED
    BY <1>1, <1>3, <2>1, <2>2, <2>4 DEF Types
<1>5. CASE ~(key = Pending \/ Free(key))
  <2>1. Disturb(key) /\ key \in Ids
    BY <1>5 DEF Overwrite
  <2>2. /\ disturbed' = disturbed \cup {key}
        /\ call' \in [1 .. MaxCalls -> CallRecords]
        /\ \A k \in 1 .. MaxCalls : CallAgrees(k)'
    BY <1>3, <2>1, DisturbCalls
  <2>3. QED
    BY <1>1, <1>3, <2>1, <2>2 DEF Types
<1>6. QED
  BY <1>4, <1>5

\* createAgent begins.
LEMMA CreateIInv ==
  ASSUME IInv, NEW n \in Ops, Create(n)
  PROVE  IInv'
<1>1. PICK key \in Ids \cup {Pending}, names \in HasTools :
        /\ Begin(n, "create", key, names)
        /\ Overwrite(key, [names |-> names, by |-> n])
        /\ UNCHANGED <<open, lock, bridgeVars, handles, abandoned>>
  BY DEF Create
<1> DEFINE tools == [names |-> names, by |-> n]
<1>2. names \in SUBSET Tools
  BY DEF HasTools
<1>3. tools \in ToolSets
  BY <1>2, ToolSetsOf
<1>4. /\ op' \in [Ops -> OpRecords]
      /\ op'[n].kind = "create" /\ op'[n].stage = "sent" /\ op'[n].key = key
      /\ op'[n].id = key /\ ~op'[n].ok
      /\ Brought(n)' = tools
      /\ \A m \in Ops \ {n} : op'[m] = op[m]
      /\ op[n].kind = "none"
  BY <1>1, <1>2, Beginning
<1> HIDE DEF tools
<1>5. Overwrite(key, tools)
  BY <1>1 DEF tools
<1>6. UNCHANGED <<config, client, attached, running, handles, abandoned>>
  BY <1>1 DEF bridgeVars
<1>7. /\ registered' \in [Ids \cup {Pending} -> ToolSets] /\ registered'[key] = tools
      /\ \A i \in (Ids \cup {Pending}) \ {key} : registered'[i] = registered[i]
      /\ disturbed \subseteq disturbed' /\ disturbed' \subseteq Ids
      /\ key \in Ids \ disturbed' =>
           /\ key \notin handles /\ attached[key] = NoTools
           /\ \A m \in Ops : op[m].id # key
      /\ call' \in [1 .. MaxCalls -> CallRecords]
      /\ \A k \in 1 .. MaxCalls : CallAgrees(k)'
  BY <1>3, <1>5, <1>6, Overwriting
<1>8. Types /\ Pending \notin Ids /\ handles \subseteq Ids
  BY ToolBounds DEF IInv, Types
<1>9. Types'
  BY <1>4, <1>6, <1>7, <1>8 DEF Types
<1>10. Agents'
  BY <1>6, <1>7, <1>8 DEF IInv, Agents
<1>11. ASSUME NEW m \in Ops PROVE OpAgrees(m)'
  <2>1. CASE m = n
    <3>1. Creating(op[n])'
      BY <1>4 DEF Creating
    <3>2. ASSUME key \in Ids \ disturbed' PROVE Fresh(n)'
      BY <1>4, <1>6, <1>7, <1>8, <3>2 DEF Fresh
    <3>3. QED
      BY <1>4, <2>1, <3>1, <3>2 DEF OpAgrees
  <2>2. CASE m # n
    <3>1. op'[m] = op[m] /\ OpAgrees(m)
      BY <1>4, <2>2 DEF IInv
    <3>2. op[m].kind = "create" /\ op[m].id \in Ids \ disturbed' =>
            /\ op[m].id \notin disturbed /\ op[m].id \notin handles'
            /\ registered'[op[m].id] = registered[op[m].id]
            /\ attached'[op[m].id] \in {NoTools, attached[op[m].id]}
      BY <1>6, <1>7, <3>1 DEF OpAgrees, Fresh
    <3>3. op[m].kind \in {"resume", "close"} => op[m].id \in disturbed'
      BY <1>7, <3>1 DEF OpAgrees
    <3>4. QED
      BY <1>6, <3>1, <3>2, <3>3, OpStays
  <2>3. QED
    BY <2>1, <2>2
<1>12. OwnAgents'
  BY <1>4, <1>7 DEF IInv, OwnAgents
<1>13. PendingAgrees'
  BY <1>4, <1>6, <1>7, <1>8 DEF IInv, PendingAgrees
<1>14. QED
  BY <1>7, <1>9, <1>10, <1>11, <1>12, <1>13 DEF IInv

\* createAgent is refused after it has registered the tools.
LEMMA CreateRefusedIInv ==
  ASSUME IInv, NEW n \in Ops, CreateRefused(n)
  PROVE  IInv'
<1>1. PICK key \in Ids \cup {Pending}, names \in HasTools :
        /\ Overwrite(key, [names |-> names, by |-> n])
        /\ abandoned' = (abandoned \/ key = Pending)
  BY DEF CreateRefused
<1> DEFINE tools == [names |-> names, by |-> n]
<1>2. tools \in ToolSets
  BY ToolSetsOf DEF HasTools
<1> HIDE DEF tools
<1>3. UNCHANGED <<config, client, attached, running, handles>>
  BY DEF CreateRefused, bridgeVars
<1>4. /\ registered' \in [Ids \cup {Pending} -> ToolSets]
      /\ \A i \in (Ids \cup {Pending}) \ {key} : registered'[i] = registered[i]
      /\ disturbed \subseteq disturbed' /\ disturbed' \subseteq Ids
      /\ key \in Ids \ disturbed' =>
           /\ key \notin handles /\ attached[key] = NoTools
           /\ \A m \in Ops : op[m].id # key
      /\ call' \in [1 .. MaxCalls -> CallRecords]
      /\ \A k \in 1 .. MaxCalls : CallAgrees(k)'
  BY <1>1, <1>2, <1>3, Overwriting DEF tools
<1>5. Types /\ Pending \notin Ids /\ handles \subseteq Ids
  BY ToolBounds DEF IInv, Types
<1>6. /\ Ended \in OpRecords /\ Ended.kind = "none" /\ Ended.id = Pending
  BY DEF Ended, NotBegun, OpRecords
<1>7. /\ op' \in [Ops -> OpRecords] /\ op'[n] = Ended
      /\ \A m \in Ops \ {n} : op'[m] = op[m]
      /\ op[n].kind = "none"
  BY <1>5, <1>6 DEF CreateRefused, Begins, NotBegun, Types
<1>8. Types'
  BY <1>1, <1>3, <1>4, <1>5, <1>7 DEF Types
<1>9. Agents'
  BY <1>3, <1>4, <1>5 DEF IInv, Agents
<1>10. ASSUME NEW m \in Ops PROVE OpAgrees(m)'
  <2>1. CASE m = n
    BY <1>6, <1>7, <2>1 DEF OpAgrees
  <2>2. CASE m # n
    <3>1. op'[m] = op[m] /\ OpAgrees(m)
      BY <1>7, <2>2 DEF IInv
    <3>2. op[m].kind = "create" /\ op[m].id \in Ids \ disturbed' =>
            /\ op[m].id \notin disturbed /\ op[m].id \notin handles'
            /\ registered'[op[m].id] = registered[op[m].id]
            /\ attached'[op[m].id] \in {NoTools, attached[op[m].id]}
      BY <1>3, <1>4, <3>1 DEF OpAgrees, Fresh
    <3>3. op[m].kind \in {"resume", "close"} => op[m].id \in disturbed'
      BY <1>4, <3>1 DEF OpAgrees
    <3>4. QED
      BY <1>3, <3>1, <3>2, <3>3, OpStays
  <2>3. QED
    BY <2>1, <2>2
<1>11. OwnAgents'
  BY <1>4, <1>6, <1>7 DEF IInv, OwnAgents
<1>12. PendingAgrees'
  BY <1>1, <1>4, <1>5, <1>6, <1>7 DEF IInv, PendingAgrees
<1>13. QED
  BY <1>4, <1>8, <1>9, <1>10, <1>11, <1>12 DEF IInv

\* An operation that begins with an agent it names, after which
\* nothing is known of the agent's registration if the operation touched it.
LEMMA BeginOnHandle ==
  ASSUME IInv, NEW n \in Ops, NEW kind \in {"resume", "send", "close"},
         NEW id \in Ids, kind # "resume" => id \in handles, NEW names \in SUBSET Tools,
         Begin(n, kind, id, names),
         UNCHANGED <<config, client, attached, running, handles, abandoned>>,
         registered' \in [Ids \cup {Pending} -> ToolSets],
         \A i \in (Ids \cup {Pending}) \ {id} : registered'[i] = registered[i],
         call' \in [1 .. MaxCalls -> CallRecords],
         \A k \in 1 .. MaxCalls : CallAgrees(k)',
         \/ disturbed' = disturbed \cup {id}
         \/ disturbed' = disturbed /\ registered' = registered /\ kind = "send"
  PROVE  IInv'
<1>1. /\ op' \in [Ops -> OpRecords]
      /\ op'[n].kind = kind /\ op'[n].id = id
      /\ \A m \in Ops \ {n} : op'[m] = op[m]
      /\ op[n].kind = "none"
  BY Beginning DEF IInv, Types
<1>2. Types /\ Pending \notin Ids
  BY ToolBounds DEF IInv, Types
<1>3. Types'
  BY <1>1, <1>2 DEF Types
<1>4. \A i \in handles \ disturbed' : registered'[i] = registered[i] /\ i \notin disturbed
  BY <1>2 DEF Types
<1>5. Agents'
  BY <1>4 DEF IInv, Agents
<1>6. ASSUME NEW m \in Ops PROVE OpAgrees(m)'
  <2>1. CASE m = n
    BY <1>1, <2>1 DEF OpAgrees
  <2>2. CASE m # n
    <3>1. op'[m] = op[m] /\ OpAgrees(m)
      BY <1>1, <2>2 DEF IInv
    <3>2. op[m].kind = "create" /\ op[m].id \in Ids \ disturbed' =>
            /\ op[m].id \notin disturbed /\ op[m].id \notin handles'
            /\ registered'[op[m].id] = registered[op[m].id]
            /\ attached'[op[m].id] \in {NoTools, attached[op[m].id]}
      BY <3>1 DEF OpAgrees, Fresh
    <3>3. op[m].kind \in {"resume", "close"} => op[m].id \in disturbed'
      BY <3>1 DEF OpAgrees
    <3>4. QED
      BY <3>1, <3>2, <3>3, OpStays
  <2>3. QED
    BY <2>1, <2>2
<1>7. OwnAgents'
  BY <1>1 DEF IInv, OwnAgents
<1>8. registered'[Pending] = registered[Pending]
  BY <1>2
<1>9. PendingAgrees'
  BY <1>1, <1>8 DEF IInv, PendingAgrees
<1>10. QED
  BY <1>3, <1>5, <1>6, <1>7, <1>9 DEF IInv

\* resumeAgent, Send and Close begin.
LEMMA HandleBeginsIInv ==
  ASSUME IInv, NEW n \in Ops, Resume(n) \/ Send(n) \/ Close(n)
  PROVE  IInv'
<1>1. Types /\ handles \subseteq Ids /\ Pending \notin Ids
  BY ToolBounds DEF IInv, Types
<1>2. CASE Resume(n)
  <2>1. PICK id \in Ids, names \in HasTools :
          /\ Begin(n, "resume", id, names)
          /\ Register(id, [names |-> names, by |-> n])
          /\ Disturb(id)
          /\ UNCHANGED <<open, lock, bridgeVars, handles, abandoned>>
    BY <1>2 DEF Resume
  <2> DEFINE tools == [names |-> names, by |-> n]
  <2>2. names \in SUBSET Tools /\ tools \in ToolSets
    BY ToolSetsOf DEF HasTools
  <2>3. registered' = [registered EXCEPT ![id] = tools]
    BY <2>1 DEF Register
  <2> HIDE DEF tools
  <2>4. /\ registered' \in [Ids \cup {Pending} -> ToolSets]
        /\ \A i \in (Ids \cup {Pending}) \ {id} : registered'[i] = registered[i]
    BY <1>1, <2>2, <2>3 DEF Types
  <2>5. /\ disturbed' = disturbed \cup {id}
        /\ call' \in [1 .. MaxCalls -> CallRecords]
        /\ \A k \in 1 .. MaxCalls : CallAgrees(k)'
    BY <2>1, <2>4, DisturbCalls
  <2>6. UNCHANGED <<config, client, attached, running, handles, abandoned>>
    BY <2>1 DEF bridgeVars
  <2>7. QED
    BY <2>1, <2>2, <2>4, <2>5, <2>6, BeginOnHandle
<1>3. CASE Send(n)
  <2>1. PICK id \in handles, names \in SUBSET Tools :
          /\ Begin(n, "send", id, names)
          /\ UNCHANGED <<hostVars, bridgeVars, handles, call, disturbed, abandoned>>
    BY <1>3 DEF Send
  <2>2. UNCHANGED <<registered, config, client, attached, running, handles, abandoned, call, disturbed>>
    BY <2>1 DEF hostVars, bridgeVars
  <2>3. \A k \in 1 .. MaxCalls : CallAgrees(k)'
    BY <2>2, CallsStay
  <2>4. /\ registered' \in [Ids \cup {Pending} -> ToolSets]
        /\ call' \in [1 .. MaxCalls -> CallRecords]
    BY <1>1, <2>2 DEF Types
  <2>5. QED
    BY <1>1, <2>1, <2>2, <2>3, <2>4, BeginOnHandle
<1>4. CASE Close(n)
  <2>1. PICK id \in handles :
          /\ Begin(n, "close", id, {})
          /\ Unregister(id)
          /\ Disturb(id)
          /\ UNCHANGED <<open, lock, bridgeVars, handles, abandoned>>
    BY <1>4 DEF Close
  <2>2. registered' = [registered EXCEPT ![id] = NoTools] /\ NoTools \in ToolSets
    BY <2>1, ToolSetsOf DEF Unregister, Register
  <2>3. /\ registered' \in [Ids \cup {Pending} -> ToolSets]
        /\ \A i \in (Ids \cup {Pending}) \ {id} : registered'[i] = registered[i]
    BY <1>1, <2>2 DEF Types
  <2>4. /\ disturbed' = disturbed \cup {id}
        /\ call' \in [1 .. MaxCalls -> CallRecords]
        /\ \A k \in 1 .. MaxCalls : CallAgrees(k)'
    BY <1>1, <2>1, <2>3, DisturbCalls
  <2>5. UNCHANGED <<config, client, attached, running, handles, abandoned>>
    BY <2>1 DEF bridgeVars
  <2>6. {} \in SUBSET Tools
    OBVIOUS
  <2>7. QED
    BY <1>1, <2>1, <2>3, <2>4, <2>5, <2>6, BeginOnHandle
<1>5. QED
  BY <1>2, <1>3, <1>4

-----------------------------------------------------------------------------
\* What an operation leaves when it ends.
LEMMA Ending ==
  ASSUME IInv, NEW n \in Ops, NEW kind, Ends(n, kind)
  PROVE  /\ op' \in [Ops -> OpRecords]
         /\ op'[n].kind = "none" /\ op'[n].id = Pending
         /\ \A m \in Ops \ {n} : op'[m] = op[m]
         /\ op[n].kind = kind /\ op[n] \in OpRecords
         /\ UNCHANGED <<config, client, attached, running>>
<1>1. /\ Ended \in OpRecords /\ Ended.kind = "none" /\ Ended.id = Pending
  BY DEF Ended, NotBegun, OpRecords
<1>2. /\ op \in [Ops -> OpRecords] /\ op' = [op EXCEPT ![n] = Ended] /\ op[n].kind = kind
  BY DEF IInv, Types, Ends
<1>3. UNCHANGED <<config, client, attached, running>>
  BY DEF Ends, bridgeVars
<1>4. QED
  BY <1>1, <1>2, <1>3

\* The program has a new agent, or one whose registration is known again.
LEMMA Settling ==
  ASSUME IInv, NEW n \in Ops, NEW kind \in {"create", "resume"}, Ends(n, kind), Settle(n),
         op[n].ok => op[n].id \in Ids,
         registered' \in [Ids \cup {Pending} -> ToolSets], abandoned' \in BOOLEAN,
         \A i \in Ids : registered'[i] = registered[i] \/ (op[n].ok /\ i = op[n].id),
         op[n].ok /\ op[n].id \notin disturbed =>
           /\ op[n].id \notin handles /\ registered'[op[n].id] = Brought(n)
           /\ attached[op[n].id] \in {NoTools, Brought(n)},
         \A m \in Ops \ {n} : op[m].kind = "create" /\ op[m].id \in Ids \ disturbed =>
           op[m].id # op[n].id,
         PendingAgrees'
  PROVE  IInv'
<1>1. /\ op' \in [Ops -> OpRecords]
      /\ op'[n].kind = "none" /\ op'[n].id = Pending
      /\ \A m \in Ops \ {n} : op'[m] = op[m]
      /\ op[n].kind = kind /\ op[n] \in OpRecords
      /\ UNCHANGED <<config, client, attached, running>>
  BY Ending
<1> DEFINE id == op[n].id
           ok == op[n].ok
<1>2. /\ UNCHANGED call
      /\ handles' = IF ok THEN handles \cup {id} ELSE handles
      /\ \/ disturbed' = disturbed
         \/ /\ disturbed' = disturbed \ {id}
            /\ ok /\ registered'[id] = Brought(n) /\ attached[id] = Brought(n)
            /\ \A m \in Ops \ {n} : op[m].id # id
  BY DEF Settle
<1>3. Types /\ Pending \notin Ids /\ Brought(n) # NoTools
  BY <1>1, ToolsBrought, ToolBounds DEF IInv
<1>4. /\ handles \subseteq handles' /\ disturbed' \subseteq disturbed
      /\ \A i \in handles \ disturbed : registered'[i] = registered[i]
  BY <1>2, <1>3 DEF Types
<1>5. Types'
  BY <1>1, <1>2, <1>3 DEF Types
<1>6. Agents'
  <2>1. \A i \in running' : attached'[i] # NoTools
    BY <1>1 DEF IInv, Agents
  <2>2. ASSUME NEW i \in handles' \ disturbed'
        PROVE  registered'[i] # NoTools /\ attached'[i] \in {NoTools, registered'[i]}
    <3>1. CASE i \in handles \ disturbed
      BY <1>1, <1>4, <3>1 DEF IInv, Agents
    <3>2. CASE i \notin handles \ disturbed
      <4>1. i = id /\ ok
        BY <1>2, <3>2
      <4>2. registered'[id] = Brought(n) /\ attached[id] \in {NoTools, Brought(n)}
        BY <1>2, <3>2, <4>1
      <4>3. QED
        BY <1>1, <1>3, <4>1, <4>2
    <3>3. QED
      BY <3>1, <3>2
  <2>3. QED
    BY <2>1, <2>2 DEF Agents
<1>7. \A k \in 1 .. MaxCalls : CallAgrees(k)'
  BY <1>2, <1>4, CallsStay
<1>8. ASSUME NEW m \in Ops PROVE OpAgrees(m)'
  <2>1. CASE m = n
    BY <1>1, <2>1 DEF OpAgrees
  <2>2. CASE m # n
    <3>1. op'[m] = op[m] /\ OpAgrees(m)
      BY <1>1, <2>2 DEF IInv
    <3>2. op[m].id \in disturbed' <=> op[m].id \in disturbed
      BY <1>2, <2>2
    <3>3. ASSUME op[m].kind = "create", op[m].id \in Ids \ disturbed'
          PROVE  /\ op[m].id \notin disturbed /\ op[m].id \notin handles'
                 /\ registered'[op[m].id] = registered[op[m].id]
                 /\ attached'[op[m].id] \in {NoTools, attached[op[m].id]}
      <4>1. op[m].id # id /\ op[m].id \notin handles
        BY <2>2, <3>1, <3>2, <3>3 DEF OpAgrees, Fresh
      <4>2. QED
        BY <1>1, <1>2, <3>2, <3>3, <4>1
    <3>4. op[m].kind \in {"resume", "close"} => op[m].id \in disturbed'
      BY <3>1, <3>2 DEF OpAgrees
    <3>5. QED
      BY <1>4, <3>1, <3>3, <3>4, OpStays
  <2>3. QED
    BY <2>1, <2>2
<1>9. OwnAgents'
  <2>1. ASSUME NEW l \in Ops, NEW m \in Ops, op'[l].kind = "create", op'[m].kind = "create",
               op'[l].id = op'[m].id
        PROVE  op'[l].id \in {Pending} \cup disturbed' \/ l = m
    <3>1. l # n /\ m # n /\ op'[l] = op[l] /\ op'[m] = op[m]
      BY <1>1, <2>1
    <3>2. op[l].id \in {Pending} \cup disturbed \/ l = m
      BY <2>1, <3>1 DEF IInv, OwnAgents
    <3>3. QED
      BY <1>2, <3>1, <3>2
  <2>2. QED
    BY <2>1 DEF OwnAgents
<1>10. QED
  BY <1>5, <1>6, <1>7, <1>8, <1>9 DEF IInv

\* createAgent ends: a new agent of the program's is registered.
LEMMA CreateEndsIInv ==
  ASSUME IInv, NEW n \in Ops, CreateEnds(n)
  PROVE  IInv'
<1>1. Ends(n, "create") /\ Settle(n)
  BY DEF CreateEnds
<1>2. /\ \A m \in Ops \ {n} : op'[m] = op[m]
      /\ op[n].kind = "create" /\ op[n] \in OpRecords
  BY <1>1, Ending
<1>3. PICK id \in Ids \cup {Pending}, ok \in BOOLEAN : id = op[n].id /\ ok = op[n].ok
  BY <1>2 DEF OpRecords
<1>4. /\ Types /\ Pending \notin Ids /\ op[n].key \in {Pending, id} /\ (ok => id \in Ids)
      /\ id \in Ids \ disturbed => Fresh(n)
  BY <1>2, <1>3, ToolBounds DEF IInv, OpAgrees, Creating
<1>5. Brought(n) \in ToolSets /\ NoTools \in ToolSets
  BY <1>2, ToolsBrought
<1>6. \/ op[n].key # Pending /\ registered' = registered /\ abandoned' = abandoned
      \/ /\ op[n].key = Pending /\ abandoned' = FALSE
         /\ registered' = [i \in DOMAIN registered |->
              IF i = Pending THEN NoTools
              ELSE IF ok /\ i = id THEN Brought(n) ELSE registered[i]]
  BY <1>3 DEF CreateEnds
<1>7. /\ registered' \in [Ids \cup {Pending} -> ToolSets] /\ abandoned' \in BOOLEAN
      /\ \A i \in Ids : registered'[i] = registered[i] \/ (ok /\ i = id)
  BY <1>4, <1>5, <1>6 DEF Types
<1>8. ok /\ id \notin disturbed =>
        /\ id \notin handles /\ registered'[id] = Brought(n)
        /\ attached[id] \in {NoTools, Brought(n)}
  BY <1>3, <1>4, <1>6 DEF Types, Fresh
<1>9. \A m \in Ops \ {n} : op[m].kind = "create" /\ op[m].id \in Ids \ disturbed => op[m].id # id
  BY <1>2, <1>3, <1>4 DEF IInv, OwnAgents
<1>10. PendingAgrees'
  <2>1. CASE op[n].key # Pending
    <3>1. registered' = registered /\ abandoned' = abandoned
      BY <1>6, <2>1
    <3>2. QED
      BY <1>2, <2>1, <3>1 DEF IInv, PendingAgrees
  <2>2. CASE op[n].key = Pending
    <3>1. registered'[Pending] = NoTools
      BY <1>4, <1>6, <2>2 DEF Types
    <3>2. QED
      BY <3>1 DEF PendingAgrees
  <2>3. QED
    BY <2>1, <2>2
<1>11. QED
  BY <1>1, <1>3, <1>4, <1>7, <1>8, <1>9, <1>10, Settling

\* resumeAgent ends: the agent has the tools it was registered with, or
\* remains one of which nothing is known.
LEMMA ResumeEndsIInv ==
  ASSUME IInv, NEW n \in Ops, ResumeEnds(n)
  PROVE  IInv'
<1>1. Ends(n, "resume") /\ Settle(n) /\ UNCHANGED <<registered, abandoned>>
  BY DEF ResumeEnds
<1>2. /\ \A m \in Ops \ {n} : op'[m] = op[m]
      /\ op[n].kind = "resume"
  BY <1>1, Ending
<1>3. /\ registered \in [Ids \cup {Pending} -> ToolSets] /\ abandoned \in BOOLEAN
      /\ op[n].id \in disturbed /\ op[n].id \in Ids
  BY <1>2 DEF IInv, Types, OpAgrees
<1>4. PendingAgrees'
  BY <1>1, <1>2 DEF IInv, PendingAgrees
<1>5. QED
  BY <1>1, <1>3, <1>4, Settling

\* Send and Close end.
LEMMA HandleEndsIInv ==
  ASSUME IInv, NEW n \in Ops, SendEnds(n) \/ CloseEnds(n)
  PROVE  IInv'
<1>1. PICK kind \in {"send", "close"} :
        /\ Ends(n, kind)
        /\ UNCHANGED <<handles, abandoned>>
        /\ kind = "close" => UNCHANGED <<registered, call, disturbed>>
  BY DEF SendEnds, CloseEnds
<1>2. /\ op' \in [Ops -> OpRecords]
      /\ op'[n].kind = "none" /\ op'[n].id = Pending
      /\ \A m \in Ops \ {n} : op'[m] = op[m]
      /\ op[n].kind = kind /\ op[n] \in OpRecords
      /\ UNCHANGED <<config, client, attached, running>>
  BY <1>1, Ending
<1>3. PICK id : id = op[n].id
  OBVIOUS
<1>4. /\ Types /\ Brought(n) \in ToolSets /\ Pending \notin Ids
      /\ id \in handles /\ handles \subseteq Ids
  BY <1>2, <1>3, ToolsBrought, ToolBounds DEF IInv, Types, OpAgrees
<1>5. \/ UNCHANGED <<registered, call, disturbed>>
      \/ Register(id, Brought(n)) /\ Disturb(id)
  BY <1>1, <1>2, <1>3 DEF SendEnds, CloseEnds
<1>6. /\ registered' \in [Ids \cup {Pending} -> ToolSets]
      /\ \A i \in (Ids \cup {Pending}) \ {id} : registered'[i] = registered[i]
      /\ disturbed \subseteq disturbed' /\ disturbed' \subseteq Ids
      /\ \A i \in handles \ disturbed' : registered'[i] = registered[i]
      /\ call' \in [1 .. MaxCalls -> CallRecords]
      /\ \A k \in 1 .. MaxCalls : CallAgrees(k)'
  <2>1. CASE UNCHANGED <<registered, call, disturbed>>
    <3>1. \A k \in 1 .. MaxCalls : CallAgrees(k)'
      BY <1>1, <2>1, CallsStay
    <3>2. QED
      BY <1>4, <2>1, <3>1 DEF Types
  <2>2. CASE Register(id, Brought(n)) /\ Disturb(id)
    <3>1. registered' = [registered EXCEPT ![id] = Brought(n)]
      BY <2>2 DEF Register
    <3>2. /\ registered' \in [Ids \cup {Pending} -> ToolSets]
          /\ \A i \in (Ids \cup {Pending}) \ {id} : registered'[i] = registered[i]
      BY <1>4, <3>1 DEF Types
    <3>3. /\ disturbed' = disturbed \cup {id}
          /\ call' \in [1 .. MaxCalls -> CallRecords]
          /\ \A k \in 1 .. MaxCalls : CallAgrees(k)'
      BY <1>1, <1>4, <2>2, <3>2, DisturbCalls
    <3>4. QED
      BY <1>4, <3>2, <3>3 DEF Types
  <2>3. QED
    BY <1>5, <2>1, <2>2
<1>7. Types'
  BY <1>1, <1>2, <1>4, <1>6 DEF Types
<1>8. Agents'
  BY <1>1, <1>2, <1>6 DEF IInv, Agents
<1>9. ASSUME NEW m \in Ops PROVE OpAgrees(m)'
  <2>1. CASE m = n
    BY <1>2, <2>1 DEF OpAgrees
  <2>2. CASE m # n
    <3>1. op'[m] = op[m] /\ OpAgrees(m)
      BY <1>2, <2>2 DEF IInv
    <3>2. op[m].kind = "create" /\ op[m].id \in Ids \ disturbed' =>
            /\ op[m].id \notin disturbed /\ op[m].id \notin handles'
            /\ registered'[op[m].id] = registered[op[m].id]
            /\ attached'[op[m].id] \in {NoTools, attached[op[m].id]}
      BY <1>1, <1>2, <1>4, <1>6, <3>1 DEF OpAgrees, Fresh
    <3>3. op[m].kind \in {"resume", "close"} => op[m].id \in disturbed'
      BY <1>6, <3>1 DEF OpAgrees
    <3>4. QED
      BY <1>1, <3>1, <3>2, <3>3, OpStays
  <2>3. QED
    BY <2>1, <2>2
<1>10. OwnAgents'
  BY <1>2, <1>6 DEF IInv, OwnAgents
<1>11. registered'[Pending] = registered[Pending]
  BY <1>4, <1>6 DEF Types
<1>12. PendingAgrees'
  BY <1>1, <1>2, <1>11 DEF IInv, PendingAgrees
<1>13. QED
  BY <1>6, <1>7, <1>8, <1>9, <1>10, <1>12 DEF IInv

-----------------------------------------------------------------------------
\* The bridge answers an operation.
LEMMA AnswerIInv ==
  ASSUME IInv, NEW n \in Ops, op[n].stage = "sent",
         NEW id \in Ids \cup {Pending}, NEW ok \in BOOLEAN, Answer(n, id, ok),
         UNCHANGED <<registered, config, client, handles, abandoned, call, disturbed>>,
         attached' \in [Ids -> ToolSets], running' \subseteq handles, Agents',
         \/ id = op[n].id
         \/ /\ op[n].kind = "create" /\ op[n].key = Pending
            /\ id \in Ids /\ \A m \in Ops : op[m].id # id,
         op[n].kind = "create" =>
           /\ ok => id \in Ids
           /\ id \in Ids \ disturbed =>
                /\ id \notin handles
                /\ registered[id] = IF op[n].key = Pending THEN NoTools ELSE Brought(n)
                /\ attached'[id] \in {NoTools, Brought(n)},
         \A m \in Ops \ {n} :
           op[m].kind = "create" /\ op[m].id \in Ids \ disturbed =>
             attached'[op[m].id] \in {NoTools, attached[op[m].id]}
  PROVE  IInv'
<1>1. Types /\ Pending \notin Ids /\ op[n] \in OpRecords /\ op \in [Ops -> OpRecords]
      /\ OpAgrees(n)
  BY ToolBounds DEF IInv, Types
<1> DEFINE o == [op[n] EXCEPT !.stage = "answered", !.id = id, !.ok = ok]
<1>2. /\ o \in OpRecords /\ o.kind = op[n].kind /\ o.stage = "answered" /\ o.key = op[n].key
      /\ o.id = id /\ o.names = op[n].names /\ (o.ok <=> ok)
  BY <1>1 DEF OpRecords
<1>3. op' = [op EXCEPT ![n] = o]
  BY DEF Answer
<1> HIDE DEF o
<1>4. op'[n] = o /\ op' \in [Ops -> OpRecords] /\ \A m \in Ops \ {n} : op'[m] = op[m]
  BY <1>1, <1>2, <1>3
<1>5. Brought(n)' = Brought(n)
  BY <1>2, <1>4 DEF Brought
<1>6. Types'
  BY <1>1, <1>4 DEF Types
<1>7. \A k \in 1 .. MaxCalls : CallAgrees(k)'
  BY CallsStay
<1>8. ASSUME NEW m \in Ops PROVE OpAgrees(m)'
  <2>1. CASE m = n
    <3>1. op[n].kind = "create" => Creating(op'[n])
      BY <1>1, <1>2, <1>4 DEF Creating, OpAgrees
    <3>2. op[n].kind = "create" /\ id \in Ids \ disturbed => Fresh(n)'
      BY <1>2, <1>4, <1>5 DEF Fresh
    <3>3. op[n].kind # "create" => id = op[n].id
      OBVIOUS
    <3>4. QED
      BY <1>1, <1>2, <1>4, <2>1, <3>1, <3>2, <3>3 DEF OpAgrees
  <2>2. CASE m # n
    <3>1. op'[m] = op[m] /\ OpAgrees(m)
      BY <1>4, <2>2 DEF IInv
    <3>2. op[m].kind = "create" /\ op[m].id \in Ids \ disturbed' =>
            /\ op[m].id \notin disturbed /\ op[m].id \notin handles'
            /\ registered'[op[m].id] = registered[op[m].id]
            /\ attached'[op[m].id] \in {NoTools, attached[op[m].id]}
      BY <2>2, <3>1 DEF OpAgrees, Fresh
    <3>3. op[m].kind \in {"resume", "close"} => op[m].id \in disturbed'
      BY <3>1 DEF OpAgrees
    <3>4. QED
      BY <3>1, <3>2, <3>3, OpStays
  <2>3. QED
    BY <2>1, <2>2
<1>9. OwnAgents'
  BY <1>2, <1>4 DEF IInv, OwnAgents
<1>10. PendingAgrees'
  BY <1>2, <1>4 DEF IInv, PendingAgrees
<1>11. QED
  BY <1>6, <1>7, <1>8, <1>9, <1>10 DEF IInv

\* What every answer finds.
LEMMA Asking ==
  ASSUME IInv, NEW n \in Ops, NEW kind, Asked(n, kind)
  PROVE  /\ Types /\ OpAgrees(n) /\ op[n] \in OpRecords
         /\ op[n].kind = kind /\ op[n].stage = "sent"
         /\ Brought(n) \in ToolSets /\ Brought(n) # NoTools
         /\ UNCHANGED <<registered, config, client, handles, abandoned, call, disturbed>>
<1>1. Types /\ OpAgrees(n) /\ op[n] \in OpRecords
  BY DEF IInv, Types
<1>2. /\ op[n].kind = kind /\ op[n].stage = "sent"
      /\ UNCHANGED <<registered, config, client, handles, abandoned, call, disturbed>>
  BY DEF Asked, hostVars
<1>3. Brought(n) \in ToolSets /\ Brought(n) # NoTools
  BY <1>1, ToolSetsOf DEF Brought, OpRecords
<1>4. QED
  BY <1>1, <1>2, <1>3

\* An agent is created.
LEMMA CreatedIInv ==
  ASSUME IInv, NEW n \in Ops, Created(n)
  PROVE  IInv'
<1>1. /\ Types /\ OpAgrees(n) /\ op[n] \in OpRecords
      /\ op[n].kind = "create" /\ op[n].stage = "sent"
      /\ Brought(n) \in ToolSets /\ Brought(n) # NoTools
      /\ UNCHANGED <<registered, config, client, handles, abandoned, call, disturbed>>
  BY Asking DEF Created
<1>2. PICK id \in (IF op[n].key # Pending THEN {op[n].key}
                   ELSE {i \in Ids \ handles : Free(i)}),
           ok \in BOOLEAN :
        /\ attached' = [attached EXCEPT ![id] = Brought(n)]
        /\ running' = running \ {id}
        /\ Answer(n, id, ok)
  BY DEF Created
<1>3. Pending \notin Ids
  BY ToolBounds
<1>4. id \in Ids /\ op[n].id = op[n].key
  BY <1>1, <1>2 DEF OpAgrees, Creating, OpRecords
<1>5. id \notin disturbed =>
        /\ id \notin handles
        /\ registered[id] = IF op[n].key = Pending THEN NoTools ELSE Brought(n)
  <2>1. CASE op[n].key = Pending
    BY <1>2, <1>4, <2>1, FreeAgents
  <2>2. CASE op[n].key # Pending
    BY <1>1, <1>2, <1>4, <2>2 DEF OpAgrees, Fresh
  <2>3. QED
    BY <2>1, <2>2
<1>6. /\ attached' \in [Ids -> ToolSets] /\ attached'[id] = Brought(n)
      /\ \A i \in Ids \ {id} : attached'[i] = attached[i]
  BY <1>1, <1>2, <1>4 DEF Types
<1>7. running' \subseteq handles /\ handles \subseteq Ids
  BY <1>1, <1>2 DEF Types
<1>8. Agents'
  BY <1>1, <1>2, <1>5, <1>6, <1>7 DEF IInv, Agents
<1>9. \/ id = op[n].id
      \/ /\ op[n].kind = "create" /\ op[n].key = Pending
         /\ id \in Ids /\ \A m \in Ops : op[m].id # id
  <2>1. CASE op[n].key = Pending
    BY <1>1, <1>2, <1>4, <2>1, FreeAgents
  <2>2. CASE op[n].key # Pending
    BY <1>2, <1>4, <2>2
  <2>3. QED
    BY <2>1, <2>2
<1>10. ASSUME NEW m \in Ops \ {n}, op[m].kind = "create", op[m].id \in Ids \ disturbed
       PROVE  attached'[op[m].id] \in {NoTools, attached[op[m].id]}
  <2>1. op[m].id # id
    BY <1>1, <1>3, <1>4, <1>9, <1>10 DEF IInv, OwnAgents
  <2>2. QED
    BY <1>6, <1>10, <2>1
<1>11. QED
  BY <1>1, <1>2, <1>4, <1>5, <1>6, <1>7, <1>8, <1>9, <1>10, AnswerIInv

\* A resumed, closed or failed operation, and a Send.
LEMMA HandleAnswersIInv ==
  ASSUME IInv, NEW n \in Ops, Resumed(n) \/ Sent(n) \/ Closed(n) \/ Failed(n)
  PROVE  IInv'
<1>1. PICK kind \in {"create", "resume", "send", "close"}, ok \in BOOLEAN :
        /\ Asked(n, kind)
        /\ Answer(n, op[n].id, ok)
        /\ kind = "create" => ~ok /\ UNCHANGED <<attached, running>>
  <2>1. CASE Resumed(n)
    <3>1. /\ Asked(n, "resume")
          /\ \E ok \in BOOLEAN : Answer(n, op[n].id, ok)
      BY <2>1 DEF Resumed
    <3>2. QED
      BY <3>1
  <2>2. CASE Sent(n)
    <3>1. /\ Asked(n, "send")
          /\ \E ok \in BOOLEAN : Answer(n, op[n].id, ok)
      BY <2>2 DEF Sent
    <3>2. QED
      BY <3>1
  <2>3. CASE Closed(n)
    <3>1. /\ Asked(n, "close")
          /\ \E ok \in BOOLEAN : Answer(n, op[n].id, ok)
      BY <2>3 DEF Closed
    <3>2. QED
      BY <3>1
  <2>4. CASE Failed(n)
    <3>1. PICK failed \in BOOLEAN : failed = FALSE
      OBVIOUS
    <3>2. /\ op[n].kind # "none" /\ Asked(n, op[n].kind) /\ Answer(n, op[n].id, failed)
          /\ ~failed /\ UNCHANGED <<attached, running>>
      BY <2>4, <3>1 DEF Failed
    <3>3. op[n].kind \in {"create", "resume", "send", "close"}
      BY <3>2 DEF IInv, Types, OpRecords
    <3>4. QED
      BY <3>2, <3>3
  <2>5. QED
    BY <2>1, <2>2, <2>3, <2>4
<1>2. /\ Types /\ OpAgrees(n) /\ op[n] \in OpRecords
      /\ op[n].kind = kind /\ op[n].stage = "sent"
      /\ Brought(n) \in ToolSets /\ Brought(n) # NoTools /\ NoTools \in ToolSets
      /\ UNCHANGED <<registered, config, client, handles, abandoned, call, disturbed>>
  BY <1>1, Asking, ToolSetsOf
<1>3. PICK id \in Ids \cup {Pending} : id = op[n].id
  BY <1>2 DEF OpRecords
<1>4. /\ Pending \notin Ids /\ handles \subseteq Ids
      /\ kind = "send" => id \in handles
      /\ kind \in {"resume", "close"} => id \in disturbed /\ id \in Ids
  BY <1>1, <1>2, <1>3, ToolBounds DEF Types, OpAgrees
<1>5. \/ UNCHANGED <<attached, running>>
      \/ /\ kind = "send" /\ attached' = attached
         /\ attached[id] # NoTools /\ running' = running \cup {id}
      \/ /\ kind \in {"resume", "close"} /\ running' = running \ {id}
         /\ attached' = [attached EXCEPT ![id] = Brought(n)]
              \/ attached' = [attached EXCEPT ![id] = NoTools]
  BY <1>2, <1>3 DEF Resumed, Sent, Closed, Failed, Gone, Asked
<1>6. /\ attached' \in [Ids -> ToolSets] /\ running' \subseteq handles
      /\ \A i \in Ids : attached'[i] # attached[i] => i = id /\ i \in disturbed
      /\ \A i \in running' : attached[i] # NoTools /\ (i = id => attached' = attached)
  <2>1. CASE UNCHANGED <<attached, running>>
    BY <1>2, <2>1 DEF IInv, Types, Agents
  <2>2. CASE /\ kind = "send" /\ attached' = attached
             /\ attached[id] # NoTools /\ running' = running \cup {id}
    BY <1>2, <1>4, <2>2 DEF IInv, Types, Agents
  <2>3. CASE /\ kind \in {"resume", "close"} /\ running' = running \ {id}
             /\ attached' = [attached EXCEPT ![id] = Brought(n)]
                  \/ attached' = [attached EXCEPT ![id] = NoTools]
    <3>1. PICK tools \in ToolSets : attached' = [attached EXCEPT ![id] = tools]
      BY <1>2, <2>3
    <3>2. id \in Ids /\ id \in disturbed /\ attached \in [Ids -> ToolSets]
      BY <1>2, <1>4, <2>3 DEF Types
    <3>3. attached' \in [Ids -> ToolSets] /\ \A i \in Ids \ {id} : attached'[i] = attached[i]
      BY <3>1, <3>2
    <3>4. \A i \in Ids : attached'[i] # attached[i] => i = id /\ i \in disturbed
      BY <3>2, <3>3
    <3>5. running' \subseteq handles /\ \A i \in running' : i # id /\ attached[i] # NoTools
      BY <1>2, <2>3 DEF IInv, Types, Agents
    <3>6. QED
      BY <3>3, <3>4, <3>5
  <2>4. QED
    BY <1>5, <2>1, <2>2, <2>3
<1>7. Agents'
  <2>1. ASSUME NEW i \in running' PROVE attached'[i] # NoTools
    BY <1>2, <1>4, <1>6 DEF IInv, Types, Agents
  <2>2. ASSUME NEW i \in handles' \ disturbed'
        PROVE  registered'[i] # NoTools /\ attached'[i] \in {NoTools, registered'[i]}
    BY <1>2, <1>4, <1>6 DEF IInv, Agents
  <2>3. QED
    BY <2>1, <2>2 DEF Agents
<1>8. kind = "create" /\ id \in Ids \ disturbed =>
        /\ id \notin handles
        /\ registered[id] = IF op[n].key = Pending THEN NoTools ELSE Brought(n)
        /\ attached'[id] \in {NoTools, Brought(n)}
  BY <1>1, <1>2, <1>3 DEF OpAgrees, Fresh
<1>9. \A m \in Ops \ {n} :
        op[m].kind = "create" /\ op[m].id \in Ids \ disturbed =>
          attached'[op[m].id] \in {NoTools, attached[op[m].id]}
  BY <1>6
<1>10. QED
  BY <1>1, <1>2, <1>3, <1>6, <1>7, <1>8, <1>9, AnswerIInv

-----------------------------------------------------------------------------
\* Runs end, agents go and tool calls go on, while no registration changes.
LEMMA OthersMove ==
  ASSUME IInv, UNCHANGED <<registered, op, handles, disturbed, abandoned>>,
         config' \in {"ours", "other", "none"}, client' \in {"ours", "other", "none"},
         attached' \in [Ids -> ToolSets], running' \subseteq running,
         \A i \in Ids : \/ attached'[i] = attached[i]
                        \/ attached'[i] = NoTools /\ i \notin running',
         call' \in [1 .. MaxCalls -> CallRecords],
         \A k \in 1 .. MaxCalls : CallAgrees(k)'
  PROVE  IInv'
<1>1. Types /\ handles \subseteq Ids /\ running \subseteq handles
  BY DEF IInv, Types
<1>2. Types'
  BY <1>1 DEF Types
<1>3. Agents'
  <2>1. ASSUME NEW i \in running' PROVE attached'[i] # NoTools
    <3>1. attached[i] # NoTools /\ i \in Ids
      BY <1>1 DEF IInv, Agents
    <3>2. QED
      BY <3>1
  <2>2. ASSUME NEW i \in handles' \ disturbed'
        PROVE  registered'[i] # NoTools /\ attached'[i] \in {NoTools, registered'[i]}
    BY <1>1 DEF IInv, Agents
  <2>3. QED
    BY <2>1, <2>2 DEF Agents
<1>4. ASSUME NEW m \in Ops PROVE OpAgrees(m)'
  <2>1. op'[m] = op[m] /\ OpAgrees(m)
    BY DEF IInv
  <2>2. op[m].kind = "create" /\ op[m].id \in Ids \ disturbed' =>
          /\ op[m].id \notin disturbed /\ op[m].id \notin handles'
          /\ registered'[op[m].id] = registered[op[m].id]
          /\ attached'[op[m].id] \in {NoTools, attached[op[m].id]}
    BY <2>1 DEF OpAgrees, Fresh
  <2>3. op[m].kind \in {"resume", "close"} => op[m].id \in disturbed'
    BY <2>1 DEF OpAgrees
  <2>4. QED
    BY <2>1, <2>2, <2>3, OpStays
<1>5. OwnAgents' /\ PendingAgrees'
  BY DEF IInv, OwnAgents, PendingAgrees
<1>6. QED
  BY <1>2, <1>3, <1>4, <1>5 DEF IInv

\* Of the calls, only one changes.
LEMMA OneCallMoves ==
  ASSUME IInv, UNCHANGED <<registered, config, op, handles, disturbed, abandoned>>,
         client' \in {"ours", "other", "none"},
         attached' \in [Ids -> ToolSets], running' \subseteq running,
         \A i \in Ids : \/ attached'[i] = attached[i]
                        \/ attached'[i] = NoTools /\ i \notin running',
         NEW k \in 1 .. MaxCalls, NEW c \in CallRecords, call' = [call EXCEPT ![k] = c],
         c.stage # "none" => c.agent \in handles,
         Live(c) /\ c.agent \in disturbed => c.disturbed,
         Live(c) /\ ~c.disturbed => Aims(c, registered[c.agent]),
         Served(c)
  PROVE  IInv'
<1>1. call \in [1 .. MaxCalls -> CallRecords] /\ config' \in {"ours", "other", "none"}
  BY DEF IInv, Types
<1>2. /\ call' \in [1 .. MaxCalls -> CallRecords] /\ call'[k] = c
      /\ \A j \in (1 .. MaxCalls) \ {k} : call'[j] = call[j]
  BY <1>1
<1>3. ASSUME NEW j \in 1 .. MaxCalls PROVE CallAgrees(j)'
  <2>1. CASE j = k
    BY <1>2, <2>1 DEF CallAgrees
  <2>2. CASE j # k
    <3>1. call'[j] = call[j] /\ CallAgrees(j)
      BY <1>2, <2>2 DEF IInv
    <3>2. QED
      BY <3>1 DEF CallAgrees
  <2>3. QED
    BY <2>1, <2>2
<1>4. QED
  BY <1>1, <1>2, <1>3, OthersMove

\* A run ends, and the address changes.
LEMMA BridgeAloneIInv ==
  ASSUME IInv,
         RunEnds \/ \E address \in {"ours", "other", "none"} : SetToolCallback(address)
  PROVE  IInv'
<1>1. /\ UNCHANGED <<registered, op, handles, disturbed, abandoned, attached, call>>
      /\ config' \in {"ours", "other", "none"} /\ client' \in {"ours", "other", "none"}
      /\ running' \subseteq running
  <2>1. config \in {"ours", "other", "none"} /\ client \in {"ours", "other", "none"}
    BY DEF IInv, Types
  <2>2. CASE RunEnds
    BY <2>1, <2>2 DEF RunEnds, hostVars, opVars
  <2>3. CASE \E address \in {"ours", "other", "none"} : SetToolCallback(address)
    BY <2>1, <2>3 DEF SetToolCallback, hostVars, opVars
  <2>4. QED
    BY <2>2, <2>3
<1>2. attached' \in [Ids -> ToolSets] /\ call' \in [1 .. MaxCalls -> CallRecords]
  BY <1>1 DEF IInv, Types
<1>3. \A k \in 1 .. MaxCalls : CallAgrees(k)'
  BY <1>1, CallsStay
<1>4. QED
  BY <1>1, <1>2, <1>3, OthersMove

\* The callback server stops.
LEMMA ServerCloseIInv ==
  ASSUME IInv, ServerClose
  PROVE  IInv'
<1>1. /\ UNCHANGED <<registered, config, client, attached, running, op, handles, disturbed, abandoned>>
      /\ call' = [k \in DOMAIN call |->
           IF call[k].stage \in {"looking", "executing", "calling", "closing", "closed"}
           THEN [call[k] EXCEPT !.answer = "unavailable"] ELSE call[k]]
  BY DEF ServerClose, bridgeVars, opVars
<1>2. Types /\ call \in [1 .. MaxCalls -> CallRecords]
  BY DEF IInv, Types
<1>3. ASSUME NEW k \in 1 .. MaxCalls
      PROVE  call'[k] \in CallRecords /\ CallAgrees(k)'
  <2>1. PICK c \in CallRecords : c = call[k]
    BY <1>2
  <2>2. PICK d \in CallRecords :
          /\ d = call'[k]
          /\ d.stage = c.stage /\ d.agent = c.agent /\ d.tool = c.tool /\ d.by = c.by
          /\ d.handler = c.handler /\ (d.disturbed <=> c.disturbed)
          /\ d.answer \in {c.answer, "unavailable"}
    <3> DEFINE d == [c EXCEPT !.answer = "unavailable"]
    <3>1. /\ d \in CallRecords
          /\ d.stage = c.stage /\ d.agent = c.agent /\ d.tool = c.tool /\ d.by = c.by
          /\ d.handler = c.handler /\ (d.disturbed <=> c.disturbed)
          /\ d.answer = "unavailable"
      BY <2>1 DEF CallRecords
    <3> HIDE DEF d
    <3>2. call'[k] = c \/ call'[k] = d
      BY <1>1, <1>2, <2>1 DEF d
    <3>3. QED
      BY <2>1, <3>1, <3>2
  <2>3. /\ c.stage # "none" => c.agent \in handles
        /\ Live(c) /\ c.agent \in disturbed => c.disturbed
        /\ Live(c) /\ ~c.disturbed => Aims(c, registered[c.agent])
        /\ Served(c)
    BY <2>1 DEF IInv, CallAgrees
  <2>4. /\ d.stage # "none" => d.agent \in handles
        /\ Live(d) /\ d.agent \in disturbed => d.disturbed
        /\ Live(d) /\ ~d.disturbed => Aims(d, registered[d.agent])
        /\ Served(d)
    BY <2>2, <2>3 DEF Live, Aims, Served
  <2>5. QED
    BY <1>1, <2>2, <2>4 DEF CallAgrees
<1>4. call' \in [1 .. MaxCalls -> CallRecords]
  BY <1>1, <1>2, <1>3
<1>5. QED
  BY <1>1, <1>2, <1>3, <1>4, OthersMove DEF Types

-----------------------------------------------------------------------------
\* What is known of a call.
LEMMA CallOf ==
  ASSUME IInv, NEW k \in 1 .. MaxCalls
  PROVE  /\ call[k] \in CallRecords
         /\ call[k].stage # "none" => call[k].agent \in handles
         /\ Live(call[k]) /\ call[k].agent \in disturbed => call[k].disturbed
         /\ Live(call[k]) /\ ~call[k].disturbed => Aims(call[k], registered[call[k].agent])
         /\ Served(call[k])
BY DEF IInv, Types, CallAgrees

\* Calls at the callback server go on, and nothing else moves with them.
LEMMA ServedOn ==
  ASSUME IInv, NEW k \in 1 .. MaxCalls, NEW c \in CallRecords,
         call' = [call EXCEPT ![k] = c],
         UNCHANGED <<registered, bridgeVars, opVars, disturbed>>,
         c.stage # "none" => c.agent \in handles,
         Live(c) /\ c.agent \in disturbed => c.disturbed,
         Live(c) /\ ~c.disturbed => Aims(c, registered[c.agent]),
         Served(c)
  PROVE  IInv'
<1>1. /\ UNCHANGED <<registered, config, op, handles, disturbed, abandoned>>
      /\ UNCHANGED <<client, attached, running>>
  BY DEF bridgeVars, opVars
<1>2. client' \in {"ours", "other", "none"} /\ attached' \in [Ids -> ToolSets]
  BY <1>1 DEF IInv, Types
<1>3. QED
  BY <1>1, <1>2, OneCallMoves

\* The agent calls a tool, one that the program registered for it unless an
\* operation has touched the registration since.
LEMMA ToolCallIInv ==
  ASSUME IInv, NEW k \in 1 .. MaxCalls, ToolCall(k)
  PROVE  IInv'
<1>1. PICK id \in running : \E tool \in attached[id].names :
        /\ client' = IF config = "none" \/ client # "none" THEN client ELSE config
        /\ call' = [call EXCEPT ![k] = [NoCall EXCEPT
             !.stage = IF config = "none" THEN "done" ELSE "sent",
             !.answer = IF config = "none" THEN "unconfigured" ELSE "none",
             !.agent = id, !.tool = tool, !.by = attached[id].by,
             !.to = IF config = "none" THEN "none" ELSE client',
             !.disturbed = id \in disturbed]]
        /\ UNCHANGED <<hostVars, config, moves, attached, running, opVars, disturbed>>
  BY DEF ToolCall
<1>2. PICK tool \in attached[id].names :
        call' = [call EXCEPT ![k] = [NoCall EXCEPT
             !.stage = IF config = "none" THEN "done" ELSE "sent",
             !.answer = IF config = "none" THEN "unconfigured" ELSE "none",
             !.agent = id, !.tool = tool, !.by = attached[id].by,
             !.to = IF config = "none" THEN "none" ELSE client',
             !.disturbed = id \in disturbed]]
  BY <1>1
<1>3. /\ id \in handles /\ id \in Ids /\ attached[id] \in ToolSets
      /\ attached[id] # NoTools
      /\ id \notin disturbed => attached[id] = registered[id]
  BY DEF IInv, Types, Agents
<1>4. /\ UNCHANGED <<registered, config, op, handles, disturbed, abandoned, attached, running>>
      /\ client' \in {"ours", "other", "none"} /\ config \in {"ours", "other", "none"}
      /\ attached' \in [Ids -> ToolSets]
  BY <1>1 DEF IInv, Types, hostVars, opVars
<1>5. PICK tools \in ToolSets : tools = attached[id]
  BY <1>3
<1>6. tool \in Tools /\ tools.by \in Nat /\ tool \in tools.names
  BY <1>2, <1>5 DEF ToolSets
<1>7. PICK flag \in BOOLEAN : flag <=> id \in disturbed
  OBVIOUS
<1>8. PICK stage \in {"done", "sent"}, answer \in {"unconfigured", "none"},
           to \in {"ours", "other", "none"} :
        /\ stage = IF config = "none" THEN "done" ELSE "sent"
        /\ answer = IF config = "none" THEN "unconfigured" ELSE "none"
        /\ to = IF config = "none" THEN "none" ELSE client'
  BY <1>4
<1>9. PICK c : c = [NoCall EXCEPT !.stage = stage, !.answer = answer, !.agent = id,
                      !.tool = tool, !.by = tools.by, !.to = to, !.disturbed = flag]
  OBVIOUS
<1>10. call' = [call EXCEPT ![k] = c]
  <2>1. flag = (id \in disturbed)
    BY <1>7
  <2>2. QED
    BY <1>2, <1>5, <1>8, <1>9, <2>1
<1>11. /\ c \in CallRecords /\ c.stage = stage /\ c.answer = answer /\ c.agent = id
       /\ c.tool = tool /\ c.by = tools.by /\ (c.disturbed <=> flag) /\ c.handler = 0
  BY <1>3, <1>6, <1>9 DEF NoCall, CallRecords
<1>12. /\ c.stage # "none" => c.agent \in handles
       /\ Live(c) /\ c.agent \in disturbed => c.disturbed
       /\ Live(c) /\ ~c.disturbed => Aims(c, registered[c.agent])
       /\ Served(c)
  BY <1>3, <1>5, <1>6, <1>7, <1>8, <1>11 DEF Aims, Served
<1>13. running' \subseteq running /\ \A i \in Ids : attached'[i] = attached[i]
  BY <1>4
<1>14. QED
  BY <1>4, <1>10, <1>11, <1>12, <1>13, OneCallMoves

\* The callback server takes a call, or the call goes elsewhere.
LEMMA DeliverIInv ==
  ASSUME IInv, NEW k \in 1 .. MaxCalls, Deliver(k)
  PROVE  IInv'
<1>1. PICK c \in CallRecords : c = call[k]
  BY CallOf
<1>2. c.stage = "sent" /\ UNCHANGED <<registered, bridgeVars, opVars, disturbed>>
  BY <1>1 DEF Deliver
<1>3. /\ Live(c) /\ c.agent \in handles
      /\ c.agent \in disturbed => c.disturbed
      /\ ~c.disturbed => Aims(c, registered[c.agent])
      /\ Served(c)
  BY <1>1, <1>2, CallOf DEF Live
<1>4. CASE \E answer \in {"elsewhere", "unavailable"} : Answered(k, answer)
  <2>1. PICK answer \in {"elsewhere", "unavailable"} : Answered(k, answer)
    BY <1>4
  <2>2. PICK d : d = [c EXCEPT !.stage = "done", !.to = "none", !.answer = answer]
    OBVIOUS
  <2>3. call' = [call EXCEPT ![k] = d]
    BY <1>1, <2>1, <2>2 DEF Answered, IInv, Types
  <2>4. /\ d \in CallRecords /\ d.stage = "done" /\ d.answer = answer /\ d.agent = c.agent
        /\ d.by = c.by /\ d.handler = c.handler /\ (d.disturbed <=> c.disturbed)
    BY <2>2 DEF CallRecords
  <2>5. d.agent \in handles /\ ~Live(d) /\ Served(d)
    BY <1>3, <2>4 DEF Live, Served
  <2>6. QED
    BY <1>2, <2>3, <2>4, <2>5, ServedOn
<1>5. CASE call' = [call EXCEPT ![k].stage = "looking", ![k].to = "none"]
  <2>1. PICK d : d = [c EXCEPT !.stage = "looking", !.to = "none"]
    OBVIOUS
  <2>2. call' = [call EXCEPT ![k] = d]
    BY <1>1, <1>5, <2>1 DEF IInv, Types
  <2>3. /\ d \in CallRecords /\ d.stage = "looking" /\ d.answer = c.answer /\ d.agent = c.agent
        /\ d.tool = c.tool /\ d.by = c.by /\ d.handler = c.handler
        /\ (d.disturbed <=> c.disturbed)
    BY <2>1 DEF CallRecords
  <2>4. /\ d.agent \in handles
        /\ d.agent \in disturbed => d.disturbed
        /\ ~d.disturbed => Aims(d, registered[d.agent])
        /\ Served(d)
    BY <1>3, <2>3 DEF Aims, Served
  <2>5. QED
    BY <1>2, <2>2, <2>3, <2>4, ServedOn
<1>6. QED
  BY <1>4, <1>5 DEF Deliver

\* The handler is looked up: it is the one given with the tool, and there is
\* one, unless an operation has touched the registration since the call began.
LEMMA LookUpIInv ==
  ASSUME IInv, NEW k \in 1 .. MaxCalls, LookUp(k)
  PROVE  IInv'
<1>1. PICK c \in CallRecords : c = call[k]
  BY CallOf
<1>2. c.stage = "looking" /\ UNCHANGED <<registered, bridgeVars, opVars, disturbed>>
  BY <1>1 DEF LookUp
<1>3. /\ c.agent \in handles
      /\ ~c.disturbed => Aims(c, registered[c.agent])
      /\ Served(c)
  BY <1>1, <1>2, CallOf DEF Live
<1>4. PICK tools \in ToolSets : tools = registered[c.agent]
  BY <1>3 DEF IInv, Types
<1>5. \/ c.tool \in tools.names /\ Executing(k, tools.by)
      \/ c.tool \notin tools.names /\ HandlerDone(k, "notfound")
  BY <1>1, <1>4 DEF LookUp
<1>6. CASE c.tool \in tools.names /\ Executing(k, tools.by)
  <2>1. PICK stage \in {"executing", "calling"} :
          call' = [call EXCEPT ![k].stage = stage, ![k].handler = tools.by]
    BY <1>6 DEF Executing
  <2>2. PICK d : d = [c EXCEPT !.stage = stage, !.handler = tools.by]
    OBVIOUS
  <2>3. call' = [call EXCEPT ![k] = d]
    BY <1>1, <2>1, <2>2 DEF IInv, Types
  <2>4. tools.by \in Nat
    BY DEF ToolSets
  <2>5. /\ d \in CallRecords /\ d.stage = stage /\ d.answer = c.answer /\ d.agent = c.agent
        /\ d.by = c.by /\ d.handler = tools.by /\ (d.disturbed <=> c.disturbed)
    BY <2>2, <2>4 DEF CallRecords
  <2>6. d.agent \in handles /\ ~Live(d) /\ Served(d)
    BY <1>3, <1>4, <2>5 DEF Live, Served, Aims
  <2>7. QED
    BY <1>2, <2>3, <2>5, <2>6, ServedOn
<1>7. CASE c.tool \notin tools.names /\ HandlerDone(k, "notfound")
  <2>1. PICK answer : answer = IF c.answer = "none" THEN "notfound" ELSE c.answer
    OBVIOUS
  <2>2. PICK d : d = [c EXCEPT !.stage = "done", !.answer = answer]
    OBVIOUS
  <2>3. call' = [call EXCEPT ![k] = d]
    BY <1>1, <1>7, <2>1, <2>2 DEF HandlerDone, IInv, Types
  <2>4. answer \in {c.answer, "notfound"} /\ c.disturbed
    BY <1>3, <1>4, <1>7, <2>1 DEF Aims
  <2>5. /\ d \in CallRecords /\ d.stage = "done" /\ d.agent = c.agent
        /\ (d.disturbed <=> c.disturbed)
    BY <2>2, <2>4 DEF CallRecords
  <2>6. d.agent \in handles /\ ~Live(d) /\ Served(d)
    BY <1>3, <2>4, <2>5 DEF Live, Served
  <2>7. QED
    BY <1>2, <2>3, <2>5, <2>6, ServedOn
<1>8. QED
  BY <1>5, <1>6, <1>7

\* The handler returns, and its value is read.
LEMMA HandlerReturnsIInv ==
  ASSUME IInv, NEW k \in 1 .. MaxCalls, HandlerReturns(k)
  PROVE  IInv'
<1>1. PICK c \in CallRecords : c = call[k]
  BY CallOf
<1>2. /\ c.stage \in {"executing", "closed"}
      /\ UNCHANGED <<registered, bridgeVars, opVars, disturbed>>
  BY <1>1 DEF HandlerReturns
<1>3. c.agent \in handles /\ Served(c)
  BY <1>1, <1>2, CallOf
<1>4. PICK reply \in {"ok", "undecodable", "noresult"} : HandlerDone(k, reply)
  BY DEF HandlerReturns, ReplyRead
<1>5. PICK answer : answer = IF c.answer = "none" THEN reply ELSE c.answer
  OBVIOUS
<1>6. PICK d : d = [c EXCEPT !.stage = "done", !.answer = answer]
  OBVIOUS
<1>7. call' = [call EXCEPT ![k] = d]
  BY <1>1, <1>4, <1>5, <1>6 DEF HandlerDone, IInv, Types
<1>8. answer \in {c.answer, reply}
  BY <1>5
<1>9. /\ d \in CallRecords /\ d.stage = "done" /\ d.answer = answer /\ d.agent = c.agent
      /\ d.by = c.by /\ d.handler = c.handler /\ (d.disturbed <=> c.disturbed)
  BY <1>6, <1>8 DEF CallRecords
<1>10. d.agent \in handles /\ ~Live(d) /\ Served(d)
  BY <1>3, <1>8, <1>9 DEF Live, Served
<1>11. QED
  BY <1>2, <1>7, <1>9, <1>10, ServedOn

\* The bridge closes the agent of a handler, or the request to is lost.
LEMMA ClosedWithinIInv ==
  ASSUME IInv, NEW k \in 1 .. MaxCalls, ClosedWithin(k)
  PROVE  IInv'
<1>1. PICK c \in CallRecords : c = call[k]
  BY CallOf
<1>2. /\ c.stage = "closing"
      /\ UNCHANGED <<registered, config, client, op, handles, disturbed, abandoned>>
  BY <1>1 DEF ClosedWithin, hostVars, opVars
<1>3. c.agent \in handles /\ Served(c)
  BY <1>1, <1>2, CallOf
<1>4. PICK d : d = [c EXCEPT !.stage = "closed"]
  OBVIOUS
<1>5. call' = [call EXCEPT ![k] = d]
  BY <1>1, <1>4 DEF ClosedWithin, IInv, Types
<1>6. /\ d \in CallRecords /\ d.stage = "closed" /\ d.answer = c.answer /\ d.agent = c.agent
      /\ d.by = c.by /\ d.handler = c.handler /\ (d.disturbed <=> c.disturbed)
  BY <1>4 DEF CallRecords
<1>7. d.agent \in handles /\ ~Live(d) /\ Served(d)
  BY <1>3, <1>6 DEF Live, Served
<1>8. /\ attached \in [Ids -> ToolSets] /\ NoTools \in ToolSets
      /\ client' \in {"ours", "other", "none"}
  BY <1>2 DEF IInv, Types, NoTools, ToolSets
<1>9. /\ attached' \in [Ids -> ToolSets] /\ running' \subseteq running
      /\ \A i \in Ids : \/ attached'[i] = attached[i]
                        \/ attached'[i] = NoTools /\ i \notin running'
  <2>1. CASE Gone(c.agent)
    BY <1>8, <2>1 DEF Gone
  <2>2. CASE UNCHANGED <<attached, running>>
    BY <1>8, <2>2
  <2>3. QED
    BY <1>1, <2>1, <2>2 DEF ClosedWithin
<1>10. QED
  BY <1>2, <1>5, <1>6, <1>7, <1>8, <1>9, OneCallMoves

\* A handler closes its own agent.
LEMMA CloseWithinIInv ==
  ASSUME IInv, NEW k \in 1 .. MaxCalls, CloseWithin(k)
  PROVE  IInv'
<1>1. PICK c \in CallRecords : c = call[k]
  BY CallOf
<1>2. /\ c.stage = "calling"
      /\ UNCHANGED <<config, client, attached, running, op, handles, abandoned>>
  BY <1>1 DEF CloseWithin, bridgeVars, opVars
<1>3. PICK id \in handles : id = c.agent
  BY <1>1, <1>2, CallOf
<1>4. /\ registered' = [registered EXCEPT ![id] = NoTools]
      /\ disturbed' = disturbed \cup {id}
      /\ call' = [j \in DOMAIN call |-> [call[j] EXCEPT
           !.stage = IF j = k THEN "closing" ELSE @,
           !.disturbed = @ \/ call[j].agent = id]]
  BY <1>1, <1>3 DEF CloseWithin, Unregister, Register
<1>5. /\ Types /\ id \in Ids /\ Pending \notin Ids /\ NoTools \in ToolSets
      /\ handles \subseteq Ids
  BY ToolBounds DEF IInv, Types, NoTools, ToolSets
<1>6. /\ registered' \in [Ids \cup {Pending} -> ToolSets]
      /\ \A i \in (Ids \cup {Pending}) \ {id} : registered'[i] = registered[i]
  BY <1>4, <1>5 DEF Types
<1>7. ASSUME NEW j \in 1 .. MaxCalls
      PROVE  call'[j] \in CallRecords /\ CallAgrees(j)'
  <2>1. PICK b \in CallRecords : b = call[j]
    BY CallOf
  <2>2. PICK stage : stage = IF j = k THEN "closing" ELSE b.stage
    OBVIOUS
  <2>3. PICK flag \in BOOLEAN : flag <=> (b.disturbed \/ b.agent = id)
    OBVIOUS
  <2>4. PICK d : d = [b EXCEPT !.stage = stage, !.disturbed = flag]
    OBVIOUS
  <2>5. call'[j] = d
    <3>1. flag = (b.disturbed \/ b.agent = id)
      BY <2>3 DEF CallRecords
    <3>2. QED
      BY <1>4, <1>5, <2>1, <2>2, <2>4, <3>1 DEF Types
  <2>6. stage \in {"closing", b.stage} /\ (j # k => stage = b.stage)
    BY <2>2
  <2>7. /\ d \in CallRecords /\ d.stage = stage /\ d.answer = b.answer /\ d.agent = b.agent
        /\ d.tool = b.tool /\ d.by = b.by /\ d.handler = b.handler
        /\ (d.disturbed <=> flag)
    BY <2>4, <2>6 DEF CallRecords
  <2>8. /\ b.stage # "none" => b.agent \in handles
        /\ Live(b) /\ b.agent \in disturbed => b.disturbed
        /\ Live(b) /\ ~b.disturbed => Aims(b, registered[b.agent])
        /\ Served(b)
    BY <2>1, CallOf
  <2>9. j = k => b.stage = "calling"
    BY <1>1, <1>2, <2>1
  <2>10. Live(d) => Live(b)
    BY <2>6, <2>7 DEF Live
  <2>11. d.stage # "none" => d.agent \in handles'
    BY <1>2, <2>6, <2>7, <2>8, <2>9
  <2>12. Live(d) /\ d.agent \in disturbed' => d.disturbed
    BY <1>4, <2>3, <2>7, <2>8, <2>10
  <2>13. Live(d) /\ ~d.disturbed => Aims(d, registered'[d.agent])
    <3>1. ASSUME Live(d), ~d.disturbed PROVE Aims(d, registered'[d.agent])
      <4>1. /\ Live(b) /\ ~b.disturbed /\ b.agent # id
            /\ Aims(b, registered[b.agent])
        BY <2>3, <2>7, <2>8, <2>10, <3>1
      <4>2. registered'[b.agent] = registered[b.agent]
        BY <1>5, <1>6, <2>8, <4>1 DEF Live
      <4>3. QED
        BY <2>7, <4>1, <4>2 DEF Aims
    <3>2. QED
      BY <3>1
  <2>14. Served(d)
    BY <2>3, <2>7, <2>8 DEF Served
  <2>15. QED
    BY <2>5, <2>7, <2>11, <2>12, <2>13, <2>14 DEF CallAgrees
<1>8. call' \in [1 .. MaxCalls -> CallRecords]
  BY <1>4, <1>5, <1>7 DEF Types
<1>9. Types'
  BY <1>2, <1>4, <1>5, <1>6, <1>8 DEF Types
<1>10. \A i \in handles \ disturbed' : registered'[i] = registered[i] /\ i \notin disturbed
  BY <1>4, <1>5, <1>6
<1>11. Agents'
  BY <1>2, <1>10 DEF IInv, Agents
<1>12. ASSUME NEW m \in Ops PROVE OpAgrees(m)'
  <2>1. op'[m] = op[m] /\ OpAgrees(m)
    BY <1>2 DEF IInv
  <2>2. op[m].kind = "create" /\ op[m].id \in Ids \ disturbed' =>
          /\ op[m].id \notin disturbed /\ op[m].id \notin handles'
          /\ registered'[op[m].id] = registered[op[m].id]
          /\ attached'[op[m].id] \in {NoTools, attached[op[m].id]}
    BY <1>2, <1>4, <1>6, <2>1 DEF OpAgrees, Fresh
  <2>3. op[m].kind \in {"resume", "close"} => op[m].id \in disturbed'
    BY <1>4, <2>1 DEF OpAgrees
  <2>4. QED
    BY <1>2, <2>1, <2>2, <2>3, OpStays
<1>13. OwnAgents'
  BY <1>2, <1>4 DEF IInv, OwnAgents
<1>14. registered'[Pending] = registered[Pending]
  BY <1>5, <1>6
<1>15. PendingAgrees'
  BY <1>2, <1>14 DEF IInv, PendingAgrees
<1>16. QED
  BY <1>7, <1>9, <1>11, <1>12, <1>13, <1>15 DEF IInv

-----------------------------------------------------------------------------
\* Every step keeps the invariant.
LEMMA NextIInv == IInv /\ [Next]_vars => IInv'
<1> SUFFICES ASSUME IInv, [Next]_vars PROVE IInv'
  OBVIOUS
<1>1. CASE UNCHANGED vars
  <2>1. /\ UNCHANGED <<registered, config, client, attached, running, op, handles, call,
                       disturbed, abandoned>>
    BY <1>1 DEF vars, hostVars, bridgeVars, opVars
  <2>2. \A k \in 1 .. MaxCalls : CallAgrees(k)'
    BY <2>1, CallsStay
  <2>3. QED
    BY <2>1, <2>2, OthersMove DEF IInv, Types
<1>2. CASE ServerClose
  BY <1>2, ServerCloseIInv
<1>3. ASSUME NEW n \in Ops,
             Create(n) \/ CreateRefused(n) \/ Resume(n) \/ Send(n) \/ Close(n)
               \/ CreateEnds(n) \/ ResumeEnds(n) \/ SendEnds(n) \/ CloseEnds(n)
      PROVE  IInv'
  BY <1>3, CreateIInv, CreateRefusedIInv, HandleBeginsIInv, CreateEndsIInv, ResumeEndsIInv,
     HandleEndsIInv
<1>4. ASSUME NEW n \in Ops, Created(n) \/ Resumed(n) \/ Sent(n) \/ Closed(n) \/ Failed(n)
      PROVE  IInv'
  BY <1>4, CreatedIInv, HandleAnswersIInv
<1>5. CASE RunEnds \/ \E address \in {"ours", "other", "none"} : SetToolCallback(address)
  BY <1>5, BridgeAloneIInv
<1>6. ASSUME NEW k \in 1 .. MaxCalls, ToolCall(k) \/ Serve(k)
      PROVE  IInv'
  BY <1>6, ToolCallIInv, DeliverIInv, LookUpIInv, CloseWithinIInv, ClosedWithinIInv,
     HandlerReturnsIInv DEF Serve
<1>7. QED
  BY <1>1, <1>2, <1>3, <1>4, <1>5, <1>6 DEF Next, Program, Bridge

\* The registrations agree with what the operations in flight and the calls
\* on their way rely on, in every reachable state (client.go, agent.go,
\* callback.go, bridge-custom-tools.ts).
THEOREM InductiveInvariant == Spec => []IInv
<1>1. Init => IInv
  BY InitIInv
<1>2. IInv /\ [Next]_vars => IInv'
  BY NextIInv
<1>3. QED
  BY <1>1, <1>2, PTL DEF Spec

\* A tool call that reaches the program finds the handler given with the
\* tool, for any agents, tools, operations and calls, unless a Resume, a create
\* that asked for its id, a Send with tools or a Close has touched the
\* registration of its agent (ToolCallbackServer.handle, callback.go;
\* createAgent and resumeAgent, client.go; Send and Close, agent.go).
THEOREM RightHandlerFound == Spec => []RightHandler
<1>1. IInv => RightHandler
  BY CallOf DEF RightHandler, Served
<1>2. QED
  BY <1>1, InductiveInvariant, PTL

\* No tools stay under Pending when no create is in flight and none was
\* refused (createAgent, client.go).
THEOREM NothingPending == Spec => []NoPending
<1>1. IInv => NoPending
  BY DEF IInv, PendingAgrees, NoPending
<1>2. QED
  BY <1>1, InductiveInvariant, PTL

-----------------------------------------------------------------------------
\* The cached client was built for the address there is now.
Cached == client \in {"none", config}

\* A call that is sent now is sent to the address there is now.
SentTo(k) ==
  call[k].stage # "sent" /\ call'[k].stage = "sent" => call'[k].to = config

\* One call goes on, and is not sent now.
LEMMA OneNotSent ==
  ASSUME IInv, NEW k \in 1 .. MaxCalls, NEW c, c.stage # "sent",
         call' = [call EXCEPT ![k] = c]
  PROVE  \A j \in 1 .. MaxCalls : SentTo(j)
<1>1. /\ call'[k] = c
      /\ \A j \in (1 .. MaxCalls) \ {k} : call'[j] = call[j]
  BY DEF IInv, Types
<1>2. QED
  BY <1>1 DEF SentTo

\* No stage changes.
LEMMA DisturbNotSent ==
  ASSUME IInv, NEW id, Disturb(id)
  PROVE  \A j \in 1 .. MaxCalls : SentTo(j)
<1> SUFFICES ASSUME NEW j \in 1 .. MaxCalls PROVE SentTo(j)
  OBVIOUS
<1>1. PICK c \in CallRecords : c = call[j]
  BY CallOf
<1>2. PICK d : d = [c EXCEPT !.disturbed = TRUE] /\ d.stage = c.stage
  <2>1. [c EXCEPT !.disturbed = TRUE].stage = c.stage
    BY DEF CallRecords
  <2>2. QED
    BY <2>1
<1>3. call'[j] \in {c, d}
  BY <1>1, <1>2 DEF Disturb, IInv, Types
<1>4. QED
  BY <1>1, <1>2, <1>3 DEF SentTo

\* Only ToolCall sends, and the client it uses is the current one.
LEMMA ServeNotSent ==
  ASSUME IInv, NEW k \in 1 .. MaxCalls, Serve(k)
  PROVE  \A j \in 1 .. MaxCalls : SentTo(j)
<1>1. PICK c \in CallRecords : c = call[k]
  BY CallOf
<1>2. call \in [1 .. MaxCalls -> CallRecords]
  BY DEF IInv, Types
<1>3. CASE CloseWithin(k)
  <2>1. SUFFICES ASSUME NEW j \in 1 .. MaxCalls, call'[j].stage = "sent"
                 PROVE  call[j].stage = "sent"
    BY DEF SentTo
  <2>2. PICK b \in CallRecords : b = call[j]
    BY CallOf
  <2>3. PICK stage, flag :
          /\ stage = IF j = k THEN "closing" ELSE b.stage
          /\ call'[j] = [b EXCEPT !.stage = stage, !.disturbed = flag]
    BY <1>2, <1>3, <2>2 DEF CloseWithin
  <2>4. call'[j].stage = stage
    BY <2>3 DEF CallRecords
  <2>5. QED
    BY <2>1, <2>2, <2>3, <2>4
<1>4. CASE \E answer : Answered(k, answer)
  <2>1. PICK answer : Answered(k, answer)
    BY <1>4
  <2>2. PICK d : d = [c EXCEPT !.stage = "done", !.to = "none", !.answer = answer]
    OBVIOUS
  <2>3. call' = [call EXCEPT ![k] = d] /\ d.stage = "done"
    BY <1>1, <1>2, <2>1, <2>2 DEF Answered, CallRecords
  <2>4. QED
    BY <2>3, OneNotSent
<1>5. CASE \E answer : HandlerDone(k, answer)
  <2>1. PICK answer, said :
          call' = [call EXCEPT ![k] = [call[k] EXCEPT !.stage = "done", !.answer = said]]
    BY <1>5 DEF HandlerDone
  <2>2. PICK d : d = [c EXCEPT !.stage = "done", !.answer = said]
    OBVIOUS
  <2>3. call' = [call EXCEPT ![k] = d] /\ d.stage = "done"
    BY <1>1, <1>2, <2>1, <2>2 DEF CallRecords
  <2>4. QED
    BY <2>3, OneNotSent
<1>6. CASE \E by : Executing(k, by)
  <2>0. PICK by : Executing(k, by)
    BY <1>6
  <2>1. PICK stage \in {"executing", "calling"} :
          call' = [call EXCEPT ![k].stage = stage, ![k].handler = by]
    BY <2>0 DEF Executing
  <2>2. PICK d : d = [c EXCEPT !.stage = stage, !.handler = by]
    OBVIOUS
  <2>3. call' = [call EXCEPT ![k] = d] /\ d.stage = stage
    BY <1>1, <1>2, <2>1, <2>2 DEF CallRecords
  <2>4. QED
    BY <2>3, OneNotSent
<1>7. CASE call' = [call EXCEPT ![k].stage = "looking", ![k].to = "none"]
  <2>1. PICK d : d = [c EXCEPT !.stage = "looking", !.to = "none"]
    OBVIOUS
  <2>2. call' = [call EXCEPT ![k] = d] /\ d.stage = "looking"
    BY <1>1, <1>2, <1>7, <2>1 DEF CallRecords
  <2>3. QED
    BY <2>2, OneNotSent
<1>8. CASE call' = [call EXCEPT ![k].stage = "closed"]
  <2>1. PICK d : d = [c EXCEPT !.stage = "closed"]
    OBVIOUS
  <2>2. call' = [call EXCEPT ![k] = d] /\ d.stage = "closed"
    BY <1>1, <1>2, <1>8, <2>1 DEF CallRecords
  <2>3. QED
    BY <2>2, OneNotSent
<1>9. Deliver(k) => (\E answer : Answered(k, answer))
                      \/ call' = [call EXCEPT ![k].stage = "looking", ![k].to = "none"]
  BY DEF Deliver
<1>10. LookUp(k) => (\E by : Executing(k, by)) \/ \E answer : HandlerDone(k, answer)
  BY DEF LookUp
<1>11. HandlerReturns(k) => \E answer : HandlerDone(k, answer)
  BY DEF HandlerReturns
<1>12. ClosedWithin(k) => call' = [call EXCEPT ![k].stage = "closed"]
  BY DEF ClosedWithin
<1>13. QED
  BY <1>3, <1>4, <1>5, <1>6, <1>7, <1>8, <1>9, <1>10, <1>11, <1>12 DEF Serve

\* A tool is called at the current address.
LEMMA ToolCallSent ==
  ASSUME IInv, Cached, NEW k \in 1 .. MaxCalls, ToolCall(k)
  PROVE  Cached' /\ \A j \in 1 .. MaxCalls : SentTo(j)
<1>1. /\ client' = IF config = "none" \/ client # "none" THEN client ELSE config
      /\ config' = config
      /\ config # "none" => client' = config
  BY DEF ToolCall, Cached
<1>2. PICK c : /\ call' = [call EXCEPT ![k] = c]
               /\ c.stage = IF config = "none" THEN "done" ELSE "sent"
               /\ c.to = IF config = "none" THEN "none" ELSE client'
  <2>1. PICK id, tool :
          call' = [call EXCEPT ![k] = [NoCall EXCEPT
               !.stage = IF config = "none" THEN "done" ELSE "sent",
               !.answer = IF config = "none" THEN "unconfigured" ELSE "none",
               !.agent = id, !.tool = tool, !.by = attached[id].by,
               !.to = IF config = "none" THEN "none" ELSE client',
               !.disturbed = id \in disturbed]]
    BY DEF ToolCall
  <2>2. PICK c : c = [NoCall EXCEPT
               !.stage = IF config = "none" THEN "done" ELSE "sent",
               !.answer = IF config = "none" THEN "unconfigured" ELSE "none",
               !.agent = id, !.tool = tool, !.by = attached[id].by,
               !.to = IF config = "none" THEN "none" ELSE client',
               !.disturbed = id \in disturbed]
    OBVIOUS
  <2>3. /\ c.stage = IF config = "none" THEN "done" ELSE "sent"
        /\ c.to = IF config = "none" THEN "none" ELSE client'
    BY <2>2 DEF NoCall
  <2>4. QED
    BY <2>1, <2>2, <2>3
<1>3. /\ call'[k] = c
      /\ \A j \in (1 .. MaxCalls) \ {k} : call'[j] = call[j]
  BY <1>2 DEF IInv, Types
<1>4. \A j \in 1 .. MaxCalls : SentTo(j)
  BY <1>1, <1>2, <1>3 DEF SentTo
<1>5. Cached'
  BY <1>1 DEF Cached
<1>6. QED
  BY <1>4, <1>5

LEMMA NextSent ==
  ASSUME IInv, Cached, [Next]_vars
  PROVE  Cached' /\ \A k \in 1 .. MaxCalls : SentTo(k)
<1>1. call' = call => \A k \in 1 .. MaxCalls : SentTo(k)
  BY DEF SentTo
<1>2. UNCHANGED <<config, client>> => Cached'
  BY DEF Cached
<1>3. CASE UNCHANGED vars
  BY <1>1, <1>2, <1>3 DEF vars, bridgeVars
<1>4. CASE ServerClose
  <2>1. ASSUME NEW k \in 1 .. MaxCalls PROVE call'[k].stage = call[k].stage
    <3>1. PICK c \in CallRecords : c = call[k]
      BY CallOf
    <3>2. PICK d : d = [c EXCEPT !.answer = "unavailable"]
      OBVIOUS
    <3>3. d.stage = c.stage
      BY <3>2 DEF CallRecords
    <3>4. call'[k] \in {c, d}
      BY <1>4, <3>1, <3>2 DEF ServerClose, IInv, Types
    <3>5. QED
      BY <3>1, <3>3, <3>4
  <2>2. QED
    BY <1>2, <1>4, <2>1 DEF ServerClose, bridgeVars, SentTo
<1>5. ASSUME NEW n \in Ops,
             Create(n) \/ CreateRefused(n) \/ Resume(n) \/ Send(n) \/ Close(n)
               \/ CreateEnds(n) \/ ResumeEnds(n) \/ SendEnds(n) \/ CloseEnds(n)
      PROVE  Cached' /\ \A k \in 1 .. MaxCalls : SentTo(k)
  <2>1. UNCHANGED <<config, client>>
    BY <1>5 DEF Create, CreateRefused, Resume, Send, Close, CreateEnds, ResumeEnds, SendEnds,
       CloseEnds, Ends, bridgeVars
  <2>2. call' = call \/ \E id : Disturb(id)
    BY <1>5 DEF Create, CreateRefused, Resume, Send, Close, CreateEnds, ResumeEnds, SendEnds,
       CloseEnds, Overwrite, Settle
  <2>3. QED
    BY <1>1, <1>2, <2>1, <2>2, DisturbNotSent
<1>6. ASSUME NEW n \in Ops, Created(n) \/ Resumed(n) \/ Sent(n) \/ Closed(n) \/ Failed(n)
      PROVE  Cached' /\ \A k \in 1 .. MaxCalls : SentTo(k)
  BY <1>1, <1>2, <1>6 DEF Created, Resumed, Sent, Closed, Failed, Asked
<1>7. CASE RunEnds
  BY <1>1, <1>2, <1>7 DEF RunEnds
<1>8. CASE \E address \in {"ours", "other", "none"} : SetToolCallback(address)
  BY <1>1, <1>8 DEF SetToolCallback, Cached
<1>9. ASSUME NEW k \in 1 .. MaxCalls, ToolCall(k) \/ Serve(k)
      PROVE  Cached' /\ \A j \in 1 .. MaxCalls : SentTo(j)
  <2>1. CASE ToolCall(k)
    BY <2>1, ToolCallSent
  <2>2. CASE Serve(k)
    <3>1. UNCHANGED <<config, client>>
      BY <2>2 DEF Serve, Deliver, LookUp, CloseWithin, ClosedWithin, HandlerReturns, bridgeVars
    <3>2. QED
      BY <1>2, <2>2, <3>1, ServeNotSent
  <2>3. QED
    BY <1>9, <2>1, <2>2
<1>10. QED
  BY <1>3, <1>4, <1>5, <1>6, <1>7, <1>8, <1>9 DEF Next, Program, Bridge

\* A tool call goes to the callback address last given to the bridge, however
\* often the address changed while earlier calls kept a client
\* (setToolCallback and callHostCustomTool, bridge-custom-tools.ts).
THEOREM AddressIsCurrent == Spec => CurrentAddress
<1>1. Init => Cached
  BY DEF Init, Cached
<1>2. IInv /\ Cached /\ [Next]_vars => Cached'
  BY NextSent
<1>3. IInv /\ Cached /\ [Next]_vars
        => [\A k \in 1 .. MaxCalls :
              call[k].stage # "sent" /\ call'[k].stage = "sent" => call'[k].to = config]_vars
  BY NextSent DEF SentTo
<1>4. QED
  BY <1>1, <1>2, <1>3, InductiveInvariant, PTL DEF Spec, CurrentAddress

=============================================================================
