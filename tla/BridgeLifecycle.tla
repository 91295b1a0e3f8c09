--------------------------- MODULE BridgeLifecycle ---------------------------
(***************************************************************************)
(* The life of a bridge process: Launch, readDiscovery, Close and          *)
(* terminate in the Go client (internal/bridge/bridge.go), the Shutdown    *)
(* call and the server's close in the bridge (bridge/src/server.ts) and    *)
(* its main program with the signal handler                                *)
(* (bridge/src/bin/cursor-sdk-bridge.ts).                                  *)
(*                                                                         *)
(* Close sends the Shutdown call and then SIGTERM, and each makes the      *)
(* bridge close its server and dispose of its agents: two closers run side *)
(* by side, with the calls that were in flight.                            *)
(***************************************************************************)
EXTENDS Naturals

CONSTANT MaxCalls  \* bound: calls of the client, each registers an agent or none

ASSUME LifecycleBounds == MaxCalls \in Nat

Calls == 1..MaxCalls
None == 0
Closers == {"rpc", "sigterm"}

VARIABLES
  launcher,    \* where the Go side is in Launch and Close
  proc,        \* the bridge process
  exit,        \* how it ended
  discovery,   \* the discovery line it printed
  timer,       \* the Shutdown call's setTimeout is due
  signal,      \* SIGTERM: "none", "sent", "taken"
  server,      \* the HTTP server: "up", "closing", "down"
  arrived,     \* calls so far
  calls,       \* calls in flight
  registered,  \* the agents in the registry, named by the call that made them
  settled,     \* agents of which a disposal has settled
  closer,      \* the two runs of handle.close
  made         \* history: every agent ever registered

vars == << launcher, proc, exit, discovery, timer, signal, server, arrived,
           calls, registered, settled, closer, made >>

goVars   == << launcher >>
nodeVars == << discovery, timer, server, registered, settled, closer >>
callVars == << arrived, calls, made >>
osVars   == << proc, exit, signal >>

NotClosing == [at |-> "no", todo |-> {}, busy |-> None, failed |-> FALSE]

Init ==
  /\ launcher = "start"
  /\ proc = "none"
  /\ exit = "none"
  /\ discovery = "none"
  /\ timer = FALSE
  /\ signal = "none"
  /\ server = "up"
  /\ arrived = 0
  /\ calls = {}
  /\ registered = {}
  /\ settled = {}
  /\ closer = [c \in Closers |-> NotClosing]
  /\ made = {}

-----------------------------------------------------------------------------
(* The Go client.                                                          *)

Launch ==
  /\ launcher = "start"
  /\ launcher' = "discovering"
  /\ proc' = "starting"
  /\ UNCHANGED << exit, signal, nodeVars, callVars >>

SendSignal == signal' = IF proc = "gone" THEN signal ELSE "sent"

\* readDiscovery returns a line that endpointFromDiscovery accepts.
Discover ==
  /\ launcher = "discovering"
  /\ discovery = "good"
  /\ launcher' = "open"
  /\ UNCHANGED << osVars, nodeVars, callVars >>

\* Launch fails and terminates the bridge: the discovery line is unusable,
\* stderr ended with the process, or some other line came and the deadline
\* or the context was found to be over.
LaunchFails ==
  /\ launcher = "discovering"
  /\ launcher' = "aborting"
  /\ SendSignal
  /\ UNCHANGED << proc, exit, nodeVars, callVars >>

Close ==
  /\ launcher = "open"
  /\ launcher' = "shutdown"
  /\ UNCHANGED << osVars, nodeVars, callVars >>

\* PostShutdown: the bridge answers and sets its timer, or nothing comes of it.
PostShutdown(arrives) ==
  /\ launcher = "shutdown"
  /\ arrives => proc = "ready" /\ server = "up"
  /\ launcher' = "stopping"
  /\ timer' = arrives
  /\ SendSignal
  /\ UNCHANGED << proc, exit, discovery, server, registered, settled, closer,
                  callVars >>

Terminating == launcher \in {"aborting", "stopping"}
Terminated(l) == IF l = "aborting" THEN "failed" ELSE "closed"

\* Mutation of StopDone: the process is not waited for.
StopDoneUnwaited ==
  /\ Terminating
  /\ launcher' = Terminated(launcher)
  /\ UNCHANGED << osVars, nodeVars, callVars >>

\* cmd.Wait has returned.
StopDone ==
  /\ Terminating
  /\ proc = "gone"
  /\ launcher' = Terminated(launcher)
  /\ UNCHANGED << osVars, nodeVars, callVars >>

Gone(how) ==
  /\ proc' = "gone"
  /\ exit' = how

\* Mutation of Kill: terminate has no time limit.
KillNever == FALSE /\ UNCHANGED vars

\* The five seconds are over.
Kill ==
  /\ Terminating
  /\ proc # "gone"
  /\ Gone("killed")
  /\ UNCHANGED << goVars, signal, nodeVars, callVars >>

-----------------------------------------------------------------------------
(* The bridge.                                                             *)

\* The server listens, the discovery line is printed and the signal handlers
\* are installed in one turn.
Ready ==
  /\ proc = "starting"
  /\ proc' = "ready"
  /\ discovery' \in {"good", "bad"}
  /\ UNCHANGED << goVars, exit, signal, timer, server, registered, settled,
                  closer, callVars >>

\* main rejects, or the process dies of itself at any time.
Dies ==
  /\ proc \in {"starting", "ready"}
  /\ Gone("killed")
  /\ UNCHANGED << goVars, signal, nodeVars, callVars >>

CallArrives ==
  /\ launcher \in {"open", "shutdown"}
  /\ proc = "ready" /\ server = "up"
  /\ arrived < MaxCalls
  /\ arrived' = arrived + 1
  /\ calls' = calls \union {arrived + 1}
  /\ UNCHANGED << goVars, osVars, nodeVars, made >>

\* A call ends; it was a createAgent or resumeAgent, or something else.
CallEnds(call, registers) ==
  /\ proc = "ready"
  /\ call \in calls
  /\ calls' = calls \ {call}
  /\ registered' = IF registers THEN registered \union {call} ELSE registered
  /\ made' = IF registers THEN made \union {call} ELSE made
  /\ UNCHANGED << goVars, osVars, discovery, timer, server, settled, closer,
                  arrived >>

\* Mutation of BeginClose: a server already closing is taken for closed.
BeginCloseTwice(c) ==
  \/ /\ server = "up"
     /\ server' = "closing"
     /\ closer' = [closer EXCEPT ![c].at = "server"]
  \/ /\ server # "up"
     /\ closer' = [closer EXCEPT ![c].at = "dispose", ![c].todo = registered]
     /\ UNCHANGED server

\* handle.close calls server.close, which calls back when the last connection
\* has ended; with an error if the server was closing or closed already.
BeginClose(c) ==
  /\ closer' = [closer EXCEPT ![c].at = "server", ![c].failed = server # "up"]
  /\ server' = IF server = "up" THEN "closing" ELSE server

TimerFires ==
  /\ proc = "ready"
  /\ timer
  /\ timer' = FALSE
  /\ BeginClose("rpc")
  /\ UNCHANGED << goVars, osVars, discovery, registered, settled, callVars >>

\* SIGTERM before the handler is installed ends the process.
SignalKills ==
  /\ proc = "starting"
  /\ signal = "sent"
  /\ signal' = "taken"
  /\ Gone("killed")
  /\ UNCHANGED << goVars, nodeVars, callVars >>

SignalHandled ==
  /\ proc = "ready"
  /\ signal = "sent"
  /\ signal' = "taken"
  /\ BeginClose("sigterm")
  /\ UNCHANGED << goVars, proc, exit, discovery, timer, registered, settled,
                  callVars >>

\* Mutation of ServerClosed: the error of server.close ends the process at once.
ServerClosedThrows(c) ==
  /\ proc = "ready"
  /\ closer[c].at = "server"
  /\ calls = {}
  /\ server' = "down"
  /\ IF closer[c].failed
     THEN Gone("error") /\ UNCHANGED closer
     ELSE /\ closer' = [closer EXCEPT ![c].at = "dispose", ![c].todo = registered]
          /\ UNCHANGED << proc, exit >>
  /\ UNCHANGED << goVars, signal, discovery, timer, registered, settled, callVars >>

\* The last connection has ended: server.close calls back, and the disposal
\* begins; an error is kept until the agents are disposed of.
ServerClosed(c) ==
  /\ proc = "ready"
  /\ closer[c].at = "server"
  /\ calls = {}
  /\ server' = "down"
  /\ closer' = [closer EXCEPT ![c].at = "dispose", ![c].todo = registered]
  /\ UNCHANGED << goVars, osVars, discovery, timer, registered, settled, callVars >>

\* registry.dispose: one agent after the other.
Dispose(c, agent) ==
  /\ proc = "ready"
  /\ closer[c].at = "dispose"
  /\ closer[c].busy = None
  /\ agent \in closer[c].todo
  /\ closer' = [closer EXCEPT ![c].busy = agent, ![c].todo = @ \ {agent}]
  /\ UNCHANGED << goVars, osVars, discovery, timer, server, registered,
                  settled, callVars >>

Disposed(c, fails) ==
  /\ proc = "ready"
  /\ closer[c].busy # None
  /\ settled' = settled \union {closer[c].busy}
  /\ closer' = [closer EXCEPT ![c].busy = None, ![c].failed = @ \/ fails]
  /\ UNCHANGED << goVars, osVars, discovery, timer, server, registered, callVars >>

\* The end of a close.  The signal handler exits; an error of the Shutdown
\* call's close is an unhandled rejection, which ends the process too.
FinishClose(c) ==
  /\ closer' = [closer EXCEPT ![c].at = "ended"]
  /\ registered' = {}
  /\ \/ /\ closer[c].failed
        /\ Gone("error")
     \/ /\ ~closer[c].failed
        /\ IF c = "sigterm" THEN Gone("clean") ELSE UNCHANGED << proc, exit >>
  /\ UNCHANGED << goVars, signal, discovery, timer, server, settled, callVars >>

CloseEnds(c) ==
  /\ proc = "ready"
  /\ closer[c].at = "dispose"
  /\ closer[c].todo = {} /\ closer[c].busy = None
  /\ FinishClose(c)

\* With the server down and no close running nothing keeps the process.
IdleExit ==
  /\ proc = "ready"
  /\ server = "down"
  /\ \A c \in Closers : closer[c].at \in {"no", "ended"}
  /\ Gone("clean")
  /\ UNCHANGED << goVars, signal, nodeVars, callVars >>

-----------------------------------------------------------------------------
Finished == launcher \in {"failed", "closed"} /\ UNCHANGED vars

Go ==
  \/ Discover
  \/ LaunchFails
  \/ \E arrives \in BOOLEAN : PostShutdown(arrives)
  \/ StopDone
  \/ Kill

Bridge ==
  \/ Ready
  \/ Dies
  \/ CallArrives
  \/ \E call \in Calls, registers \in BOOLEAN : CallEnds(call, registers)
  \/ TimerFires
  \/ SignalKills
  \/ SignalHandled
  \/ \E c \in Closers :
       \/ ServerClosed(c)
       \/ \E agent \in Calls : Dispose(c, agent)
       \/ \E fails \in BOOLEAN : Disposed(c, fails)
       \/ CloseEnds(c)
  \/ IdleExit

Next == Launch \/ Close \/ Go \/ Bridge \/ Finished

Spec == Init /\ [][Next]_vars

\* The Go side runs on: the Shutdown call has a timeout, and so has the wait
\* for the process.  Launch reads the line that is there, or the end of
\* stderr.  The bridge owes nothing, and may hang at any point.
Scans ==
  \/ Discover
  \/ LaunchFails /\ (discovery = "bad" \/ proc = "gone")

FairSpec ==
  /\ Spec
  /\ WF_vars(Scans)
  /\ WF_vars(\E arrives \in BOOLEAN : PostShutdown(arrives))
  /\ WF_vars(StopDone)
  /\ WF_vars(Kill)

-----------------------------------------------------------------------------
(* Properties.                                                             *)

\* When Launch has failed or Close has returned there is no bridge process
\* left, whatever state it was caught in.
NoOrphanProcess == launcher \in {"failed", "closed"} => proc = "gone"

\* A bridge that exits with status 0 has cut no call and left no agent
\* undisposed, although two closes may have run side by side.
CleanExit ==
  exit = "clean" => calls = {} /\ made \subseteq settled

\* Neither has one that exits with an error: not when a second close finds the
\* server closed, when a disposal fails, or when one of two closes ends the
\* process while the other still disposes of agents.
FailedExit ==
  exit = "error" => calls = {} /\ made \subseteq settled

\* Close returns even if the bridge hangs, and Launch returns once the bridge
\* has printed its discovery line or ended.
Returns ==
  /\ launcher = "shutdown" ~> launcher = "closed"
  /\ launcher = "discovering" /\ proc \in {"ready", "gone"}
       ~> launcher \in {"open", "shutdown", "stopping", "failed", "closed"}

\* "timed out waiting for bridge discovery" (bridge.go:180): Launch ends
\* within its timeout, whatever the bridge does.
LaunchReturns == launcher = "discovering" ~> launcher # "discovering"
=============================================================================
