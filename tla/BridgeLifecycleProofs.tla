------------------------ MODULE BridgeLifecycleProofs ------------------------
(***************************************************************************)
(* What a bridge process leaves behind, for any number of calls: the       *)
(* safety properties of BridgeLifecycle by one inductive invariant.        *)
(***************************************************************************)
EXTENDS BridgeLifecycle, TLAPS

CloserStates ==
  [at: {"no", "server", "dispose", "ended"}, todo: SUBSET Calls,
   busy: Calls \union {None}, failed: BOOLEAN]

TypeOK ==
  /\ launcher \in {"start", "discovering", "open", "shutdown", "aborting",
                   "stopping", "failed", "closed"}
  /\ proc \in {"none", "starting", "ready", "gone"}
  /\ exit \in {"none", "clean", "error", "killed"}
  /\ server \in {"up", "closing", "down"}
  /\ arrived \in Nat
  /\ calls \subseteq Calls
  /\ registered \subseteq made
  /\ closer \in [Closers -> CloserStates]
  /\ made \subseteq Calls

\* A process has an exit once it is gone, and one that Launch gave up or Close
\* has waited for is gone.
Exits ==
  /\ proc # "gone" <=> exit = "none"
  /\ launcher = "start" => proc = "none"
  /\ launcher \in {"failed", "closed"} => proc = "gone"

\* The server goes down with the first close, and with no call in flight.
Server ==
  /\ server = "up" => \A c \in Closers : closer[c].at = "no"
  /\ server = "down" => calls = {} /\ \E c \in Closers : closer[c].at # "no"

\* What a closer has not settled it still has to dispose of.
Covers(c) == made \subseteq settled \union closer[c].todo \union {closer[c].busy}

\* Disposals begin when the server is down, so that no agent is made any more,
\* and each closer disposes of every agent there ever was.
Closing ==
  /\ made \subseteq registered \union settled
  /\ \A c \in Closers :
       /\ closer[c].at = "dispose" => server = "down" /\ Covers(c)
       /\ closer[c].at = "ended" => server = "down" /\ made \subseteq settled

\* The inductive invariant.  The close of a process that is gone is of no
\* further interest, but for what it left.
IInv ==
  /\ TypeOK
  /\ Exits
  /\ Server
  /\ proc # "gone" => Closing
  /\ CleanExit
  /\ FailedExit

-----------------------------------------------------------------------------
\* Nothing has been closed before the launch.
LEMMA InitIInv == Init => IInv
  <1> SUFFICES ASSUME Init PROVE IInv
    OBVIOUS
  <1> USE DEF Init
  <1>1. NotClosing \in CloserStates
    BY DEF NotClosing, CloserStates
  <1>2. \A c \in Closers : closer[c] = NotClosing /\ NotClosing.at = "no"
    BY DEF NotClosing
  <1>3. TypeOK
    BY <1>1 DEF TypeOK
  <1>4. Exits /\ Server /\ Closing
    BY <1>2 DEF Exits, Server, Closing
  <1> QED
    BY <1>3, <1>4 DEF IInv, CleanExit, FailedExit

\* The Go side starts the process, signals it and kills it; it closes nothing
\* in the bridge.
LEMMA GoIInv == IInv /\ (Launch \/ Close \/ Go) => IInv'
  <1> SUFFICES ASSUME IInv, Launch \/ Close \/ Go PROVE IInv'
    OBVIOUS
  <1>1. UNCHANGED << server, registered, settled, closer, callVars >>
    BY DEF Launch, Close, Go, Discover, LaunchFails, PostShutdown, StopDone, Kill,
           goVars, osVars, nodeVars, callVars
  <1>2. /\ launcher' \in {"discovering", "open", "shutdown", "aborting", "stopping",
                          "failed", "closed"}
        /\ \/ UNCHANGED << proc, exit >>
           \/ proc' = "starting" /\ exit' = exit /\ proc = "none"
           \/ proc' = "gone" /\ exit' = "killed" /\ proc # "gone"
        /\ launcher' \in {"failed", "closed"} => proc' = "gone"
    BY DEF Launch, Close, Go, Discover, LaunchFails, PostShutdown, StopDone, Kill,
           Gone, Terminating, Terminated, goVars, osVars, nodeVars, IInv, Exits, TypeOK
  <1>3. TypeOK' /\ Exits'
    BY <1>1, <1>2 DEF IInv, TypeOK, Exits, callVars
  <1>4. Server' /\ (proc' # "gone" => Closing')
    BY <1>1, <1>2 DEF IInv, Server, Closing, Covers, callVars
  <1>5. CleanExit' /\ FailedExit'
    BY <1>1, <1>2 DEF IInv, CleanExit, FailedExit, callVars
  <1> QED
    BY <1>3, <1>4, <1>5 DEF IInv

\* The process starts, or dies before it has closed anything or in the middle.
LEMMA ProcessIInv == IInv /\ (Ready \/ Dies \/ SignalKills) => IInv'
  <1> SUFFICES ASSUME IInv, Ready \/ Dies \/ SignalKills PROVE IInv'
    OBVIOUS
  <1>1. UNCHANGED << launcher, server, registered, settled, closer, callVars >>
    BY DEF Ready, Dies, SignalKills, goVars, nodeVars, callVars
  <1>2. \/ proc' = "ready" /\ exit' = exit /\ proc = "starting"
        \/ proc' = "gone" /\ exit' = "killed" /\ proc \in {"starting", "ready"}
    BY DEF Ready, Dies, SignalKills, Gone
  <1>3. TypeOK' /\ Exits'
    BY <1>1, <1>2 DEF IInv, TypeOK, Exits, callVars
  <1>4. Server' /\ (proc' # "gone" => Closing')
    BY <1>1, <1>2 DEF IInv, Server, Closing, Covers, callVars
  <1>5. CleanExit' /\ FailedExit'
    BY <1>1, <1>2 DEF IInv, CleanExit, FailedExit, callVars
  <1> QED
    BY <1>3, <1>4, <1>5 DEF IInv

\* Calls come and go while the server is not down, so that no close has all
\* agents behind it.
LEMMA CallIInv ==
  ASSUME IInv, CallArrives \/ \E call \in Calls, registers \in BOOLEAN : CallEnds(call, registers)
  PROVE  IInv'
  <1>1. /\ proc = "ready" /\ server # "down"
        /\ UNCHANGED << launcher, proc, exit, server, settled, closer >>
    BY DEF CallArrives, CallEnds, goVars, osVars, nodeVars, IInv, Server
  <1>2. /\ calls' \subseteq Calls /\ arrived' \in Nat
        /\ registered' \subseteq made' /\ made' \subseteq Calls /\ made \subseteq made'
        /\ made' \subseteq registered' \union settled
    <2>1. CASE CallArrives
      <3>1. arrived + 1 \in Calls
        BY <2>1, LifecycleBounds DEF CallArrives, IInv, TypeOK, Calls
      <3>2. calls' = calls \union {arrived + 1} /\ arrived' = arrived + 1
            /\ UNCHANGED << registered, made >>
        BY <2>1 DEF CallArrives, nodeVars
      <3> QED
        BY <1>1, <3>1, <3>2 DEF IInv, TypeOK, Closing
    <2>2. ASSUME NEW call \in Calls, NEW registers \in BOOLEAN, CallEnds(call, registers)
          PROVE  /\ calls' \subseteq Calls /\ arrived' \in Nat
                 /\ registered' \subseteq made' /\ made' \subseteq Calls /\ made \subseteq made'
                 /\ made' \subseteq registered' \union settled
      BY <1>1, <2>2 DEF CallEnds, IInv, TypeOK, Closing
    <2> QED
      BY <2>1, <2>2
  <1>3. TypeOK' /\ Exits' /\ Server'
    BY <1>1, <1>2 DEF IInv, TypeOK, Exits, Server
  <1>4. Closing'
    BY <1>1, <1>2 DEF IInv, Closing, Covers
  <1>5. CleanExit' /\ FailedExit'
    BY <1>1, <1>3 DEF IInv, TypeOK, Exits, CleanExit, FailedExit
  <1> QED
    BY <1>3, <1>4, <1>5 DEF IInv

\* A close begins: the first one takes the server, any other one will be told
\* an error.
LEMMA BeginIInv == IInv /\ (TimerFires \/ SignalHandled) => IInv'
  <1> SUFFICES ASSUME IInv, NEW c \in Closers, BeginClose(c), proc = "ready",
                      UNCHANGED << launcher, proc, exit, registered, settled, callVars >>
               PROVE  IInv'
    BY DEF TimerFires, SignalHandled, goVars, osVars, Closers
  <1>1. UNCHANGED << arrived, calls, made >> /\ exit = "none"
    BY DEF callVars, IInv, Exits
  <1>2. PICK f \in BOOLEAN :
          /\ closer' = [closer EXCEPT ![c].at = "server", ![c].failed = f]
          /\ server' = IF server = "up" THEN "closing" ELSE server
    BY DEF BeginClose
  <1>3. closer' \in [Closers -> CloserStates]
    BY <1>2 DEF IInv, TypeOK, CloserStates
  <1>4. closer'[c].at = "server" /\ \A d \in Closers \ {c} : closer'[d] = closer[d]
    BY <1>2 DEF IInv, TypeOK, CloserStates
  <1>5. Server'
    BY <1>1, <1>2, <1>4 DEF IInv, TypeOK, Server
  <1>6. Closing'
    BY <1>1, <1>2, <1>4 DEF IInv, TypeOK, Server, Closing, Covers
  <1> QED
    BY <1>1, <1>2, <1>3, <1>5, <1>6 DEF IInv, TypeOK, Exits, CleanExit, FailedExit

\* The server is down, with no call in flight: the closer disposes of every
\* agent.
LEMMA ServerClosedIInv == ASSUME IInv, NEW c \in Closers, ServerClosed(c) PROVE IInv'
  <1>1. /\ closer' = [closer EXCEPT ![c].at = "dispose", ![c].todo = registered]
        /\ server' = "down" /\ calls = {} /\ proc = "ready"
        /\ UNCHANGED << launcher, proc, exit, registered, settled, arrived, calls, made >>
    BY DEF ServerClosed, goVars, osVars, callVars
  <1>2. closer' \in [Closers -> CloserStates]
    BY <1>1 DEF IInv, TypeOK, CloserStates
  <1>3. /\ closer'[c].at = "dispose" /\ closer'[c].todo = registered
        /\ \A d \in Closers \ {c} : closer'[d] = closer[d]
    BY <1>1 DEF IInv, TypeOK, CloserStates
  <1>4. Closing'
    BY <1>1, <1>3 DEF IInv, Closing, Covers
  <1> QED
    BY <1>1, <1>2, <1>3, <1>4 DEF IInv, TypeOK, Exits, Server, CleanExit, FailedExit

\* Each agent is to do, then being disposed of, then settled.
LEMMA DisposeIInv ==
  ASSUME IInv, NEW c \in Closers,
         (\E agent \in Calls : Dispose(c, agent)) \/ \E fails \in BOOLEAN : Disposed(c, fails)
  PROVE  IInv'
  <1> DEFINE Advanced ==
        /\ closer' \in [Closers -> CloserStates]
        /\ closer'[c].at = closer[c].at
        /\ Covers(c) => Covers(c)'
        /\ \A d \in Closers \ {c} : closer'[d] = closer[d]
  <1>1. /\ proc = "ready" /\ settled \subseteq settled'
        /\ UNCHANGED << launcher, proc, exit, server, registered, arrived, calls, made >>
    BY DEF Dispose, Disposed, goVars, osVars, callVars
  <1>2. Advanced
    <2>1. ASSUME NEW agent \in Calls, Dispose(c, agent)
          PROVE  Advanced
      <3>1. /\ closer' = [closer EXCEPT ![c].busy = agent, ![c].todo = @ \ {agent}]
            /\ closer[c].busy = None /\ agent \in closer[c].todo /\ settled' = settled
        BY <2>1 DEF Dispose
      <3>2. /\ closer'[c] = [closer[c] EXCEPT !.busy = agent, !.todo = @ \ {agent}]
            /\ \A d \in Closers \ {c} : closer'[d] = closer[d]
        BY <3>1 DEF IInv, TypeOK
      <3>3. closer' \in [Closers -> CloserStates]
        BY <3>1 DEF IInv, TypeOK, CloserStates
      <3> QED
        BY <3>1, <3>2, <3>3 DEF IInv, TypeOK, CloserStates, Covers, Calls, None
    <2>2. ASSUME NEW fails \in BOOLEAN, Disposed(c, fails)
          PROVE  Advanced
      <3>1. /\ closer' = [closer EXCEPT ![c].busy = None, ![c].failed = @ \/ fails]
            /\ settled' = settled \union {closer[c].busy}
        BY <2>2 DEF Disposed
      <3>2. /\ closer'[c] = [closer[c] EXCEPT !.busy = None, !.failed = @ \/ fails]
            /\ \A d \in Closers \ {c} : closer'[d] = closer[d]
        BY <3>1 DEF IInv, TypeOK
      <3>3. closer' \in [Closers -> CloserStates]
        BY <3>1 DEF IInv, TypeOK, CloserStates
      <3>4. closer[c] \in CloserStates
        BY DEF IInv, TypeOK
      <3>5. closer'[c].at = closer[c].at /\ closer'[c].todo = closer[c].todo
        BY <3>2, <3>4 DEF CloserStates
      <3>6. Covers(c) => Covers(c)'
        BY <1>1, <3>1, <3>5 DEF Covers
      <3> QED
        BY <3>2, <3>3, <3>5, <3>6
    <2> QED
      BY <2>1, <2>2
  <1>3. Closing'
    <2>1. \A d \in Closers : Covers(d) => Covers(d)'
      BY <1>1, <1>2 DEF Covers
    <2> QED
      BY <1>1, <1>2, <2>1 DEF IInv, Closing
  <1>4. Server'
    BY <1>1, <1>2 DEF IInv, Server
  <1> QED
    BY <1>1, <1>2, <1>3, <1>4
    DEF IInv, TypeOK, Exits, CleanExit, FailedExit, CloserStates

\* The process exits only after a close that settled what it had to.
LEMMA ExitIInv ==
  ASSUME IInv, IdleExit \/ \E c \in Closers : CloseEnds(c)
  PROVE  IInv'
  <1>1. CASE IdleExit
    <2>1. /\ proc = "ready" /\ proc' = "gone" /\ exit' = "clean" /\ server = "down"
          /\ UNCHANGED << launcher, server, registered, settled, closer, arrived, calls, made >>
      BY <1>1 DEF IdleExit, Gone, goVars, nodeVars, callVars
    <2>2. calls = {} /\ \E c \in Closers : closer[c].at = "ended"
      BY <1>1, <2>1 DEF IdleExit, IInv, Server
    <2>3. made \subseteq settled
      BY <2>1, <2>2 DEF IInv, Closing
    <2> QED
      BY <2>1, <2>2, <2>3 DEF IInv, TypeOK, Exits, Server, CleanExit, FailedExit
  <1>2. ASSUME NEW c \in Closers, CloseEnds(c)
        PROVE  IInv'
    <2>1. /\ proc = "ready" /\ closer[c].at = "dispose"
          /\ closer[c].todo = {} /\ closer[c].busy = None
          /\ closer' = [closer EXCEPT ![c].at = "ended"]
          /\ registered' = {}
          /\ UNCHANGED << launcher, server, settled, arrived, calls, made >>
      BY <1>2 DEF CloseEnds, FinishClose, goVars, callVars
    <2>2. \/ closer[c].failed /\ proc' = "gone" /\ exit' = "error"
          \/ ~closer[c].failed /\ proc' = "gone" /\ exit' = "clean"
          \/ ~closer[c].failed /\ UNCHANGED << proc, exit >>
      BY <1>2 DEF CloseEnds, FinishClose, Gone
    <2>3. closer' \in [Closers -> CloserStates]
      BY <2>1 DEF IInv, TypeOK, CloserStates
    <2>4. closer'[c].at = "ended" /\ \A d \in Closers \ {c} : closer'[d] = closer[d]
      BY <2>1 DEF IInv, TypeOK
    <2>5. server = "down" /\ calls = {} /\ made \subseteq settled
      BY <2>1 DEF IInv, TypeOK, Server, Closing, Covers, Calls, None
    <2>6. TypeOK' /\ Exits'
      BY <2>1, <2>2, <2>3 DEF IInv, TypeOK, Exits, CloserStates
    <2>7. Server' /\ CleanExit' /\ FailedExit'
      BY <2>1, <2>2, <2>4, <2>5 DEF IInv, Exits, Server, CleanExit, FailedExit
    <2>8. Closing'
      BY <2>1, <2>4, <2>5 DEF IInv, Closing, Covers
    <2> QED
      BY <2>6, <2>7, <2>8 DEF IInv
  <1> QED
    BY <1>1, <1>2

\* Every step preserves IInv.
LEMMA NextIInv == IInv /\ [Next]_vars => IInv'
  <1> SUFFICES ASSUME IInv, [Next]_vars PROVE IInv'
    OBVIOUS
  <1>1. CASE Launch \/ Close \/ Go
    BY <1>1, GoIInv
  <1>2. CASE Bridge
    BY <1>2, ProcessIInv, CallIInv, BeginIInv, ServerClosedIInv, DisposeIInv, ExitIInv
    DEF Bridge
  <1>3. CASE UNCHANGED vars
    BY <1>3 DEF vars, IInv, TypeOK, Exits, Server, Closing, Covers, CleanExit, FailedExit
  <1> QED
    BY <1>1, <1>2, <1>3 DEF Next, Finished

\* IInv is an invariant of the bridge's life.
THEOREM InductiveInvariant == Spec => []IInv
  BY InitIInv, NextIInv, PTL DEF Spec

\* No process outlives a Launch that failed or a Close that returned, wherever
\* the signal, the kill and the process's own death caught it.
THEOREM NothingOrphaned == Spec => []NoOrphanProcess
  <1>1. IInv => NoOrphanProcess
    BY DEF IInv, Exits, NoOrphanProcess
  <1> QED
    BY <1>1, InductiveInvariant, PTL

\* An exit with status 0 has cut no call and left no agent undisposed, however
\* the Shutdown call's close and the signal handler's overlap.
THEOREM ExitsCleanly == Spec => []CleanExit
  <1>1. IInv => CleanExit
    BY DEF IInv
  <1> QED
    BY <1>1, InductiveInvariant, PTL

\* Neither has an exit with an error: a second close that finds the server
\* closed, or a disposal that fails, ends the process only when all is settled.
THEOREM FailsOrderly == Spec => []FailedExit
  <1>1. IInv => FailedExit
    BY DEF IInv
  <1> QED
    BY <1>1, InductiveInvariant, PTL

=============================================================================
