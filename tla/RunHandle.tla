------------------------------ MODULE RunHandle ------------------------------
(***************************************************************************)
(* The client's handle on one run (cursor/run.go): iterating its events,   *)
(* waiting for its result, cancelling it, listening to its status.         *)
(*                                                                         *)
(* The run itself lives behind the bridge.  Its items are its messages     *)
(* (SDK messages, which carry the run's id, and deltas and steps, which do *)
(* not), its result and its done marker.  StreamReader.Next gives them in  *)
(* order, and EOF before the last one only after an error (ConnectStream). *)
(* One goroutine, the reader, uses Events and Wait, in any order and       *)
(* leaving the iteration whenever it likes; a second one calls Cancel,     *)
(* OnStatusChange and the unsubscribe functions.  Sections under r.mu are  *)
(* one step each.                                                          *)
(***************************************************************************)
EXTENDS Naturals, SequencesExt

CONSTANTS
  Origins,      \* how handles are made: a subset of {"stream", "snapshot"}
  Listeners,    \* status listeners
  MaxMessages,  \* bound: messages of the run
  MaxAnswers    \* bound: calls of Wait that returned

ASSUME HandleBounds ==
  /\ Origins \subseteq {"stream", "snapshot"}
  /\ MaxMessages \in Nat /\ MaxAnswers \in Nat

\* terminalRunStatuses; "expired" is like the others for the handle.
Terminal == {"finished", "error", "cancelled"}
Statuses == {"running"} \union Terminal

VARIABLES
  run,         \* the run's status on the bridge
  produced,    \* messages the run has produced
  named,       \* those of them that carry the run's id
  origin,      \* newRunFromStream or newRunFromSnapshot
  status,      \* r.Status
  result,      \* r.terminalResult: its status, or "none"
  buffer,      \* r.buffer
  stream,      \* r.stream: "open", or "nil"
  known,       \* r.ID is set
  position,    \* items that Next has given
  failed,      \* Next has returned an error
  reader,      \* where the reader is
  waiting,     \* the reader is in Wait
  yielded,     \* items given to the loop bodies over Events, Wait's included
  handled,     \* items handleEvent has processed
  answers,     \* what Wait has returned
  cancel,      \* "none", "refused", "sent", or "lost": sent without an id
  listeners,   \* r.statusListeners
  index,       \* the idx captured by each listener's unsubscribe function
  wanted,      \* listeners registered and not unsubscribed by their owners
  removals,    \* calls of unsubscribe functions
  notified     \* the statuses each listener was called with

runVars == << run, produced, named >>
fields == << status, result, buffer, stream, known >>
readerVars == << origin, position, failed, reader, waiting, yielded, handled, answers >>
listenerVars == << listeners, index, wanted, removals >>
vars == << runVars, fields, readerVars, cancel, listenerVars, notified >>

\* A Send's handle reads one event before Send returns; a snapshot's has the
\* snapshot for its result, whatever its status.
Init ==
  /\ origin \in Origins
  /\ run \in IF origin = "stream" THEN {"running"} ELSE Statuses
  /\ produced = 0
  /\ named = {}
  /\ known = (origin = "snapshot")
  /\ status = run
  /\ result = IF origin = "stream" THEN "none" ELSE run
  /\ buffer = << >>
  /\ stream = IF origin = "stream" THEN "open" ELSE "nil"
  /\ position = 0
  /\ failed = FALSE
  /\ reader = IF origin = "stream" THEN "priming" ELSE "idle"
  /\ waiting = FALSE
  /\ yielded = << >>
  /\ handled = << >>
  /\ answers = << >>
  /\ cancel = "none"
  /\ listeners = << >>
  /\ index = [l \in Listeners |-> 0]
  /\ wanted = {}
  /\ removals = 0
  /\ notified = [l \in Listeners |-> << >>]

-----------------------------------------------------------------------------
(* The run behind the bridge.                                              *)

Produce ==
  /\ run = "running"
  /\ produced < MaxMessages
  /\ produced' = produced + 1
  /\ named' \in {named, named \union {produced + 1}}
  /\ UNCHANGED << run, fields, readerVars, cancel, listenerVars, notified >>

RunEnds ==
  /\ run = "running"
  /\ run' \in Terminal
  /\ UNCHANGED << produced, named, fields, readerVars, cancel, listenerVars, notified >>

Available == IF run = "running" THEN produced ELSE produced + 2

-----------------------------------------------------------------------------
(* Reading the stream.                                                     *)

Calls(l) == Cardinality({i \in DOMAIN listeners : listeners[i] = l})

\* Mutation of ApplyResult: the status field is left behind.
ApplyResultKeepsStatus(new) ==
  /\ result' = new
  /\ UNCHANGED << status, notified >>

\* applyResult: the listeners are called when the status changes.
ApplyResult(new) ==
  /\ status' = new
  /\ result' = new
  /\ notified' =
       IF new = status THEN notified
       ELSE [l \in Listeners |->
               notified[l] \o [i \in 1..Calls(l) |-> new]]

IsResult(item) == run # "running" /\ item = produced + 1

\* handleEvent, for the item at `position + 1'.
Handle ==
  /\ position' = position + 1
  /\ handled' = Append(handled, position + 1)
  /\ known' = (known \/ position + 1 \in named \/ IsResult(position + 1))
  /\ IF IsResult(position + 1)
     THEN ApplyResult(run)
     ELSE UNCHANGED << status, result, notified >>

\* Next gives an item, EOF, or an error; with no stream there is no event.
Item == stream = "open" /\ position < Available

NoEvent ==
  \/ stream = "nil" /\ UNCHANGED << stream, failed >>
  \/ /\ stream = "open"
     /\ failed \/ (run # "running" /\ position = produced + 2)
     /\ stream' = "nil"
     /\ UNCHANGED failed
  \/ stream = "open" /\ failed' = TRUE /\ UNCHANGED stream

Prime ==
  /\ reader = "priming"
  /\ Item
  /\ Handle
  /\ buffer' = Append(buffer, position + 1)
  /\ reader' = "idle"
  /\ UNCHANGED << runVars, stream, origin, failed, waiting, yielded, answers,
                  cancel, listenerVars >>

PrimeNothing ==
  /\ reader = "priming"
  /\ NoEvent
  /\ reader' = "idle"
  /\ UNCHANGED << runVars, status, result, buffer, known, origin, position, waiting,
                  yielded, handled, answers, cancel, listenerVars, notified >>

StartEvents ==
  /\ reader = "idle"
  /\ reader' = "drain"
  /\ waiting' = FALSE
  /\ UNCHANGED << runVars, fields, origin, position, failed, yielded, handled,
                  answers, cancel, listenerVars, notified >>

\* Mutation of Drain: the buffer is yielded but not emptied.
DrainKeepsBuffer ==
  /\ reader = "drain"
  /\ yielded' = yielded \o buffer
  /\ reader' = IF buffer = << >> THEN "next" ELSE "yielded"
  /\ UNCHANGED << runVars, fields, origin, position, failed, waiting, handled,
                  answers, cancel, listenerVars, notified >>

\* drainBuffer, and the loop body on what was buffered: at most one event.
Drain ==
  /\ reader = "drain"
  /\ yielded' = yielded \o buffer
  /\ buffer' = << >>
  /\ reader' = IF buffer = << >> THEN "next" ELSE "yielded"
  /\ UNCHANGED << runVars, status, result, stream, known, origin, position, failed,
                  waiting, handled, answers, cancel, listenerVars, notified >>

NextEvent ==
  /\ reader = "next"
  /\ Item
  /\ Handle
  /\ yielded' = Append(yielded, position + 1)
  /\ reader' = "yielded"
  /\ UNCHANGED << runVars, buffer, stream, origin, failed, waiting, answers,
                  cancel, listenerVars >>

Continue ==
  /\ reader = "yielded"
  /\ reader' = "next"
  /\ UNCHANGED << runVars, fields, origin, position, failed, waiting, yielded,
                  handled, answers, cancel, listenerVars, notified >>

\* The caller of Events leaves its loop; Wait does not.
Break ==
  /\ reader = "yielded"
  /\ ~waiting
  /\ reader' = "idle"
  /\ UNCHANGED << runVars, fields, origin, position, failed, waiting, yielded,
                  handled, answers, cancel, listenerVars, notified >>

-----------------------------------------------------------------------------
(* Wait.                                                                   *)

Answer(answer) ==
  /\ answers' = Append(answers, answer)
  /\ reader' = "idle"

\* Mutation of StartWait: it answers with the status field.
StartWaitAnswersStatus ==
  /\ reader = "idle"
  /\ Len(answers) < MaxAnswers
  /\ Answer(status)
  /\ UNCHANGED << runVars, fields, origin, position, failed, waiting, yielded,
                  handled, cancel, listenerVars, notified >>

StartWait ==
  /\ reader = "idle"
  /\ Len(answers) < MaxAnswers
  /\ IF result # "none"
     THEN Answer(result) /\ UNCHANGED waiting
     ELSE reader' = "drain" /\ waiting' = TRUE /\ UNCHANGED answers
  /\ UNCHANGED << runVars, fields, origin, position, failed, yielded, handled,
                  cancel, listenerVars, notified >>

\* Mutation of EventsEnd: Wait tries the stream again.
EventsEndRetries ==
  /\ reader = "next"
  /\ NoEvent
  /\ CASE ~waiting -> reader' = "idle" /\ UNCHANGED answers
       [] waiting /\ result # "none" -> Answer(result)
       [] waiting /\ result = "none" -> reader' = "drain" /\ UNCHANGED answers
  /\ UNCHANGED << runVars, status, result, buffer, known, origin, position,
                  waiting, yielded, handled, cancel, listenerVars, notified >>

\* The stream has no more events: a loop over Events is over, and Wait
\* answers with the result or asks the bridge.
EventsEnd ==
  /\ reader = "next"
  /\ NoEvent
  /\ CASE ~waiting -> reader' = "idle" /\ UNCHANGED answers
       [] waiting /\ result # "none" -> Answer(result)
       [] waiting /\ result = "none" -> reader' = "asking" /\ UNCHANGED answers
  /\ UNCHANGED << runVars, status, result, buffer, known, origin, position, waiting,
                  yielded, handled, cancel, listenerVars, notified >>

\* WaitLiveRun answers when the run has ended; the bridge knows no run
\* without an id.
WaitLiveRun ==
  /\ reader = "asking"
  /\ known
  /\ run # "running"
  /\ ApplyResult(run)
  /\ Answer(run)
  /\ UNCHANGED << runVars, buffer, stream, known, origin, position, failed,
                  waiting, yielded, handled, cancel, listenerVars >>

WaitLiveRunFails ==
  /\ reader = "asking"
  /\ Answer("failed")
  /\ UNCHANGED << runVars, fields, origin, position, failed, waiting, yielded,
                  handled, cancel, listenerVars, notified >>

-----------------------------------------------------------------------------
(* Cancel and the status listeners, from another goroutine.                *)

\* The handle exists once Send has primed it.
Exists == reader # "priming"

Cancel ==
  /\ Exists
  /\ cancel = "none"
  /\ cancel' = IF status \in Terminal THEN "refused"
               ELSE IF known THEN "sent" ELSE "lost"
  /\ UNCHANGED << runVars, fields, readerVars, listenerVars, notified >>

OnStatusChange(l) ==
  /\ Exists
  /\ index[l] = 0
  /\ listeners' = Append(listeners, l)
  /\ index' = [index EXCEPT ![l] = Len(listeners) + 1]
  /\ wanted' = wanted \union {l}
  /\ UNCHANGED << runVars, fields, readerVars, cancel, removals, notified >>

\* Mutation of Unsubscribe: the index is one too far.
UnsubscribeNext(l) ==
  /\ l \in wanted
  /\ listeners' =
       IF index[l] < Len(listeners) THEN RemoveAt(listeners, index[l] + 1)
       ELSE listeners
  /\ wanted' = wanted \ {l}
  /\ removals' = removals + 1
  /\ UNCHANGED << runVars, fields, readerVars, cancel, index, notified >>

\* The unsubscribe function removes whatever stands at the captured index.
Unsubscribe(l) ==
  /\ l \in wanted
  /\ listeners' =
       IF index[l] <= Len(listeners) THEN RemoveAt(listeners, index[l])
       ELSE listeners
  /\ wanted' = wanted \ {l}
  /\ removals' = removals + 1
  /\ UNCHANGED << runVars, fields, readerVars, cancel, index, notified >>

\* Nothing is left to do: the reader may stop calling, the run has ended.
Terminated ==
  /\ reader = "idle"
  /\ run # "running"
  /\ UNCHANGED vars

Run == Produce \/ RunEnds

Reader ==
  \/ Prime
  \/ PrimeNothing
  \/ Drain
  \/ NextEvent
  \/ Continue
  \/ EventsEnd
  \/ WaitLiveRun
  \/ WaitLiveRunFails

Caller ==
  \/ StartEvents
  \/ Break
  \/ StartWait
  \/ Cancel
  \/ \E l \in Listeners : OnStatusChange(l) \/ Unsubscribe(l)

Next == Run \/ Reader \/ Caller \/ Terminated

Spec == Init /\ [][Next]_vars

\* Runs end, streams and RPCs are answered, loop bodies return.
FairSpec == Spec /\ WF_vars(RunEnds) /\ WF_vars(Reader)

-----------------------------------------------------------------------------
(* Properties.                                                             *)

\* However a caller mixes partial iterations and Wait, the loop bodies are
\* given the items of the run one after another, from the first one on, each
\* once; and each was handled (its OnDelta or OnStep called, its result
\* applied) before it was given.
EventsOnce ==
  /\ \A i \in DOMAIN handled : handled[i] = i
  /\ Len(handled) = position
  /\ yielded \o buffer = handled

\* The handle's status is never ahead of the run, a terminal result is the
\* run's own and agrees with the status, and a Cancel refused because of it
\* concerns a run that has ended.
StatusTruth ==
  /\ status \in Terminal => status = run
  /\ result # "none" => result = status
  /\ cancel = "refused" => run \in Terminal

\* Every Wait that answers gives the run's terminal status, so no two of them
\* disagree, except on the handle of a snapshot taken while it was running,
\* whose Wait returns at once with that status, whatever run.go:187 says.
WaitAgrees ==
  \A i \in DOMAIN answers :
    answers[i] \in {run, "failed"} \/ (origin = "snapshot" /\ answers[i] = "running")

\* The listeners are those registered and not unsubscribed, until a second
\* unsubscribe; nobody is told of a status twice.
ListenersKept ==
  /\ removals <= 1 => ToSet(listeners) = wanted
  /\ \A l \in Listeners : Len(notified[l]) <= 1

\* A caller in Wait gets an answer once the run has ended.
WaitAnswers == waiting /\ reader # "idle" ~> reader = "idle"

\* "OnStatusChange registers a listener for status transitions." (run.go:98):
\* one that is not unsubscribed is told of a transition.
ListenersTold ==
  [][status' # status =>
       \A l \in wanted : Len(notified'[l]) = Len(notified[l]) + 1]_vars
=============================================================================
