--------------------------- MODULE RunStreamQueue ---------------------------
(***************************************************************************)
(* The RunStreamQueue class of bridge/src/sdk-service.ts: the buffer that  *)
(* merges SDK messages with onDelta and onStep callbacks of one run into   *)
(* one numbered stream.  A queue is a record and every method an operator  *)
(* from queues to queues, because one turn of the JavaScript event loop    *)
(* may call several methods before another actor runs.                     *)
(*                                                                         *)
(* A promise that `waiters' or `drainWaiters' will resolve is represented  *)
(* by the process that awaits it: the process is parked while its name is  *)
(* in the set and may continue once a notification has removed it.         *)
(***************************************************************************)
EXTENDS Naturals, Sequences

CONSTANTS
  HighWater,  \* RUN_STREAM_QUEUE_HIGH_WATER_MARK (1024 in the code)
  HardLimit   \* RUN_STREAM_QUEUE_HARD_LIMIT (4096 in the code)

ASSUME QueueLimits ==
  /\ HighWater \in Nat \ {0}
  /\ HardLimit \in Nat
  /\ HighWater <= HardLimit

Sources  == {"message", "delta", "step", "result", "done"}
Failures == {"none", "overflow", "stream"}

\* The events of a merged stream: `id' counts the events of a source.
Events == [offset: Nat, source: Sources, id: Nat]

Queues ==
  [pending: Seq(Events), offset: Nat, closed: BOOLEAN, failure: Failures,
   waiters: SUBSET {"consumer"}, drainWaiters: SUBSET {"producer"}]

EmptyQueue ==
  [pending |-> << >>, offset |-> 0, closed |-> FALSE, failure |-> "none",
   waiters |-> {}, drainWaiters |-> {}]

-----------------------------------------------------------------------------
Notify(q) == [q EXCEPT !.waiters = {}]

NotifyDrain(q) == [q EXCEPT !.drainWaiters = {}]

\* Not guarded by `closed': a later failure replaces an earlier one.
Fail(q, error) ==
  NotifyDrain(Notify([q EXCEPT !.failure = error, !.closed = TRUE]))

\* Mutation of Close: the parked producer is not woken.
CloseKeepsDrainWaiters(q) ==
  IF q.closed THEN q ELSE Notify([q EXCEPT !.closed = TRUE])

Close(q) ==
  IF q.closed THEN q ELSE NotifyDrain(Notify([q EXCEPT !.closed = TRUE]))

Full(q) == Len(q.pending) >= HardLimit

Accept(q, source, id) ==
  LET event == [offset |-> q.offset + 1, source |-> source, id |-> id]
  IN  Notify([q EXCEPT !.offset = @ + 1, !.pending = Append(@, event)])

\* Mutation of Enqueue: an event that finds the queue closed takes a number.
EnqueueNumbersDropped(q, source, id) ==
  CASE q.closed              -> [q EXCEPT !.offset = @ + 1]
    [] ~q.closed /\ Full(q)  -> Fail(q, "overflow")
    [] ~q.closed /\ ~Full(q) -> Accept(q, source, id)

\* Mutation of Enqueue: a full queue drops the event and stays open.
EnqueueDropsWhenFull(q, source, id) ==
  IF q.closed \/ Full(q) THEN q ELSE Accept(q, source, id)

Enqueue(q, source, id) ==
  CASE q.closed              -> q
    [] ~q.closed /\ Full(q)  -> Fail(q, "overflow")
    [] ~q.closed /\ ~Full(q) -> Accept(q, source, id)

\* Mutation of WaitForDrain: an off-by-one at the high-water mark.
WaitForDrainAboveMark(q, process) ==
  IF q.closed \/ Len(q.pending) <= HighWater
  THEN q
  ELSE [q EXCEPT !.drainWaiters = @ \union {process}]

WaitForDrain(q, process) ==
  IF q.closed \/ Len(q.pending) < HighWater
  THEN q
  ELSE [q EXCEPT !.drainWaiters = @ \union {process}]

\* Mutation of Shift: the producer is only woken by an empty queue.
ShiftWakesOnEmpty(q) ==
  LET rest == [q EXCEPT !.pending = Tail(@)]
  IN  IF rest.pending = << >> THEN NotifyDrain(rest) ELSE rest

\* The iterator's step on a non-empty queue; it yields Head(q.pending).
Shift(q) ==
  LET rest == [q EXCEPT !.pending = Tail(@)]
  IN  IF Len(rest.pending) < HighWater THEN NotifyDrain(rest) ELSE rest

\* Mutation of Park: the consumer registers on the other list.
ParkOnDrainWaiters(q, process) ==
  [q EXCEPT !.drainWaiters = @ \union {process}]

\* The iterator's step on an empty, open queue.
Park(q, process) == [q EXCEPT !.waiters = @ \union {process}]

=============================================================================
