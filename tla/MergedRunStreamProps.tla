------------------------- MODULE MergedRunStreamProps -------------------------
(***************************************************************************)
(* The correctness properties of one merged Send stream.                   *)
(***************************************************************************)
EXTENDS MergedRunStream, FiniteSets

\* Everything numbered so far, read or not.
Accepted == delivered \o queue.pending

OfSource(events, sources) ==
  {i \in DOMAIN events : events[i].source \in sources}

\* The offsets the reader sees are 1, 2, 3, ... with no gap, repetition or
\* reordering, and the queue continues exactly where the reader stands, for
\* every interleaving of callbacks, messages and reads (enqueue takes
\* `this.offset', the iterator shifts).
GapFreeOffsets ==
  /\ queue.offset = Len(delivered) + Len(queue.pending)
  /\ \A i \in 1..Len(delivered) : delivered[i].offset = i
  /\ \A i \in 1..Len(queue.pending) :
       queue.pending[i].offset = Len(delivered) + i

\* Buffered memory is bounded: the hard limit holds for everything, and
\* back-pressure alone keeps SDK messages at the high-water mark even while
\* callbacks that ignore back-pressure refill the queue (waitForDrain).
BoundedBuffer ==
  /\ Len(queue.pending) <= HardLimit
  /\ Cardinality(OfSource(queue.pending, {"message"})) <= HighWater

\* Nobody sleeps through a wake-up: a consumer parked on `waiters' has
\* nothing to read and no end to report, a producer parked on `drainWaiters'
\* faces an open queue at or over the high-water mark.
NoLostWakeup ==
  /\ "consumer" \in queue.waiters =>
       /\ consumer = "parked"
       /\ queue.pending = << >>
       /\ ~queue.closed
  /\ "producer" \in queue.drainWaiters =>
       /\ producer = "drain"
       /\ Len(queue.pending) >= HighWater
       /\ ~queue.closed

\* Each source's events are accepted in the order it produced them and from
\* the first one on: merging drops only what comes after the close.
SourceOrder ==
  \A sources \in {{"message"}, {"delta", "step"}, {"result"}, {"done"}} :
    \A i \in OfSource(Accepted, sources) :
      Accepted[i].id = Cardinality({j \in OfSource(Accepted, sources) : j <= i})

\* A clean end is a complete one: the reader of a stream that ended without
\* an error got every message the SDK streamed, then the result, then done;
\* an error reaches the reader only after everything accepted before it.
HonestEnd ==
  /\ outcome \in {"ended", "overflow", "stream"} => queue.pending = << >>
  /\ outcome = "ended" =>
       /\ queue.failure = "none"
       /\ Cardinality(OfSource(delivered, {"message"})) = streamed
       /\ Len(delivered) >= 2
       /\ delivered[Len(delivered)].source = "done"
       /\ delivered[Len(delivered) - 1].source = "result"

\* When the generator has finished no producer is left behind: it is done
\* pulling and the SDK's stream is over (finally awaits it).
NoOrphanProducer ==
  consumer = "finished" =>
    \/ outcome = "sendFailed"
    \/ producer = "finished" /\ stream # "open" /\ queue.closed

\* However the run, the callbacks and the client behave, the generator and
\* its producer finish once the SDK's promises settle (the teardown cannot
\* wait for itself).
Terminates == <>(consumer = "finished" /\ producer \in {"idle", "finished"})

\* The reader's view of the stream.
Status ==
  IF outcome = "none" THEN "open"
  ELSE IF outcome \in {"sendFailed", "abandoned"} THEN "abandoned"
  ELSE IF outcome = "ended" THEN "ended"
  ELSE "failed"

Abstract == INSTANCE OrderedRunStream WITH
  Payloads <- Sources,
  log <- Accepted,
  read <- Len(delivered),
  sealed <- queue.closed,
  broken <- queue.failure # "none",
  status <- Status

\* A merged Send stream is an ordered run stream: numbered, read in order,
\* ended cleanly only after result and done, failed only after the rest.
ImplementsOrderedRunStream == Abstract!AbsSpec

=============================================================================
