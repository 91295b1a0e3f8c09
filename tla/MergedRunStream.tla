--------------------------- MODULE MergedRunStream ---------------------------
(***************************************************************************)
(* One merged Send stream of the bridge: the `send' handler with deltas or *)
(* steps enabled, and yieldMergedRunStream (bridge/src/sdk-service.ts).    *)
(*                                                                         *)
(* Three actors share the queue.  The SDK fires onDelta and onStep from    *)
(* the moment agent.send is called, before there is a run.  The producer   *)
(* pulls run.stream() and respects the queue's back-pressure.  The         *)
(* consumer is the generator the RPC server reads; the server may abandon  *)
(* it wherever it is suspended at a yield, and the generator then tears    *)
(* the producer down.  Each action is the code between two awaits.         *)
(***************************************************************************)
EXTENDS RunStreamQueue

CONSTANTS
  MaxMessages,  \* bound: SDK messages the run's stream yields
  MaxCallbacks  \* bound: onDelta and onStep calls the SDK makes

ASSUME StreamBounds == MaxMessages \in Nat /\ MaxCallbacks \in Nat

VARIABLES
  queue,      \* the RunStreamQueue of this Send
  producer,   \* where the producer is; "pull": a next() of the stream is due
  consumer,   \* where the generator read by the RPC server is
  stream,     \* run.stream(): "open", "returned" by the consumer, or "ended"
  streamed,   \* messages the stream has given the producer
  callbacks,  \* onDelta and onStep calls so far
  delivered,  \* the events yielded to the RPC server
  outcome     \* how the generator ended, "none" before that

vars == << queue, producer, consumer, stream, streamed, callbacks, delivered,
           outcome >>

ProducerStates == {"idle", "pull", "drain", "wait", "finished"}
ConsumerStates ==
  {"sending", "next", "yielded", "parked", "ending", "returning", "joining",
   "finished"}
StreamStates == {"open", "returned", "ended"}
Outcomes == {"none", "sendFailed", "abandoned", "ended", "overflow", "stream"}

TypeOK ==
  /\ queue \in Queues
  /\ producer \in ProducerStates
  /\ consumer \in ConsumerStates
  /\ stream \in StreamStates
  /\ streamed \in Nat
  /\ callbacks \in Nat
  /\ delivered \in Seq(Events)
  /\ outcome \in Outcomes

Init ==
  /\ queue = EmptyQueue
  /\ producer = "idle"
  /\ consumer = "sending"
  /\ stream = "open"
  /\ streamed = 0
  /\ callbacks = 0
  /\ delivered = << >>
  /\ outcome = "none"

-----------------------------------------------------------------------------
(* The SDK and agent.send.                                                 *)

\* onDelta or onStep: enqueue only, with no back-pressure.
Callback(source) ==
  /\ callbacks < MaxCallbacks
  /\ callbacks' = callbacks + 1
  /\ queue' = Enqueue(queue, source, callbacks + 1)
  /\ UNCHANGED << producer, consumer, stream, streamed, delivered, outcome >>

\* agent.send resolves: the producer starts and asks for the first message.
SendReturns ==
  /\ consumer = "sending"
  /\ consumer' = "next"
  /\ producer' = "pull"
  /\ UNCHANGED << queue, stream, streamed, callbacks, delivered, outcome >>

\* agent.send rejects: the handler throws and nobody reads the queue.
SendFails ==
  /\ consumer = "sending"
  /\ consumer' = "finished"
  /\ outcome' = "sendFailed"
  /\ UNCHANGED << queue, producer, stream, streamed, callbacks, delivered >>

-----------------------------------------------------------------------------
(* The producer.                                                           *)

\* A message arrives while the queue is open: enqueue, then waitForDrain.
ProducerMessage ==
  /\ producer = "pull"
  /\ stream = "open"
  /\ streamed < MaxMessages
  /\ ~queue.closed
  /\ streamed' = streamed + 1
  /\ queue' = WaitForDrain(Enqueue(queue, "message", streamed + 1), "producer")
  /\ producer' = "drain"
  /\ UNCHANGED << consumer, stream, callbacks, delivered, outcome >>

\* A message arrives after the queue was closed: leaving the loop returns
\* the stream.
ProducerLateMessage ==
  /\ producer = "pull"
  /\ stream = "open"
  /\ streamed < MaxMessages
  /\ queue.closed
  /\ streamed' = streamed + 1
  /\ producer' = "finished"
  /\ stream' = "returned"
  /\ UNCHANGED << queue, consumer, callbacks, delivered, outcome >>

ProducerDrained ==
  /\ producer = "drain"
  /\ "producer" \notin queue.drainWaiters
  /\ producer' = "pull"
  /\ UNCHANGED << queue, consumer, stream, streamed, callbacks, delivered,
                  outcome >>

\* The loop over the stream ends, by itself or because it was returned.
ProducerStreamEnds ==
  /\ producer = "pull"
  /\ stream \in {"open", "returned"}
  /\ stream' = "ended"
  /\ producer' = IF queue.closed THEN "finished" ELSE "wait"
  /\ UNCHANGED << queue, consumer, streamed, callbacks, delivered, outcome >>

ProducerStreamFails ==
  /\ producer = "pull"
  /\ stream = "open"
  /\ stream' = "ended"
  /\ queue' = Fail(queue, "stream")
  /\ producer' = "finished"
  /\ UNCHANGED << consumer, streamed, callbacks, delivered, outcome >>

\* Mutation of ProducerResult: the queue is closed before the end marker.
ProducerResultClosesEarly ==
  /\ producer = "wait"
  /\ queue' = Enqueue(Close(Enqueue(queue, "result", 1)), "done", 1)
  /\ producer' = "finished"
  /\ UNCHANGED << consumer, stream, streamed, callbacks, delivered, outcome >>

\* run.wait() resolves: result, done and close are one turn.
ProducerResult ==
  /\ producer = "wait"
  /\ queue' = Close(Enqueue(Enqueue(queue, "result", 1), "done", 1))
  /\ producer' = "finished"
  /\ UNCHANGED << consumer, stream, streamed, callbacks, delivered, outcome >>

ProducerWaitFails ==
  /\ producer = "wait"
  /\ queue' = Fail(queue, "stream")
  /\ producer' = "finished"
  /\ UNCHANGED << consumer, stream, streamed, callbacks, delivered, outcome >>

-----------------------------------------------------------------------------
(* The consumer.                                                           *)

ConsumerTake ==
  /\ consumer = "next"
  /\ queue.pending # << >>
  /\ delivered' = Append(delivered, Head(queue.pending))
  /\ queue' = Shift(queue)
  /\ consumer' = "yielded"
  /\ UNCHANGED << producer, stream, streamed, callbacks, outcome >>

\* The server wrote the event and asks for the next one.
ConsumerResume ==
  /\ consumer = "yielded"
  /\ consumer' = "next"
  /\ UNCHANGED << queue, producer, stream, streamed, callbacks, delivered,
                  outcome >>

\* The client is gone: the server returns the generator at its yield.
ConsumerAbandon ==
  /\ consumer = "yielded"
  /\ consumer' = "ending"
  /\ outcome' = "abandoned"
  /\ UNCHANGED << queue, producer, stream, streamed, callbacks, delivered >>

\* Mutation of ConsumerThrow: a failure overtakes the buffered events.
ConsumerThrowAtOnce ==
  /\ consumer = "next"
  /\ queue.failure # "none"
  /\ consumer' = "ending"
  /\ outcome' = queue.failure
  /\ UNCHANGED << queue, producer, stream, streamed, callbacks, delivered >>

ConsumerThrow ==
  /\ consumer = "next"
  /\ queue.pending = << >>
  /\ queue.failure # "none"
  /\ consumer' = "ending"
  /\ outcome' = queue.failure
  /\ UNCHANGED << queue, producer, stream, streamed, callbacks, delivered >>

ConsumerReturn ==
  /\ consumer = "next"
  /\ queue.pending = << >>
  /\ queue.failure = "none"
  /\ queue.closed
  /\ consumer' = "ending"
  /\ outcome' = "ended"
  /\ UNCHANGED << queue, producer, stream, streamed, callbacks, delivered >>

ConsumerPark ==
  /\ consumer = "next"
  /\ queue.pending = << >>
  /\ queue.failure = "none"
  /\ ~queue.closed
  /\ queue' = Park(queue, "consumer")
  /\ consumer' = "parked"
  /\ UNCHANGED << producer, stream, streamed, callbacks, delivered, outcome >>

ConsumerWake ==
  /\ consumer = "parked"
  /\ "consumer" \notin queue.waiters
  /\ consumer' = "next"
  /\ UNCHANGED << queue, producer, stream, streamed, callbacks, delivered,
                  outcome >>

\* finally: close the queue and call stream.return(), which waits behind a
\* next() of the producer that has not settled.
ConsumerFinally ==
  /\ consumer = "ending"
  /\ queue' = Close(queue)
  /\ stream' = IF producer = "pull" \/ stream = "ended" THEN stream
               ELSE "returned"
  /\ consumer' = "returning"
  /\ UNCHANGED << producer, streamed, callbacks, delivered, outcome >>

ConsumerReturned ==
  /\ consumer = "returning"
  /\ ~(producer = "pull" /\ stream = "open")
  /\ consumer' = "joining"
  /\ UNCHANGED << queue, producer, stream, streamed, callbacks, delivered,
                  outcome >>

\* Mutation of ConsumerJoin: the generator does not await its producer.
ConsumerJoinsNobody ==
  /\ consumer = "joining"
  /\ consumer' = "finished"
  /\ UNCHANGED << queue, producer, stream, streamed, callbacks, delivered,
                  outcome >>

ConsumerJoin ==
  /\ consumer = "joining"
  /\ producer = "finished"
  /\ consumer' = "finished"
  /\ UNCHANGED << queue, producer, stream, streamed, callbacks, delivered,
                  outcome >>

-----------------------------------------------------------------------------
\* The call is over; the SDK may still fire callbacks into a dead queue.
Terminated ==
  /\ consumer = "finished"
  /\ UNCHANGED vars

Sdk == (\E source \in {"delta", "step"} : Callback(source)) \/ SendReturns \/ SendFails

Producer ==
  \/ ProducerMessage
  \/ ProducerLateMessage
  \/ ProducerDrained
  \/ ProducerStreamEnds
  \/ ProducerStreamFails
  \/ ProducerResult
  \/ ProducerWaitFails

Consumer ==
  \/ ConsumerTake
  \/ ConsumerResume
  \/ ConsumerAbandon
  \/ ConsumerThrow
  \/ ConsumerReturn
  \/ ConsumerPark
  \/ ConsumerWake
  \/ ConsumerFinally
  \/ ConsumerReturned
  \/ ConsumerJoin

Next == Sdk \/ Producer \/ Consumer \/ Terminated

Spec == Init /\ [][Next]_vars

\* Promises of the SDK settle, ready continuations run, and the server ends
\* every suspension of the generator.  Callbacks owe nothing.
Fairness ==
  /\ WF_vars(SendReturns \/ SendFails)
  /\ WF_vars(Producer)
  /\ WF_vars(Consumer)

FairSpec == Spec /\ Fairness

=============================================================================
