------------------------- MODULE MergedRunStreamProofs -------------------------
(***************************************************************************)
(* Theorems about every merged Send stream, whatever the queue's limits    *)
(* and however many messages and callbacks the SDK produces.               *)
(*                                                                         *)
(* Five parts: what each method of RunStreamQueue preserves; the queue and *)
(* the processes that share it (IInv); how the stream ends (Honest); what  *)
(* the log holds of each source (OInv); and that the stream implements     *)
(* OrderedRunStream.                                                       *)
(***************************************************************************)
EXTENDS MergedRunStreamProps, SequenceTheorems, FiniteSetTheorems, TLAPS

-----------------------------------------------------------------------------
(* The methods of RunStreamQueue, for every queue there can be.            *)

\* A reader that has taken n events finds the next numbers in the queue.
Numbered(q, n) ==
  /\ q.offset = n + Len(q.pending)
  /\ \A i \in 1..Len(q.pending) : q.pending[i].offset = n + i

\* Only a process with nothing to do is parked.
Awake(q) ==
  /\ "consumer" \in q.waiters => q.pending = << >> /\ ~q.closed
  /\ "producer" \in q.drainWaiters => Len(q.pending) >= HighWater /\ ~q.closed

\* A failed queue is closed.
FailureCloses(q) == q.failure # "none" => q.closed

\* The conjunction that holds of the queue between any two methods.
Sound(q, n) ==
  /\ q \in Queues
  /\ Numbered(q, n)
  /\ Awake(q)
  /\ FailureCloses(q)
  /\ Len(q.pending) <= HardLimit

-----------------------------------------------------------------------------
\* The constructor makes a sound queue.
LEMMA EmptyQueueSound == Sound(EmptyQueue, 0)
  BY QueueLimits DEF Sound, Queues, EmptyQueue, Numbered, Awake,
     FailureCloses, Failures

\* fail() keeps a queue sound: it wakes everybody it closes the queue for.
LEMMA FailSound ==
  ASSUME NEW q, NEW n \in Nat, Sound(q, n),
         NEW error \in Failures
  PROVE  Sound(Fail(q, error), n)
  BY QueueLimits DEF Sound, Queues, Numbered, Awake, FailureCloses, Fail,
     Notify, NotifyDrain

\* close() keeps a queue sound.
LEMMA CloseSound ==
  ASSUME NEW q, NEW n \in Nat, Sound(q, n)
  PROVE  Sound(Close(q), n)
  BY QueueLimits DEF Sound, Queues, Numbered, Awake, FailureCloses, Close,
     Notify, NotifyDrain

\* After close() the queue is closed, and its contents are what they were.
LEMMA CloseCloses ==
  ASSUME NEW q \in Queues
  PROVE  /\ Close(q).closed
         /\ Close(q).pending = q.pending
         /\ Close(q).failure = q.failure
         /\ Close(q).offset = q.offset
  BY DEF Queues, Close, Notify, NotifyDrain

\* Accepting an event below the hard limit keeps a queue sound.
LEMMA AcceptSound ==
  ASSUME NEW q, NEW n \in Nat, Sound(q, n),
         NEW source \in Sources, NEW id \in Nat,
         ~q.closed, ~Full(q)
  PROVE  Sound(Accept(q, source, id), n)
<1> DEFINE event == [offset |-> q.offset + 1, source |-> source, id |-> id]
           r == Accept(q, source, id)
<1>1. /\ q \in Queues /\ q.pending \in Seq(Events) /\ q.offset \in Nat
      /\ Len(q.pending) \in Nat
  BY DEF Sound, Queues
<1>2. event \in Events
  BY <1>1 DEF Events
<1>3. /\ r.pending = Append(q.pending, event)
      /\ r.offset = q.offset + 1
      /\ r.closed = q.closed
      /\ r.failure = q.failure
      /\ r.waiters = {}
      /\ r.drainWaiters = q.drainWaiters
  BY <1>1 DEF Accept, Notify, Queues
<1>4. Len(r.pending) = Len(q.pending) + 1
  BY <1>1, <1>2, <1>3
<1>5. r \in Queues
  <2>1. Append(q.pending, event) \in Seq(Events) /\ q.offset + 1 \in Nat
    BY <1>1, <1>2
  <2> HIDE DEF event
  <2>2. QED
    BY <1>1, <2>1 DEF Accept, Notify, Queues, event
<1> HIDE DEF r
<1>6. Numbered(r, n)
  <2>1. \A i \in 1..Len(q.pending) : r.pending[i] = q.pending[i]
    BY <1>1, <1>2, <1>3
  <2>2. r.pending[Len(q.pending) + 1] = event
    BY <1>1, <1>2, <1>3
  <2>3. event.offset = n + (Len(q.pending) + 1)
    BY <1>1 DEF Sound, Numbered
  <2> HIDE DEF event
  <2>4. ASSUME NEW i \in 1..Len(r.pending)
        PROVE  r.pending[i].offset = n + i
    <3>1. CASE i = Len(q.pending) + 1
      BY <2>2, <2>3, <3>1
    <3>2. CASE i # Len(q.pending) + 1
      <4>1. i \in 1..Len(q.pending)
        BY <1>1, <1>4, <3>2
      <4>2. QED
        BY <2>1, <4>1 DEF Sound, Numbered
    <3>3. QED
      BY <3>1, <3>2
  <2>5. r.offset = n + Len(r.pending)
    BY <1>1, <1>3, <1>4 DEF Sound, Numbered
  <2>6. QED
    BY <2>4, <2>5 DEF Numbered
<1>7. Awake(r)
  BY <1>1, <1>3, <1>4, QueueLimits DEF Sound, Awake
<1>8. FailureCloses(r) /\ Len(r.pending) <= HardLimit
  BY <1>1, <1>3, <1>4, QueueLimits DEF Sound, FailureCloses, Full
<1>9. QED
  BY <1>5, <1>6, <1>7, <1>8 DEF Sound, r

\* enqueue() keeps a queue sound whatever state it finds it in.
LEMMA EnqueueSound ==
  ASSUME NEW q, NEW n \in Nat, Sound(q, n),
         NEW source \in Sources, NEW id \in Nat
  PROVE  Sound(Enqueue(q, source, id), n)
<1>1. q.closed \in BOOLEAN
  BY DEF Sound, Queues
<1>2. CASE q.closed
  BY <1>2 DEF Enqueue
<1>3. CASE ~q.closed /\ Full(q)
  BY <1>3, FailSound DEF Enqueue, Failures
<1>4. CASE ~q.closed /\ ~Full(q)
  BY <1>4, AcceptSound DEF Enqueue
<1>5. QED
  BY <1>1, <1>2, <1>3, <1>4

\* waitForDrain() keeps a queue sound: it parks the producer only on an open
\* queue at or over the mark.
LEMMA WaitForDrainSound ==
  ASSUME NEW q, NEW n \in Nat, Sound(q, n)
  PROVE  Sound(WaitForDrain(q, "producer"), n)
<1>1. CASE q.closed \/ Len(q.pending) < HighWater
  BY <1>1 DEF WaitForDrain
<1>2. CASE ~(q.closed \/ Len(q.pending) < HighWater)
  <2> DEFINE r == [q EXCEPT !.drainWaiters = @ \union {"producer"}]
  <2>1. r \in Queues /\ q \in Queues
    BY DEF Sound, Queues
  <2>2. /\ r.pending = q.pending /\ r.offset = q.offset
        /\ r.closed = q.closed /\ r.failure = q.failure
        /\ r.waiters = q.waiters
    BY <2>1 DEF Queues
  <2>3. WaitForDrain(q, "producer") = r
    BY <1>2 DEF WaitForDrain
  <2> HIDE DEF r
  <2>4. Len(q.pending) \in Nat /\ Len(q.pending) >= HighWater /\ ~q.closed
    BY <1>2, <2>1, QueueLimits DEF Queues
  <2>5. QED
    BY <2>1, <2>2, <2>3, <2>4 DEF Sound, Numbered, Awake, FailureCloses
<1>3. QED
  BY <1>1, <1>2

\* Parking the consumer keeps an empty open queue sound.
LEMMA ParkSound ==
  ASSUME NEW q, NEW n \in Nat, Sound(q, n), q.pending = << >>, ~q.closed
  PROVE  Sound(Park(q, "consumer"), n)
  BY QueueLimits DEF Sound, Queues, Numbered, Awake, FailureCloses, Park

\* Taking the first event moves the reader on by one and wakes the producer
\* as soon as the queue is below the mark.
LEMMA ShiftSound ==
  ASSUME NEW q, NEW n \in Nat, Sound(q, n), q.pending # << >>
  PROVE  /\ Sound(Shift(q), n + 1)
         /\ Head(q.pending) \in Events
         /\ Head(q.pending).offset = n + 1
<1> DEFINE r == Shift(q)
<1>1. /\ q \in Queues /\ q.pending \in Seq(Events) /\ q.offset \in Nat
      /\ Len(q.pending) \in Nat /\ Len(q.pending) >= 1
  BY DEF Sound, Queues
<1>2. /\ r.pending = Tail(q.pending)
      /\ r.offset = q.offset
      /\ r.closed = q.closed
      /\ r.failure = q.failure
      /\ r.waiters = q.waiters
      /\ r.drainWaiters \in {{}, q.drainWaiters}
      /\ Len(Tail(q.pending)) < HighWater => r.drainWaiters = {}
  BY <1>1 DEF Shift, NotifyDrain, Queues
<1>3. /\ Len(r.pending) = Len(q.pending) - 1
      /\ Tail(q.pending) \in Seq(Events)
      /\ \A i \in 1..Len(r.pending) : r.pending[i] = q.pending[i + 1]
  BY <1>1, <1>2
<1>4. r \in Queues
  <2>1. CASE Len(Tail(q.pending)) < HighWater
    BY <1>1, <1>3, <2>1 DEF Shift, NotifyDrain, Queues
  <2>2. CASE ~(Len(Tail(q.pending)) < HighWater)
    BY <1>1, <1>3, <2>2 DEF Shift, NotifyDrain, Queues
  <2>3. QED
    BY <2>1, <2>2
<1> HIDE DEF r
<1>5. Numbered(r, n + 1)
  <2>1. ASSUME NEW i \in 1..Len(r.pending)
        PROVE  r.pending[i].offset = n + 1 + i
    <3>1. i + 1 \in 1..Len(q.pending)
      BY <1>1, <1>3
    <3>2. r.pending[i] = q.pending[i + 1]
      BY <1>3
    <3>3. q.pending[i + 1].offset = n + (i + 1)
      BY <3>1 DEF Sound, Numbered
    <3>4. QED
      BY <3>2, <3>3
  <2>2. r.offset = n + 1 + Len(r.pending)
    <3>1. q.offset = n + Len(q.pending)
      BY DEF Sound, Numbered
    <3>2. r.offset = q.offset /\ Len(r.pending) = Len(q.pending) - 1
      BY <1>2, <1>3
    <3> DEFINE length == Len(q.pending)
    <3>3. length \in Nat /\ q.offset = n + length /\ Len(r.pending) = length - 1
      BY <1>1, <3>1, <3>2
    <3> HIDE DEF length
    <3>4. n + length = n + 1 + (length - 1)
      BY <3>3
    <3>5. QED
      BY <3>2, <3>3, <3>4
  <2>3. QED
    BY <2>1, <2>2 DEF Numbered
<1>6. Awake(r)
  BY <1>1, <1>2, <1>3, QueueLimits DEF Sound, Awake
<1>7. FailureCloses(r) /\ Len(r.pending) <= HardLimit
  BY <1>1, <1>2, <1>3, QueueLimits DEF Sound, FailureCloses
<1>8. /\ Head(q.pending) = q.pending[1]
      /\ q.pending[1] \in Events
      /\ q.pending[1].offset = n + 1
  BY <1>1 DEF Sound, Numbered
<1>9. QED
  BY <1>4, <1>5, <1>6, <1>7, <1>8 DEF Sound, r

-----------------------------------------------------------------------------
(* The queue, the producer and the consumer.                               *)

\* Where the processes stand with respect to the queue and the stream.
Control ==
  /\ "consumer" \in queue.waiters => consumer = "parked"
  /\ "producer" \in queue.drainWaiters => producer = "drain"
  /\ producer \in {"wait", "finished"} => stream # "open"
  /\ producer = "finished" => queue.closed
  /\ consumer = "sending" => producer = "idle"
  /\ consumer \in {"returning", "joining"} =>
       /\ queue.closed
       /\ stream = "open" => producer = "pull"
  /\ consumer = "finished" =>
       outcome = "sendFailed" \/ producer = "finished"

\* The inductive invariant: a sound queue, numbered from where its reader
\* stands, and processes that agree with it.
IInv ==
  /\ TypeOK
  /\ Sound(queue, Len(delivered))
  /\ \A i \in 1..Len(delivered) : delivered[i].offset = i
  /\ Control

-----------------------------------------------------------------------------
\* Every event source is one that events carry.
LEMMA SourcesOfSteps ==
  /\ "message" \in Sources /\ "delta" \in Sources /\ "step" \in Sources
  /\ "result" \in Sources /\ "done" \in Sources
  BY DEF Sources

\* How the methods move the waiters and the close flag, which Control reads.
LEMMA MethodsOnControl ==
  ASSUME NEW q \in Queues, NEW source, NEW id, NEW error
  PROVE  /\ Enqueue(q, source, id).waiters \subseteq q.waiters
         /\ Enqueue(q, source, id).drainWaiters \subseteq q.drainWaiters
         /\ q.closed => Enqueue(q, source, id) = q
         /\ Fail(q, error).waiters = {}
         /\ Fail(q, error).drainWaiters = {}
         /\ Fail(q, error).closed
         /\ Close(q).waiters \subseteq q.waiters
         /\ Close(q).drainWaiters \subseteq q.drainWaiters
         /\ Close(q).closed
         /\ Shift(q).waiters = q.waiters
         /\ Shift(q).drainWaiters \subseteq q.drainWaiters
         /\ Shift(q).closed = q.closed
         /\ WaitForDrain(q, "producer").waiters = q.waiters
         /\ WaitForDrain(q, "producer").closed = q.closed
         /\ Park(q, "consumer").drainWaiters = q.drainWaiters
         /\ Park(q, "consumer").closed = q.closed
<1>1. /\ Fail(q, error).waiters = {}
      /\ Fail(q, error).drainWaiters = {}
      /\ Fail(q, error).closed
  BY DEF Fail, Notify, NotifyDrain, Queues
<1>2. /\ Enqueue(q, source, id).waiters \subseteq q.waiters
      /\ Enqueue(q, source, id).drainWaiters \subseteq q.drainWaiters
      /\ q.closed => Enqueue(q, source, id) = q
  <2>1. q.closed \in BOOLEAN
    BY DEF Queues
  <2>2. CASE q.closed
    BY <2>2 DEF Enqueue
  <2>3. CASE ~q.closed /\ Full(q)
    BY <2>3 DEF Enqueue, Fail, Notify, NotifyDrain, Queues
  <2>4. CASE ~q.closed /\ ~Full(q)
    <3>1. Enqueue(q, source, id) = Accept(q, source, id)
      BY <2>4 DEF Enqueue
    <3>2. /\ Accept(q, source, id).waiters = {}
          /\ Accept(q, source, id).drainWaiters = q.drainWaiters
      BY DEF Accept, Notify, Queues
    <3>3. QED
      BY <2>4, <3>1, <3>2
  <2>5. QED
    BY <2>1, <2>2, <2>3, <2>4
<1>3. /\ Close(q).waiters \subseteq q.waiters
      /\ Close(q).drainWaiters \subseteq q.drainWaiters
      /\ Close(q).closed
  BY DEF Close, Notify, NotifyDrain, Queues
<1>4. /\ Shift(q).waiters = q.waiters
      /\ Shift(q).drainWaiters \subseteq q.drainWaiters
      /\ Shift(q).closed = q.closed
  BY DEF Shift, NotifyDrain, Queues
<1>5. /\ WaitForDrain(q, "producer").waiters = q.waiters
      /\ WaitForDrain(q, "producer").closed = q.closed
  BY DEF WaitForDrain, Queues
<1>6. /\ Park(q, "consumer").drainWaiters = q.drainWaiters
      /\ Park(q, "consumer").closed = q.closed
  BY DEF Park, Queues
<1>7. QED
  BY <1>1, <1>2, <1>3, <1>4, <1>5, <1>6

-----------------------------------------------------------------------------
\* The initial state is a sound, empty queue that nobody waits for.
LEMMA InitIInv == Init => IInv
<1> SUFFICES ASSUME Init PROVE IInv
  OBVIOUS
<1>1. delivered = << >> /\ Len(delivered) = 0
  BY DEF Init
<1>2. Sound(queue, Len(delivered))
  BY <1>1, EmptyQueueSound DEF Init
<1>3. TypeOK
  BY <1>2 DEF Init, TypeOK, Sound, ProducerStates, ConsumerStates,
     StreamStates, Outcomes
<1>4. Control
  BY DEF Init, Control, EmptyQueue
<1>5. QED
  BY <1>1, <1>2, <1>3, <1>4 DEF IInv

\* A step that leaves the delivered events alone preserves the invariant if
\* it leaves the queue sound, the other variables typed, and Control true.
LEMMA StepOnQueue ==
  ASSUME IInv,
         UNCHANGED delivered,
         Sound(queue', Len(delivered)),
         producer' \in ProducerStates, consumer' \in ConsumerStates,
         stream' \in StreamStates, streamed' \in Nat, callbacks' \in Nat,
         outcome' \in Outcomes,
         Control'
  PROVE  IInv'
<1>1. Sound(queue, Len(delivered))'
  OBVIOUS
<1>2. queue' \in Queues
  BY DEF Sound
<1>3. TypeOK'
  BY <1>2 DEF IInv, TypeOK
<1>4. QED
  BY <1>1, <1>3 DEF IInv

-----------------------------------------------------------------------------
\* Every callback, every step of agent.send.
LEMMA SdkIInv == IInv /\ Sdk => IInv'
<1> SUFFICES ASSUME IInv, Sdk PROVE IInv'
  OBVIOUS
<1>1. /\ TypeOK /\ Control /\ Sound(queue, Len(delivered))
      /\ queue \in Queues /\ Len(delivered) \in Nat
  BY DEF IInv, TypeOK
<1>2. ASSUME NEW source \in {"delta", "step"}, Callback(source)
      PROVE  IInv'
  <2>1. Sound(queue', Len(delivered))
    BY <1>1, <1>2, EnqueueSound, SourcesOfSteps DEF Callback, TypeOK
  <2>2. /\ queue'.waiters \subseteq queue.waiters
        /\ queue'.drainWaiters \subseteq queue.drainWaiters
        /\ queue.closed => queue' = queue
    BY <1>1, <1>2, MethodsOnControl DEF Callback
  <2>3. Control'
    BY <1>1, <1>2, <2>2 DEF Callback, Control
  <2>4. /\ callbacks' \in Nat /\ producer' \in ProducerStates
        /\ consumer' \in ConsumerStates /\ stream' \in StreamStates
        /\ streamed' \in Nat /\ outcome' \in Outcomes
        /\ UNCHANGED delivered
    BY <1>1, <1>2 DEF Callback, TypeOK
  <2>5. QED
    BY <2>1, <2>3, <2>4, StepOnQueue
<1>3. CASE SendReturns
  <2>1. Control'
    BY <1>1, <1>3 DEF SendReturns, Control, TypeOK, StreamStates
  <2>2. QED
    BY <1>1, <1>3, <2>1, StepOnQueue
    DEF SendReturns, TypeOK, ProducerStates, ConsumerStates
<1>4. CASE SendFails
  <2>1. Control'
    BY <1>1, <1>4 DEF SendFails, Control
  <2>2. QED
    BY <1>1, <1>4, <2>1, StepOnQueue
    DEF SendFails, TypeOK, ConsumerStates, Outcomes
<1>5. QED
  BY <1>2, <1>3, <1>4 DEF Sdk

\* Every step of the producer.
LEMMA ProducerIInv == IInv /\ Producer => IInv'
<1> SUFFICES ASSUME IInv, Producer PROVE IInv'
  OBVIOUS
<1> DEFINE n == Len(delivered)
<1>1. /\ TypeOK /\ Control /\ Sound(queue, n)
      /\ queue \in Queues /\ n \in Nat
  BY DEF IInv, TypeOK
<1> HIDE DEF n
<1>2. CASE ProducerMessage
  <2> DEFINE q == Enqueue(queue, "message", streamed + 1)
  <2>1. Sound(q, n) /\ q \in Queues
    BY <1>1, EnqueueSound, SourcesOfSteps DEF TypeOK, Sound
  <2>2. queue' = WaitForDrain(q, "producer")
    BY <1>2 DEF ProducerMessage
  <2>3. q.waiters \subseteq queue.waiters
    BY <1>1, MethodsOnControl
  <2> HIDE DEF q
  <2>4. Sound(queue', n)
    BY <1>1, <2>1, <2>2, WaitForDrainSound
  <2>5. queue'.waiters = q.waiters
    BY <2>1, <2>2, MethodsOnControl
  <2>6. Control'
    BY <1>1, <1>2, <2>3, <2>5 DEF ProducerMessage, Control, TypeOK
  <2>7. QED
    BY <1>1, <1>2, <2>4, <2>6, StepOnQueue
    DEF ProducerMessage, TypeOK, ProducerStates, n
<1>3. CASE ProducerLateMessage
  <2>1. Control'
    BY <1>1, <1>3 DEF ProducerLateMessage, Control, Sound, Awake
  <2>2. QED
    BY <1>1, <1>3, <2>1, StepOnQueue
    DEF ProducerLateMessage, TypeOK, ProducerStates, StreamStates, n
<1>4. CASE ProducerDrained
  <2>1. Control'
    BY <1>1, <1>4 DEF ProducerDrained, Control
  <2>2. QED
    BY <1>1, <1>4, <2>1, StepOnQueue
    DEF ProducerDrained, TypeOK, ProducerStates, n
<1>5. CASE ProducerStreamEnds
  <2>1. Control'
    BY <1>1, <1>5 DEF ProducerStreamEnds, Control
  <2>2. QED
    BY <1>1, <1>5, <2>1, StepOnQueue
    DEF ProducerStreamEnds, TypeOK, ProducerStates, StreamStates, n
<1>6. CASE ProducerStreamFails
  <2>1. Sound(queue', n)
    BY <1>1, <1>6, FailSound DEF ProducerStreamFails, Failures
  <2>2. queue'.waiters = {} /\ queue'.drainWaiters = {} /\ queue'.closed
    BY <1>1, <1>6, MethodsOnControl DEF ProducerStreamFails
  <2>3. Control'
    BY <1>1, <1>6, <2>2 DEF ProducerStreamFails, Control
  <2>4. QED
    BY <1>1, <1>6, <2>1, <2>3, StepOnQueue
    DEF ProducerStreamFails, TypeOK, ProducerStates, StreamStates, n
<1>7. CASE ProducerResult
  <2> DEFINE q == Enqueue(queue, "result", 1)
             r == Enqueue(q, "done", 1)
  <2>1. Sound(q, n) /\ q \in Queues
    BY <1>1, EnqueueSound, SourcesOfSteps DEF Sound
  <2>2. Sound(r, n) /\ r \in Queues
    BY <1>1, <2>1, EnqueueSound, SourcesOfSteps DEF Sound
  <2>3. q.waiters \subseteq queue.waiters /\ r.waiters \subseteq q.waiters
        /\ q.drainWaiters \subseteq queue.drainWaiters
        /\ r.drainWaiters \subseteq q.drainWaiters
    BY <1>1, <2>1, MethodsOnControl
  <2>4. queue' = Close(r)
    BY <1>7 DEF ProducerResult
  <2> HIDE DEF q, r
  <2>5. Sound(queue', n)
    BY <1>1, <2>2, <2>4, CloseSound
  <2>6. queue'.waiters \subseteq r.waiters /\ queue'.closed
        /\ queue'.drainWaiters \subseteq r.drainWaiters
    BY <2>2, <2>4, MethodsOnControl
  <2>7. Control'
    BY <1>1, <1>7, <2>3, <2>6 DEF ProducerResult, Control
  <2>8. QED
    BY <1>1, <1>7, <2>5, <2>7, StepOnQueue
    DEF ProducerResult, TypeOK, ProducerStates, n
<1>8. CASE ProducerWaitFails
  <2>1. Sound(queue', n)
    BY <1>1, <1>8, FailSound DEF ProducerWaitFails, Failures
  <2>2. queue'.waiters = {} /\ queue'.drainWaiters = {} /\ queue'.closed
    BY <1>1, <1>8, MethodsOnControl DEF ProducerWaitFails
  <2>3. Control'
    BY <1>1, <1>8, <2>2 DEF ProducerWaitFails, Control
  <2>4. QED
    BY <1>1, <1>8, <2>1, <2>3, StepOnQueue
    DEF ProducerWaitFails, TypeOK, ProducerStates, n
<1>9. QED
  BY <1>2, <1>3, <1>4, <1>5, <1>6, <1>7, <1>8 DEF Producer

\* The step that hands an event to the reader.
LEMMA TakeIInv == IInv /\ ConsumerTake => IInv'
<1> SUFFICES ASSUME IInv, ConsumerTake PROVE IInv'
  OBVIOUS
<1> DEFINE n == Len(delivered)
           event == Head(queue.pending)
<1>1. /\ TypeOK /\ Control /\ Sound(queue, n)
      /\ queue \in Queues /\ n \in Nat /\ delivered \in Seq(Events)
      /\ \A i \in 1..n : delivered[i].offset = i
  BY DEF IInv, TypeOK
<1>2. /\ queue.pending # << >> /\ queue' = Shift(queue)
      /\ delivered' = Append(delivered, event)
  BY DEF ConsumerTake
<1>3. /\ Sound(queue', n + 1) /\ event \in Events /\ event.offset = n + 1
  <2> HIDE DEF n
  <2>1. QED
    BY <1>1, <1>2, ShiftSound
<1> HIDE DEF event
<1>4. /\ Len(delivered') = n + 1 /\ delivered' \in Seq(Events)
      /\ delivered'[n + 1] = event
      /\ \A i \in 1..n : delivered'[i] = delivered[i]
  BY <1>1, <1>2, <1>3
<1> HIDE DEF n
<1>5. ASSUME NEW i \in 1..Len(delivered')
      PROVE  delivered'[i].offset = i
  <2>1. CASE i = n + 1
    BY <1>3, <1>4, <2>1
  <2>2. CASE i # n + 1
    <3>1. i \in 1..n
      BY <1>1, <1>4, <2>2
    <3>2. QED
      BY <1>1, <1>4, <3>1
  <2>3. QED
    BY <2>1, <2>2
<1>6. Sound(queue, Len(delivered))'
  BY <1>3, <1>4
<1>7. /\ queue'.waiters = queue.waiters
      /\ queue'.drainWaiters \subseteq queue.drainWaiters
      /\ queue'.closed = queue.closed
  BY <1>1, <1>2, MethodsOnControl
<1>8. Control'
  BY <1>1, <1>7 DEF ConsumerTake, Control
<1>9. queue' \in Queues
  BY <1>3 DEF Sound
<1>10. TypeOK'
  BY <1>1, <1>4, <1>9 DEF ConsumerTake, TypeOK, ConsumerStates
<1>11. QED
  BY <1>5, <1>6, <1>8, <1>10 DEF IInv

\* Every other step of the consumer.
LEMMA ConsumerIInv == IInv /\ Consumer => IInv'
<1> SUFFICES ASSUME IInv, Consumer PROVE IInv'
  OBVIOUS
<1> DEFINE n == Len(delivered)
<1>1. /\ TypeOK /\ Control /\ Sound(queue, n)
      /\ queue \in Queues /\ n \in Nat
  BY DEF IInv, TypeOK
<1> HIDE DEF n
<1>2. CASE ConsumerTake
  BY <1>2, TakeIInv
<1>3. CASE ConsumerResume
  <2>1. Control'
    BY <1>1, <1>3 DEF ConsumerResume, Control
  <2>2. QED
    BY <1>1, <1>3, <2>1, StepOnQueue
    DEF ConsumerResume, TypeOK, ConsumerStates, n
<1>4. CASE ConsumerAbandon
  <2>1. Control'
    BY <1>1, <1>4 DEF ConsumerAbandon, Control
  <2>2. QED
    BY <1>1, <1>4, <2>1, StepOnQueue
    DEF ConsumerAbandon, TypeOK, ConsumerStates, Outcomes, n
<1>5. CASE ConsumerThrow
  <2>1. Control'
    BY <1>1, <1>5 DEF ConsumerThrow, Control
  <2>2. QED
    BY <1>1, <1>5, <2>1, StepOnQueue
    DEF ConsumerThrow, TypeOK, ConsumerStates, Outcomes, Queues, Failures, n
<1>6. CASE ConsumerReturn
  <2>1. Control'
    BY <1>1, <1>6 DEF ConsumerReturn, Control
  <2>2. QED
    BY <1>1, <1>6, <2>1, StepOnQueue
    DEF ConsumerReturn, TypeOK, ConsumerStates, Outcomes, n
<1>7. CASE ConsumerPark
  <2>1. Sound(queue', n)
    BY <1>1, <1>7, ParkSound DEF ConsumerPark
  <2>2. /\ queue'.drainWaiters = queue.drainWaiters
        /\ queue'.closed = queue.closed
    BY <1>1, <1>7, MethodsOnControl DEF ConsumerPark
  <2>3. Control'
    BY <1>1, <1>7, <2>2 DEF ConsumerPark, Control
  <2>4. QED
    BY <1>1, <1>7, <2>1, <2>3, StepOnQueue
    DEF ConsumerPark, TypeOK, ConsumerStates, n
<1>8. CASE ConsumerWake
  <2>1. Control'
    BY <1>1, <1>8 DEF ConsumerWake, Control
  <2>2. QED
    BY <1>1, <1>8, <2>1, StepOnQueue
    DEF ConsumerWake, TypeOK, ConsumerStates, n
<1>9. CASE ConsumerFinally
  <2>1. Sound(queue', n)
    BY <1>1, <1>9, CloseSound DEF ConsumerFinally
  <2>2. /\ queue'.waiters \subseteq queue.waiters
        /\ queue'.drainWaiters \subseteq queue.drainWaiters
        /\ queue'.closed
    BY <1>1, <1>9, MethodsOnControl DEF ConsumerFinally
  <2>3. Control'
    BY <1>1, <1>9, <2>2 DEF ConsumerFinally, Control
  <2>4. QED
    BY <1>1, <1>9, <2>1, <2>3, StepOnQueue
    DEF ConsumerFinally, TypeOK, ConsumerStates, StreamStates, n
<1>10. CASE ConsumerReturned
  <2>1. Control'
    BY <1>1, <1>10 DEF ConsumerReturned, Control
  <2>2. QED
    BY <1>1, <1>10, <2>1, StepOnQueue
    DEF ConsumerReturned, TypeOK, ConsumerStates, n
<1>11. CASE ConsumerJoin
  <2>1. Control'
    BY <1>1, <1>11 DEF ConsumerJoin, Control
  <2>2. QED
    BY <1>1, <1>11, <2>1, StepOnQueue
    DEF ConsumerJoin, TypeOK, ConsumerStates, n
<1>12. QED
  BY <1>2, <1>3, <1>4, <1>5, <1>6, <1>7, <1>8, <1>9, <1>10, <1>11
  DEF Consumer

\* The invariant is inductive.
LEMMA NextIInv == IInv /\ [Next]_vars => IInv'
<1> SUFFICES ASSUME IInv, [Next]_vars PROVE IInv'
  OBVIOUS
<1>1. CASE UNCHANGED vars
  <2>1. TypeOK' /\ Sound(queue, Len(delivered))'
    BY <1>1 DEF IInv, TypeOK, vars
  <2>2. (\A i \in 1..Len(delivered) : delivered[i].offset = i)'
    BY <1>1 DEF IInv, vars
  <2>3. Control'
    BY <1>1 DEF IInv, Control, vars
  <2>4. QED
    BY <2>1, <2>2, <2>3 DEF IInv
<1>2. QED
  BY <1>1, SdkIInv, ProducerIInv, ConsumerIInv DEF Next, Terminated

\* The strengthening that the theorems below are drawn from.
THEOREM InductiveInvariant == Spec => []IInv
  BY InitIInv, NextIInv, PTL DEF Spec

\* Every variable keeps its type, for every limit and any number of events.
THEOREM TypeCorrect == Spec => []TypeOK
<1>1. IInv => TypeOK
  BY DEF IInv
<1>2. QED
  BY <1>1, InductiveInvariant, PTL

\* The reader of a merged stream sees the offsets 1, 2, 3, ... whatever the
\* interleaving of messages, callbacks and reads.
THEOREM OffsetsGapFree == Spec => []GapFreeOffsets
<1>1. IInv => GapFreeOffsets
  BY DEF IInv, GapFreeOffsets, Sound, Numbered
<1>2. QED
  BY <1>1, InductiveInvariant, PTL

\* No wake-up is lost: whoever is parked has nothing to do.
THEOREM WakeUpsKept == Spec => []NoLostWakeup
<1>1. IInv => NoLostWakeup
  BY DEF IInv, NoLostWakeup, Sound, Awake, Control
<1>2. QED
  BY <1>1, InductiveInvariant, PTL

\* The generator never finishes before its producer, its queue and the SDK
\* stream have.
THEOREM ProducerJoined == Spec => []NoOrphanProducer
<1>1. IInv => NoOrphanProducer
  BY DEF IInv, NoOrphanProducer, Control
<1>2. QED
  BY <1>1, InductiveInvariant, PTL

-----------------------------------------------------------------------------
(* How the stream ends.                                                    *)

EndsInDone(log) ==
  /\ Len(log) >= 2
  /\ log[Len(log)].source = "done"
  /\ log[Len(log) - 1].source = "result"

\* How the outcome, the queue's end and the producer fit together.
Honest ==
  /\ outcome = "none" <=>
       consumer \in {"sending", "next", "yielded", "parked"}
  /\ outcome = "sendFailed" => consumer = "finished"
  /\ outcome \in {"ended", "overflow", "stream"} =>
       queue.pending = << >> /\ queue.closed
  /\ outcome = "ended" => queue.failure = "none"
  /\ queue.closed /\ queue.failure = "none" /\ outcome # "abandoned" =>
       producer = "finished" /\ EndsInDone(Accepted)

HInv == IInv /\ Honest

-----------------------------------------------------------------------------
(* The log is what was delivered followed by what is pending.              *)

\* Enqueueing extends the log at its end.
LEMMA AppendToLog ==
  ASSUME NEW d \in Seq(Events), NEW p \in Seq(Events), NEW e \in Events
  PROVE  /\ d \o Append(p, e) = Append(d \o p, e)
         /\ d \o p \in Seq(Events)
         /\ Len(d \o p) = Len(d) + Len(p)
<1>1. /\ Append(p, e) = p \o << e >> /\ << e >> \in Seq(Events)
      /\ Append(d \o p, e) = (d \o p) \o << e >>
  OBVIOUS
<1>2. (d \o p) \o << e >> = d \o (p \o << e >>)
  BY <1>1, ConcatAssociative
<1>3. d \o p \in Seq(Events) /\ Len(d \o p) = Len(d) + Len(p)
  BY ConcatProperties
<1>4. QED
  BY <1>1, <1>2, <1>3

\* Handing the first pending event to the reader does not change the log.
LEMMA TakeKeepsLog ==
  ASSUME NEW d \in Seq(Events), NEW p \in Seq(Events), p # << >>
  PROVE  Append(d, Head(p)) \o Tail(p) = d \o p
<1>1. /\ Head(p) \in Events /\ Tail(p) \in Seq(Events)
      /\ << Head(p) >> \in Seq(Events)
      /\ Append(d, Head(p)) = d \o << Head(p) >>
      /\ p = << Head(p) >> \o Tail(p)
  OBVIOUS
<1>2. (d \o << Head(p) >>) \o Tail(p) = d \o (<< Head(p) >> \o Tail(p))
  BY <1>1, ConcatAssociative
<1>3. QED
  BY <1>1, <1>2

\* The three outcomes of enqueue().
LEMMA EnqueueCases ==
  ASSUME NEW q \in Queues, NEW source \in Sources, NEW id \in Nat
  PROVE  LET r == Enqueue(q, source, id) IN
         \/ q.closed /\ r = q
         \/ /\ ~q.closed /\ Full(q)
            /\ r.closed /\ r.failure = "overflow" /\ r.pending = q.pending
         \/ /\ ~q.closed /\ ~Full(q)
            /\ ~r.closed /\ r.failure = q.failure
            /\ r.pending = Append(q.pending,
                 [offset |-> q.offset + 1, source |-> source, id |-> id])
<1> DEFINE r == Enqueue(q, source, id)
<1>1. q.closed \in BOOLEAN
  BY DEF Queues
<1>2. CASE q.closed
  BY <1>2 DEF Enqueue
<1>3. CASE ~q.closed /\ Full(q)
  <2>1. r = Fail(q, "overflow")
    BY <1>3 DEF Enqueue
  <2>2. QED
    BY <1>3, <2>1 DEF Fail, Notify, NotifyDrain, Queues
<1>4. CASE ~q.closed /\ ~Full(q)
  <2>1. r = Accept(q, source, id)
    BY <1>4 DEF Enqueue
  <2>2. QED
    BY <1>4, <2>1 DEF Accept, Notify, Queues
<1>5. QED
  BY <1>1, <1>2, <1>3, <1>4

-----------------------------------------------------------------------------
(* Honest is inductive relative to IInv.                                   *)

\* A failing queue keeps its contents, is closed and says so.
LEMMA FailEffect ==
  ASSUME NEW q \in Queues, NEW error \in Failures \ {"none"}
  PROVE  /\ Fail(q, error).pending = q.pending
         /\ Fail(q, error).closed
         /\ Fail(q, error).failure # "none"
  BY DEF Fail, Notify, NotifyDrain, Queues

\* The result and the end marker, enqueued and closed in one turn, end the
\* log or break it; on a closed queue they change nothing.
LEMMA ResultEffect ==
  ASSUME NEW q \in Queues, NEW d \in Seq(Events),
         NEW r, r = Close(Enqueue(Enqueue(q, "result", 1), "done", 1)),
         Sound(q, Len(d))
  PROVE  /\ r.closed
         /\ q.closed => r = q
         /\ ~q.closed =>
              \/ r.failure # "none" /\ r.pending = q.pending
              \/ /\ r.failure # "none"
                 /\ r.pending = Append(q.pending,
                      [offset |-> q.offset + 1, source |-> "result", id |-> 1])
              \/ /\ r.failure = q.failure
                 /\ r.pending = Append(Append(q.pending,
                      [offset |-> q.offset + 1, source |-> "result", id |-> 1]),
                      [offset |-> q.offset + 2, source |-> "done", id |-> 1])
<1> DEFINE a == Enqueue(q, "result", 1)
           b == Enqueue(a, "done", 1)
<1>1. a \in Queues /\ b \in Queues
  BY EnqueueSound, SourcesOfSteps DEF Sound
<1>2. r = Close(b)
  OBVIOUS
<1>3. \/ q.closed /\ a = q
      \/ ~q.closed /\ a.closed /\ a.failure = "overflow" /\ a.pending = q.pending
      \/ /\ ~q.closed /\ ~a.closed /\ a.failure = q.failure
         /\ ~Full(q)
         /\ a.pending = Append(q.pending,
              [offset |-> q.offset + 1, source |-> "result", id |-> 1])
  BY EnqueueCases, SourcesOfSteps
<1>4. \/ a.closed /\ b = a
      \/ ~a.closed /\ b.closed /\ b.failure = "overflow" /\ b.pending = a.pending
      \/ /\ ~a.closed /\ ~b.closed /\ b.failure = a.failure
         /\ b.pending = Append(a.pending,
              [offset |-> a.offset + 1, source |-> "done", id |-> 1])
  BY <1>1, EnqueueCases, SourcesOfSteps
<1>5. ~q.closed /\ ~Full(q) => a.offset = q.offset + 1
  BY DEF Enqueue, Accept, Notify, Queues
<1> HIDE DEF a, b
<1>6. r.closed /\ r.pending = b.pending /\ r.failure = b.failure
  BY <1>1, <1>2, CloseCloses
<1>7. b.closed => r = b
  BY <1>2 DEF Close
<1>8. q.offset \in Nat
  BY DEF Queues
<1>9. q.closed => r = q
  BY <1>3, <1>4, <1>7
<1>10. ASSUME ~q.closed, ~a.closed, ~b.closed
       PROVE  r.pending = Append(Append(q.pending,
                [offset |-> q.offset + 1, source |-> "result", id |-> 1]),
                [offset |-> q.offset + 2, source |-> "done", id |-> 1])
  <2>1. a.offset + 1 = q.offset + 2
    BY <1>3, <1>5, <1>8, <1>10
  <2>2. QED
    BY <1>3, <1>4, <1>6, <1>10, <2>1
<1>11. QED
  BY <1>3, <1>4, <1>6, <1>9, <1>10

\* Two events appended to the queue are the last two of the log.
LEMMA AppendTwo ==
  ASSUME NEW d \in Seq(Events), NEW p \in Seq(Events),
         NEW e \in Events, NEW f \in Events,
         e.source = "result", f.source = "done"
  PROVE  EndsInDone(d \o Append(Append(p, e), f))
<1>1. Append(p, e) \in Seq(Events)
  OBVIOUS
<1>2. /\ d \o Append(p, e) = Append(d \o p, e)
      /\ d \o p \in Seq(Events)
      /\ d \o Append(Append(p, e), f) = Append(d \o Append(p, e), f)
  BY <1>1, AppendToLog
<1> DEFINE l == d \o p
<1>3. /\ d \o Append(Append(p, e), f) = Append(Append(l, e), f)
      /\ l \in Seq(Events)
  BY <1>2
<1> HIDE DEF l
<1>4. EndsInDone(Append(Append(l, e), f))
  BY <1>3 DEF EndsInDone
<1>5. QED
  BY <1>3, <1>4

\* An open queue owes no ending yet.
LEMMA HonestInit == Init => Honest
  BY DEF Init, Honest, EmptyQueue

\* Every step preserves Honest.
LEMMA HonestNext == HInv /\ [Next]_vars => Honest'
<1> SUFFICES ASSUME HInv, [Next]_vars PROVE Honest'
  OBVIOUS
<1>1. /\ TypeOK /\ Control /\ Honest
      /\ Sound(queue, Len(delivered)) /\ queue \in Queues
      /\ queue.pending \in Seq(Events) /\ delivered \in Seq(Events)
      /\ queue.offset \in Nat /\ callbacks \in Nat /\ streamed \in Nat
      /\ Len(delivered) \in Nat
  BY DEF HInv, IInv, TypeOK, Queues
<1>2. ASSUME NEW source \in {"delta", "step"}, Callback(source)
      PROVE  Honest'
  <2>1. /\ source \in Sources /\ callbacks + 1 \in Nat
        /\ queue' = Enqueue(queue, source, callbacks + 1)
    BY <1>1, <1>2, SourcesOfSteps DEF Callback
  <2>2. \/ queue.closed /\ queue' = queue
        \/ ~queue.closed /\ queue'.failure = "overflow"
             /\ queue'.pending = queue.pending
        \/ ~queue.closed /\ ~queue'.closed /\ queue'.failure = queue.failure
    BY <1>1, <2>1, EnqueueCases
  <2>3. QED
    BY <1>1, <1>2, <2>2 DEF Callback, Honest, Accepted
<1>3. CASE SendReturns
  BY <1>1, <1>3 DEF SendReturns, Honest, Control, Accepted
<1>4. CASE SendFails
  BY <1>1, <1>4 DEF SendFails, Honest, Control, Accepted
<1>5. CASE ProducerMessage
  <2> DEFINE q == Enqueue(queue, "message", streamed + 1)
  <2>1. \/ q.closed /\ q.failure = "overflow"
        \/ ~q.closed
    <3>1. "message" \in Sources /\ streamed + 1 \in Nat /\ ~queue.closed
      BY <1>1, <1>5, SourcesOfSteps DEF ProducerMessage
    <3>2. QED
      BY <1>1, <3>1, EnqueueCases
  <2>2. q \in Queues
    BY <1>1, EnqueueSound, SourcesOfSteps DEF Sound
  <2>3. queue' = WaitForDrain(q, "producer")
    BY <1>5 DEF ProducerMessage
  <2> HIDE DEF q
  <2>4. queue'.closed = q.closed /\ queue'.failure = q.failure
    BY <2>2, <2>3 DEF WaitForDrain, Queues
  <2>5. QED
    BY <1>1, <1>5, <2>1, <2>4 DEF ProducerMessage, Honest
<1>6. CASE ProducerLateMessage
  BY <1>1, <1>6 DEF ProducerLateMessage, Honest, Control, Accepted
<1>7. CASE ProducerDrained
  BY <1>1, <1>7 DEF ProducerDrained, Honest, Control, Accepted
<1>8. CASE ProducerStreamEnds
  BY <1>1, <1>8 DEF ProducerStreamEnds, Honest, Control, Accepted
<1>9. CASE ProducerStreamFails
  <2>1. /\ queue'.pending = queue.pending /\ queue'.closed
        /\ queue'.failure # "none"
    BY <1>1, <1>9, FailEffect DEF ProducerStreamFails, Failures
  <2>2. QED
    BY <1>1, <1>9, <2>1 DEF ProducerStreamFails, Honest, Control
<1>10. CASE ProducerResult
  <2> DEFINE e == [offset |-> queue.offset + 1, source |-> "result", id |-> 1]
             f == [offset |-> queue.offset + 2, source |-> "done", id |-> 1]
  <2>1. e \in Events /\ f \in Events /\ e.source = "result" /\ f.source = "done"
    BY <1>1, SourcesOfSteps DEF Events
  <2>2. /\ queue'.closed
        /\ queue.closed => queue' = queue
        /\ ~queue.closed =>
             \/ queue'.failure # "none"
             \/ queue'.pending = Append(Append(queue.pending, e), f)
                  /\ queue'.failure = queue.failure
    BY <1>1, <1>10, ResultEffect DEF ProducerResult
  <2> HIDE DEF e, f
  <2>3. EndsInDone(delivered \o Append(Append(queue.pending, e), f))
    BY <1>1, <2>1, AppendTwo
  <2>4. QED
    BY <1>1, <1>10, <2>2, <2>3 DEF ProducerResult, Honest, Control, Accepted
<1>11. CASE ProducerWaitFails
  <2>1. /\ queue'.pending = queue.pending /\ queue'.closed
        /\ queue'.failure # "none"
    BY <1>1, <1>11, FailEffect DEF ProducerWaitFails, Failures
  <2>2. QED
    BY <1>1, <1>11, <2>1 DEF ProducerWaitFails, Honest, Control
<1>12. CASE ConsumerTake
  <2>1. /\ queue'.closed = queue.closed /\ queue'.failure = queue.failure
        /\ queue'.pending = Tail(queue.pending)
    BY <1>1, <1>12 DEF ConsumerTake, Shift, NotifyDrain, Queues
  <2>2. Accepted' = Accepted
    BY <1>1, <1>12, <2>1, TakeKeepsLog DEF ConsumerTake, Accepted
  <2>3. QED
    BY <1>1, <1>12, <2>1, <2>2 DEF ConsumerTake, Honest
<1>13. CASE ConsumerResume
  BY <1>1, <1>13 DEF ConsumerResume, Honest, Control, Accepted
<1>14. CASE ConsumerAbandon
  BY <1>1, <1>14 DEF ConsumerAbandon, Honest, Control, Accepted
<1>15. CASE ConsumerThrow
  BY <1>1, <1>15 DEF ConsumerThrow, Honest, Control, Accepted, Sound, FailureCloses, Queues, Failures
<1>16. CASE ConsumerReturn
  BY <1>1, <1>16 DEF ConsumerReturn, Honest, Control, Accepted
<1>17. CASE ConsumerPark
  <2>1. /\ queue'.closed = queue.closed /\ queue'.failure = queue.failure
        /\ queue'.pending = queue.pending
    BY <1>1, <1>17 DEF ConsumerPark, Park, Queues
  <2>2. QED
    BY <1>1, <1>17, <2>1 DEF ConsumerPark, Honest, Accepted
<1>18. CASE ConsumerWake
  BY <1>1, <1>18 DEF ConsumerWake, Honest, Control, Accepted
<1>19. CASE ConsumerFinally
  <2>1. /\ queue'.closed /\ queue'.failure = queue.failure
        /\ queue'.pending = queue.pending
    BY <1>1, <1>19, CloseCloses DEF ConsumerFinally
  <2>2. outcome \in {"abandoned", "ended", "overflow", "stream"}
    BY <1>1, <1>19 DEF ConsumerFinally, Honest, TypeOK, Outcomes
  <2>3. QED
    BY <1>1, <1>19, <2>1, <2>2 DEF ConsumerFinally, Honest, Accepted
<1>20. CASE ConsumerReturned
  BY <1>1, <1>20 DEF ConsumerReturned, Honest, Control, Accepted
<1>21. CASE ConsumerJoin
  BY <1>1, <1>21 DEF ConsumerJoin, Honest, Control, Accepted
<1>22. CASE UNCHANGED vars
  BY <1>1, <1>22 DEF vars, Honest, Accepted
<1>23. QED
  BY <1>2, <1>3, <1>4, <1>5, <1>6, <1>7, <1>8, <1>9, <1>10, <1>11, <1>12,
     <1>13, <1>14, <1>15, <1>16, <1>17, <1>18, <1>19, <1>20, <1>21, <1>22
  DEF Next, Sdk, Producer, Consumer, Terminated

-----------------------------------------------------------------------------
(* What the log holds: each source's events in its order, and all of them  *)

\* The groups of sources that number their events together.
Groups == {{"message"}, {"delta", "step"}, {"result"}, {"done"}}

Count(log, sources) == Cardinality(OfSource(log, sources))

\* The events of each group carry the numbers 1, 2, 3, ...
InOrder(log) ==
  \A sources \in Groups : \A i \in OfSource(log, sources) :
    log[i].id = Cardinality({j \in OfSource(log, sources) : j <= i})

\* While the queue is open the log has everything that was produced.
Complete ==
  /\ ~queue.closed =>
       /\ Count(Accepted, {"message"}) = streamed
       /\ Count(Accepted, {"delta", "step"}) = callbacks
  /\ producer # "finished" =>
       Count(Accepted, {"result"}) = 0 /\ Count(Accepted, {"done"}) = 0
  /\ queue.closed /\ queue.failure = "none" /\ outcome # "abandoned" =>
       Count(Accepted, {"message"}) = streamed

\* A producer that may go on has room for one more message.
Room ==
  /\ Count(queue.pending, {"message"}) <= HighWater
  /\ ~queue.closed /\ producer # "finished" /\ "producer" \notin queue.drainWaiters =>
       Count(queue.pending, {"message"}) < HighWater

OInv == HInv /\ InOrder(Accepted) /\ Complete /\ Room

-----------------------------------------------------------------------------
(* Counting the events of a log.                                           *)

\* A log has finitely many events.
LEMMA CountType ==
  ASSUME NEW l \in Seq(Events), NEW sources
  PROVE  /\ IsFiniteSet(OfSource(l, sources))
         /\ OfSource(l, sources) \subseteq 1..Len(l)
         /\ Count(l, sources) \in Nat
<1>1. Len(l) \in Nat /\ DOMAIN l = 1..Len(l)
  OBVIOUS
<1>2. OfSource(l, sources) \subseteq 1..Len(l)
  BY <1>1 DEF OfSource
<1>3. IsFiniteSet(1..Len(l))
  BY <1>1, FS_Interval
<1>4. IsFiniteSet(OfSource(l, sources))
  BY <1>2, <1>3, FS_Subset
<1>5. QED
  BY <1>2, <1>4, FS_CardinalityType DEF Count

\* The empty log has none.
LEMMA EmptyCount ==
  ASSUME NEW sources
  PROVE  OfSource(<< >>, sources) = {} /\ Count(<< >>, sources) = 0
<1>1. OfSource(<< >>, sources) = {}
  BY DEF OfSource
<1>2. QED
  BY <1>1, FS_EmptySet DEF Count

\* One more event is one more of its source's.
LEMMA AppendOf ==
  ASSUME NEW l \in Seq(Events), NEW e \in Events, NEW sources
  PROVE  OfSource(Append(l, e), sources) =
           IF e.source \in sources THEN OfSource(l, sources) \union {Len(l) + 1}
           ELSE OfSource(l, sources)
<1> DEFINE m == Append(l, e)
<1>1. /\ m \in Seq(Events) /\ Len(l) \in Nat /\ DOMAIN l = 1..Len(l)
      /\ DOMAIN m = 1..(Len(l) + 1) /\ m[Len(l) + 1] = e
      /\ \A i \in 1..Len(l) : m[i] = l[i]
  OBVIOUS
<1> HIDE DEF m
<1>2. \A i : i \in OfSource(m, sources) <=>
        i \in OfSource(l, sources) \/ (i = Len(l) + 1 /\ e.source \in sources)
  BY <1>1 DEF OfSource
<1>3. QED
  BY <1>2 DEF m

LEMMA AppendCount ==
  ASSUME NEW l \in Seq(Events), NEW e \in Events, NEW sources
  PROVE  Count(Append(l, e), sources) =
           IF e.source \in sources THEN Count(l, sources) + 1
           ELSE Count(l, sources)
<1>1. /\ IsFiniteSet(OfSource(l, sources))
      /\ OfSource(l, sources) \subseteq 1..Len(l)
      /\ Len(l) \in Nat
  BY CountType
<1>2. Len(l) + 1 \notin OfSource(l, sources)
  BY <1>1
<1>3. Cardinality(OfSource(l, sources) \union {Len(l) + 1})
        = Cardinality(OfSource(l, sources)) + 1
  BY <1>1, <1>2, FS_AddElement
<1>4. QED
  BY <1>3, AppendOf DEF Count

\* A log with one event less in front has no more of any source.
LEMMA TailCount ==
  ASSUME NEW l \in Seq(Events), l # << >>, NEW sources
  PROVE  Count(Tail(l), sources) <= Count(l, sources)
<1> DEFINE S == OfSource(Tail(l), sources)
           T == OfSource(l, sources)
           f == [i \in S |-> i + 1]
<1>1. /\ Tail(l) \in Seq(Events) /\ Len(l) \in Nat /\ Len(l) >= 1
      /\ Len(Tail(l)) = Len(l) - 1
      /\ DOMAIN l = 1..Len(l) /\ DOMAIN Tail(l) = 1..Len(Tail(l))
      /\ \A i \in 1..Len(Tail(l)) : Tail(l)[i] = l[i + 1]
  OBVIOUS
<1>2. ASSUME NEW i \in S PROVE i \in Nat /\ i + 1 \in T
  BY <1>1 DEF OfSource
<1>3. IsFiniteSet(T)
  BY CountType
<1> HIDE DEF S, T
<1>4. f \in Injection(S, T)
  BY <1>2 DEF Injection, IsInjective
<1>5. Cardinality(S) <= Cardinality(T)
  BY <1>3, <1>4, FS_Injection
<1>6. QED
  BY <1>5 DEF S, T, Count

\* The next event of a source keeps the log in order.
LEMMA AppendInOrder ==
  ASSUME NEW l \in Seq(Events), NEW e \in Events, InOrder(l),
         \A sources \in Groups :
           e.source \in sources => e.id = Count(l, sources) + 1
  PROVE  InOrder(Append(l, e))
<1> DEFINE m == Append(l, e)
<1>1. /\ Len(l) \in Nat /\ m[Len(l) + 1] = e
      /\ \A i \in 1..Len(l) : m[i] = l[i]
  OBVIOUS
<1> SUFFICES ASSUME NEW sources \in Groups, NEW i \in OfSource(m, sources)
             PROVE  m[i].id = Cardinality({j \in OfSource(m, sources) : j <= i})
  BY DEF InOrder
<1> DEFINE S == OfSource(l, sources)
           R == OfSource(m, sources)
<1>2. R = IF e.source \in sources THEN S \union {Len(l) + 1} ELSE S
  BY AppendOf
<1>3. S \subseteq 1..Len(l)
  BY CountType
<1>4. Count(m, sources)
        = IF e.source \in sources THEN Count(l, sources) + 1 ELSE Count(l, sources)
  BY AppendCount
<1>5. i \in R
  OBVIOUS
<1>6. \A j \in S : l[j].id = Cardinality({k \in S : k <= j})
  BY DEF InOrder
<1>7. Count(m, sources) = Cardinality(R)
  BY DEF Count
<1> HIDE DEF m, S, R
<1>8. CASE i \in S
  <2>1. {j \in R : j <= i} = {j \in S : j <= i}
    BY <1>1, <1>2, <1>3, <1>8
  <2>2. m[i] = l[i]
    BY <1>1, <1>3, <1>8
  <2>3. QED
    BY <1>6, <1>8, <2>1, <2>2 DEF R
<1>9. CASE i \notin S
  <2>1. i = Len(l) + 1 /\ e.source \in sources
    BY <1>2, <1>5, <1>9
  <2>2. {j \in R : j <= i} = R
    <3>1. R = S \union {i} /\ i = Len(l) + 1
      BY <1>2, <2>1
    <3>2. \A j \in S : j <= i
      BY <1>1, <1>3, <3>1
    <3>3. i <= i
      BY <1>1, <3>1
    <3>4. QED
      BY ONLY <3>1, <3>2, <3>3
  <2>3. m[i].id = Count(l, sources) + 1
    BY <1>1, <2>1
  <2>4. QED
    BY <1>4, <1>7, <2>1, <2>2, <2>3 DEF R
<1>10. QED
  BY <1>8, <1>9 DEF m, R

\* A log holds no more events of a source than events.
LEMMA CountBounded ==
  ASSUME NEW l \in Seq(Events), NEW sources
  PROVE  Count(l, sources) <= Len(l)
<1>1. OfSource(l, sources) \in SUBSET (1..Len(l)) /\ Len(l) \in Nat
  BY CountType
<1>2. IsFiniteSet(1..Len(l)) /\ Cardinality(1..Len(l)) = Len(l)
  <2> DEFINE n == Len(l)
  <2>1. n \in Nat /\ 1 \in Int /\ n \in Int
    BY <1>1
  <2> HIDE DEF n
  <2>2. IsFiniteSet(1..n) /\ Cardinality(1..n) = IF 1 > n THEN 0 ELSE n - 1 + 1
    BY <2>1, FS_Interval
  <2>3. IsFiniteSet(1..n) /\ Cardinality(1..n) = n
    BY <2>1, <2>2
  <2> QED
    BY <2>3 DEF n
<1>3. Cardinality(OfSource(l, sources)) <= Cardinality(1..Len(l))
  BY <1>1, <1>2, FS_Subset
<1>4. QED
  BY <1>2, <1>3 DEF Count

\* enqueue() adds the next event of a source, or nothing to a queue that is
\* closed from then on.
LEMMA EnqueueCounts ==
  ASSUME NEW q \in Queues, NEW d \in Seq(Events),
         NEW source \in Sources, NEW id \in Nat,
         InOrder(d \o q.pending),
         ~q.closed => \A sources \in Groups :
           source \in sources => id = Count(d \o q.pending, sources) + 1,
         NEW r, r = Enqueue(q, source, id)
  PROVE  /\ InOrder(d \o r.pending)
         /\ \A sources : source \notin sources =>
              /\ Count(d \o r.pending, sources) = Count(d \o q.pending, sources)
              /\ Count(r.pending, sources) = Count(q.pending, sources)
         /\ \A sources : source \in sources =>
              /\ ~r.closed => Count(d \o r.pending, sources)
                                = Count(d \o q.pending, sources) + 1
              /\ \/ Count(r.pending, sources) = Count(q.pending, sources)
                 \/ Count(r.pending, sources) = Count(q.pending, sources) + 1
<1> DEFINE e == [offset |-> q.offset + 1, source |-> source, id |-> id]
<1>1. /\ q.pending \in Seq(Events) /\ q.offset \in Nat
      /\ e \in Events /\ e.source = source /\ e.id = id
  BY DEF Queues, Events
<1>2. \/ r.closed /\ r.pending = q.pending
      \/ ~q.closed /\ ~r.closed /\ r.pending = Append(q.pending, e)
  BY EnqueueCases
<1> HIDE DEF e
<1>3. CASE r.closed /\ r.pending = q.pending
  BY <1>3
<1>4. CASE ~q.closed /\ ~r.closed /\ r.pending = Append(q.pending, e)
  <2>1. /\ d \o r.pending = Append(d \o q.pending, e)
        /\ d \o q.pending \in Seq(Events)
    BY <1>1, <1>4, AppendToLog
  <2>2. InOrder(d \o r.pending)
    BY <1>1, <1>4, <2>1, AppendInOrder
  <2>3. \A sources : Count(d \o r.pending, sources) =
          IF source \in sources THEN Count(d \o q.pending, sources) + 1
          ELSE Count(d \o q.pending, sources)
    <3>1. PICK l \in Seq(Events) : l = d \o q.pending
      BY <2>1
    <3>2. d \o r.pending = Append(l, e)
      BY <2>1, <3>1
    <3>3. \A sources : Count(d \o r.pending, sources) =
            IF source \in sources THEN Count(l, sources) + 1 ELSE Count(l, sources)
      BY <1>1, <3>2, AppendCount
    <3>4. QED
      BY <3>1, <3>3
  <2>4. \A sources : Count(r.pending, sources) =
          IF source \in sources THEN Count(q.pending, sources) + 1
          ELSE Count(q.pending, sources)
    BY <1>1, <1>4, AppendCount
  <2>5. QED
    BY <2>2, <2>3, <2>4
<1>5. QED
  BY <1>2, <1>3, <1>4

-----------------------------------------------------------------------------
\* A step that does not extend the log keeps what is known of it, unless it
\* produces something for a queue that still takes it.
LEMMA SameLogStep ==
  ASSUME OInv, Accepted' = Accepted,
         Count(queue'.pending, {"message"}) <= HighWater,
         ~queue'.closed =>
           ~queue.closed /\ streamed' = streamed /\ callbacks' = callbacks,
         producer' # "finished" => producer # "finished",
         queue'.closed /\ queue'.failure = "none" /\ outcome' # "abandoned" =>
           /\ streamed' = streamed
           /\ queue.closed /\ queue.failure = "none" /\ outcome # "abandoned",
         ~queue'.closed /\ producer' # "finished"
           /\ "producer" \notin queue'.drainWaiters =>
             Count(queue'.pending, {"message"}) < HighWater
  PROVE  InOrder(Accepted)' /\ Complete' /\ Room'
<1>1. InOrder(Accepted)'
  BY DEF OInv
<1>2. Complete'
  BY DEF OInv, Complete
<1>3. Room'
  BY DEF Room
<1>4. QED
  BY <1>1, <1>2, <1>3

\* An empty log is in order.
LEMMA CountsInit == Init => InOrder(Accepted) /\ Complete /\ Room
<1> SUFFICES ASSUME Init PROVE InOrder(Accepted) /\ Complete /\ Room
  OBVIOUS
<1>1. delivered = << >> /\ queue.pending = << >> /\ ~queue.closed
      /\ streamed = 0 /\ callbacks = 0
  BY DEF Init, EmptyQueue
<1>2. Accepted = << >>
  BY <1>1, ConcatEmptySeq DEF Accepted
<1>3. \A sources : OfSource(<< >>, sources) = {} /\ Count(<< >>, sources) = 0
  BY EmptyCount
<1>4. InOrder(Accepted)
  BY <1>2, <1>3 DEF InOrder
<1>5. Complete
  BY <1>1, <1>2, <1>3 DEF Complete
<1>6. 0 <= HighWater /\ 0 < HighWater
  BY QueueLimits
<1>7. Count(queue.pending, {"message"}) = 0
  BY <1>1, <1>3
<1>8. Room
  BY <1>6, <1>7 DEF Room
<1>9. QED
  BY <1>4, <1>5, <1>8

\* Callbacks are logged in the order of their calls.
LEMMA CallbackCounts ==
  ASSUME OInv, NEW source \in {"delta", "step"}, Callback(source)
  PROVE  InOrder(Accepted)' /\ Complete' /\ Room'
<1>1. /\ queue \in Queues /\ delivered \in Seq(Events) /\ callbacks \in Nat
      /\ source \in Sources /\ callbacks + 1 \in Nat
      /\ queue' = Enqueue(queue, source, callbacks + 1)
      /\ callbacks' = callbacks + 1
      /\ UNCHANGED << producer, streamed, delivered, outcome >>
  BY SourcesOfSteps DEF OInv, HInv, IInv, TypeOK, Callback
<1>2. \A sources \in Groups : source \in sources => sources = {"delta", "step"}
  BY DEF Groups
<1>3. ~queue.closed => \A sources \in Groups :
        source \in sources => callbacks + 1 = Count(Accepted, sources) + 1
  BY <1>2 DEF OInv, Complete
<1>4. PICK id \in Nat : id = callbacks + 1
  BY <1>1
<1>5. PICK r : r = Enqueue(queue, source, id) /\ r = queue'
  BY <1>1, <1>4
<1> DEFINE from == source
<1>6a. /\ queue \in Queues /\ delivered \in Seq(Events) /\ from \in Sources
      /\ id \in Nat /\ r = Enqueue(queue, from, id)
  BY <1>1, <1>4, <1>5
<1>6. /\ InOrder(delivered \o r.pending)
      /\ \A sources : source \notin sources =>
           /\ Count(delivered \o r.pending, sources) = Count(Accepted, sources)
           /\ Count(r.pending, sources) = Count(queue.pending, sources)
      /\ \A sources : source \in sources /\ ~r.closed =>
           Count(delivered \o r.pending, sources) = Count(Accepted, sources) + 1
  <2>1. InOrder(delivered \o queue.pending)
    BY DEF OInv, Accepted
  <2>2. ~queue.closed => \A sources \in Groups :
          from \in sources => id = Count(delivered \o queue.pending, sources) + 1
    BY <1>3, <1>4 DEF Accepted
  <2>3. QED
    <3> HIDE DEF from
    <3>1. /\ InOrder(delivered \o r.pending)
          /\ \A sources : from \notin sources =>
               /\ Count(delivered \o r.pending, sources)
                    = Count(delivered \o queue.pending, sources)
               /\ Count(r.pending, sources) = Count(queue.pending, sources)
          /\ \A sources : from \in sources /\ ~r.closed =>
               Count(delivered \o r.pending, sources)
                 = Count(delivered \o queue.pending, sources) + 1
      BY ONLY <1>6a, <2>1, <2>2, EnqueueCounts
    <3>2. QED
      BY <3>1 DEF Accepted, from
<1>7. Accepted' = delivered \o r.pending
  BY <1>1, <1>5 DEF Accepted
<1>8. \/ r = queue
      \/ ~queue.closed /\ r.closed /\ r.failure = "overflow"
      \/ ~queue.closed /\ ~r.closed /\ r.failure = queue.failure
  <2> HIDE DEF from
  <2>1. QED
    BY ONLY <1>6a, EnqueueCases
<1>9. r.drainWaiters = queue.drainWaiters \/ r.closed
  BY <1>1, <1>5 DEF Enqueue, Accept, Fail, Notify, NotifyDrain, Queues
<1>10. /\ source \notin {"message"} /\ source \notin {"result"}
       /\ source \notin {"done"} /\ source \in {"delta", "step"}
  OBVIOUS
<1>11. /\ Count(Accepted', {"message"}) = Count(Accepted, {"message"})
       /\ Count(Accepted', {"result"}) = Count(Accepted, {"result"})
       /\ Count(Accepted', {"done"}) = Count(Accepted, {"done"})
       /\ ~r.closed => Count(Accepted', {"delta", "step"})
                         = Count(Accepted, {"delta", "step"}) + 1
       /\ Count(queue'.pending, {"message"}) = Count(queue.pending, {"message"})
  BY <1>5, <1>6, <1>7, <1>10
<1>12. InOrder(Accepted)'
  BY <1>6, <1>7
<1>13. Complete'
  BY <1>1, <1>5, <1>8, <1>11 DEF OInv, Complete
<1>14. Room'
  BY <1>1, <1>5, <1>8, <1>9, <1>11 DEF OInv, Room
<1>15. QED
  BY <1>12, <1>13, <1>14

\* Messages are logged in the order the stream gave them, and the producer
\* does not come for the next one before the queue is below the mark.
LEMMA MessageCounts ==
  ASSUME OInv, ProducerMessage
  PROVE  InOrder(Accepted)' /\ Complete' /\ Room'
<1>1. /\ queue \in Queues /\ delivered \in Seq(Events) /\ streamed \in Nat
      /\ "message" \in Sources /\ streamed + 1 \in Nat
      /\ queue' = WaitForDrain(Enqueue(queue, "message", streamed + 1), "producer")
      /\ streamed' = streamed + 1 /\ producer' = "drain"
      /\ UNCHANGED << callbacks, delivered, outcome >>
      /\ ~queue.closed /\ producer = "pull" /\ "producer" \notin queue.drainWaiters
  BY SourcesOfSteps
  DEF OInv, HInv, IInv, TypeOK, Control, ProducerMessage
<1>2. \A sources \in Groups : "message" \in sources => sources = {"message"}
  BY DEF Groups
<1>3. \A sources \in Groups :
        "message" \in sources => streamed + 1 = Count(Accepted, sources) + 1
  BY <1>1, <1>2 DEF OInv, Complete
<1>4. PICK id \in Nat : id = streamed + 1
  BY <1>1
<1>5. PICK r : r = Enqueue(queue, "message", id)
  OBVIOUS
<1>6. /\ InOrder(delivered \o r.pending)
      /\ \A sources : "message" \notin sources =>
           Count(delivered \o r.pending, sources) = Count(Accepted, sources)
      /\ \A sources : "message" \in sources =>
           /\ ~r.closed => Count(delivered \o r.pending, sources)
                             = Count(Accepted, sources) + 1
           /\ \/ Count(r.pending, sources) = Count(queue.pending, sources)
              \/ Count(r.pending, sources) = Count(queue.pending, sources) + 1
  <2>1. InOrder(delivered \o queue.pending)
    BY DEF OInv, Accepted
  <2>2. \A sources \in Groups : "message" \in sources =>
          id = Count(delivered \o queue.pending, sources) + 1
    BY <1>3, <1>4 DEF Accepted
  <2>3. QED
    BY <1>1, <1>5, <2>1, <2>2, EnqueueCounts DEF Accepted
<1>7. /\ r \in Queues /\ queue' = WaitForDrain(r, "producer")
      /\ r.closed => r.failure = "overflow"
  <2>1. r \in Queues
    BY <1>1, <1>5, EnqueueSound DEF OInv, HInv, IInv, Sound
  <2>2. r.closed => r.failure = "overflow"
    BY <1>1, <1>5, EnqueueCases
  <2>3. QED
    BY <1>1, <1>4, <1>5, <2>1, <2>2
<1>8. /\ queue'.pending = r.pending /\ queue'.closed = r.closed
      /\ queue'.failure = r.failure
      /\ r.closed \/ Len(r.pending) < HighWater \/ "producer" \in queue'.drainWaiters
  BY <1>7 DEF WaitForDrain, Queues
<1>9. Accepted' = delivered \o r.pending
  BY <1>1, <1>8 DEF Accepted
<1>10. /\ ~r.closed => Count(Accepted', {"message"}) = Count(Accepted, {"message"}) + 1
       /\ Count(Accepted', {"result"}) = Count(Accepted, {"result"})
       /\ Count(Accepted', {"done"}) = Count(Accepted, {"done"})
       /\ Count(Accepted', {"delta", "step"}) = Count(Accepted, {"delta", "step"})
  <2>1. /\ "message" \notin {"result"} /\ "message" \notin {"done"}
        /\ "message" \notin {"delta", "step"} /\ "message" \in {"message"}
    OBVIOUS
  <2>2. QED
    BY <1>6, <1>9, <2>1
<1>11. /\ Count(r.pending, {"message"}) <= HighWater
       /\ Count(r.pending, {"message"}) <= Len(r.pending)
       /\ Count(r.pending, {"message"}) \in Nat /\ Len(r.pending) \in Nat
  <2>1. r.pending \in Seq(Events) /\ queue.pending \in Seq(Events)
    BY <1>1, <1>7 DEF Queues
  <2>2. /\ Count(r.pending, {"message"}) \in Nat
        /\ Count(queue.pending, {"message"}) \in Nat
        /\ Count(r.pending, {"message"}) <= Len(r.pending)
    BY <2>1, CountType, CountBounded
  <2>3. Count(queue.pending, {"message"}) < HighWater
    BY <1>1 DEF OInv, Room
  <2>4. \/ Count(r.pending, {"message"}) = Count(queue.pending, {"message"})
        \/ Count(r.pending, {"message"}) = Count(queue.pending, {"message"}) + 1
    BY <1>6
  <2>5. QED
    BY <2>1, <2>2, <2>3, <2>4, QueueLimits
<1>12. InOrder(Accepted)'
  BY <1>6, <1>9
<1>13. Complete'
  BY <1>1, <1>7, <1>8, <1>10 DEF OInv, Complete
<1>14. Room'
  BY <1>8, <1>11, QueueLimits DEF Room
<1>15. QED
  BY <1>12, <1>13, <1>14

\* The result and the end marker are logged once, after everything else.
LEMMA ResultCounts ==
  ASSUME OInv, ProducerResult
  PROVE  InOrder(Accepted)' /\ Complete' /\ Room'
<1>1. /\ queue \in Queues /\ delivered \in Seq(Events)
      /\ "result" \in Sources /\ "done" \in Sources
      /\ producer = "wait" /\ producer' = "finished"
      /\ UNCHANGED << streamed, callbacks, delivered, outcome >>
  BY SourcesOfSteps DEF OInv, HInv, IInv, TypeOK, ProducerResult
<1>2. PICK id \in Nat : id = 1
  OBVIOUS
<1>3. PICK a : a = Enqueue(queue, "result", id)
  OBVIOUS
<1>4. PICK b : b = Enqueue(a, "done", id)
  OBVIOUS
<1>5. a \in Queues /\ b \in Queues
  BY <1>1, <1>3, <1>4, EnqueueSound DEF OInv, HInv, IInv, Sound
<1>6. queue' = Close(b)
  BY <1>2, <1>3, <1>4 DEF ProducerResult
<1>7. /\ \A sources \in Groups : "result" \in sources => sources = {"result"}
      /\ \A sources \in Groups : "done" \in sources => sources = {"done"}
      /\ "message" \notin {"result"} /\ "message" \notin {"done"}
  BY DEF Groups
<1>8. /\ Count(delivered \o queue.pending, {"result"}) = 0
      /\ Count(delivered \o queue.pending, {"done"}) = 0
      /\ InOrder(delivered \o queue.pending)
  BY <1>1 DEF OInv, Complete, Accepted
<1>9. /\ InOrder(delivered \o a.pending)
      /\ \A sources : "result" \notin sources =>
           /\ Count(delivered \o a.pending, sources)
                = Count(delivered \o queue.pending, sources)
           /\ Count(a.pending, sources) = Count(queue.pending, sources)
  <2>1. \A sources \in Groups : "result" \in sources =>
          id = Count(delivered \o queue.pending, sources) + 1
    <3> SUFFICES ASSUME NEW sources \in Groups, "result" \in sources
                 PROVE  id = Count(delivered \o queue.pending, sources) + 1
      OBVIOUS
    <3>1. sources = {"result"}
      BY <1>7
    <3>2. Count(delivered \o queue.pending, sources) = 0
      BY <1>8, <3>1
    <3>3. QED
      BY ONLY <1>2, <3>2
  <2>2. QED
    BY <1>1, <1>3, <1>8, <2>1, EnqueueCounts
<1>10. /\ InOrder(delivered \o b.pending)
       /\ \A sources : "done" \notin sources =>
            /\ Count(delivered \o b.pending, sources)
                 = Count(delivered \o a.pending, sources)
            /\ Count(b.pending, sources) = Count(a.pending, sources)
  <2>1. Count(delivered \o a.pending, {"done"}) = 0
    BY <1>8, <1>9
  <2>2. \A sources \in Groups : "done" \in sources =>
          id = Count(delivered \o a.pending, sources) + 1
    <3> SUFFICES ASSUME NEW sources \in Groups, "done" \in sources
                 PROVE  id = Count(delivered \o a.pending, sources) + 1
      OBVIOUS
    <3>1. sources = {"done"}
      BY <1>7
    <3>2. Count(delivered \o a.pending, sources) = 0
      BY <2>1, <3>1
    <3>3. QED
      BY ONLY <1>2, <3>2
  <2>3. QED
    BY <1>1, <1>4, <1>5, <1>9, <2>2, EnqueueCounts
<1>11. /\ queue'.closed /\ queue'.pending = b.pending
       /\ queue.closed => queue' = queue
  <2>1. queue.closed => a = queue /\ b = queue
    BY <1>1, <1>3, <1>4, MethodsOnControl
  <2>2. QED
    BY <1>5, <1>6, <2>1, CloseCloses DEF Close
<1>12. /\ Accepted' = delivered \o b.pending
       /\ Count(Accepted', {"message"}) = Count(Accepted, {"message"})
       /\ Count(queue'.pending, {"message"}) = Count(queue.pending, {"message"})
  <2>1. /\ "result" \notin {"message"} /\ "done" \notin {"message"}
    OBVIOUS
  <2>2. Accepted' = delivered \o b.pending
    BY <1>1, <1>11 DEF Accepted
  <2>3. QED
    BY <1>9, <1>10, <1>11, <2>1, <2>2 DEF Accepted
<1>13. InOrder(Accepted)'
  BY <1>10, <1>12
<1>14. Complete'
  BY <1>1, <1>11, <1>12 DEF OInv, Complete
<1>15. Room'
  BY <1>1, <1>11, <1>12 DEF OInv, Room
<1>16. QED
  BY <1>13, <1>14, <1>15

\* Handing an event to the reader makes room, and wakes the producer only
\* when there is some.
LEMMA TakeCounts ==
  ASSUME OInv, ConsumerTake
  PROVE  InOrder(Accepted)' /\ Complete' /\ Room'
<1>1. /\ queue \in Queues /\ delivered \in Seq(Events)
      /\ queue.pending # << >> /\ queue.pending \in Seq(Events)
      /\ queue' = Shift(queue)
      /\ delivered' = Append(delivered, Head(queue.pending))
      /\ UNCHANGED << producer, streamed, callbacks, outcome >>
  BY DEF OInv, HInv, IInv, TypeOK, ConsumerTake, Queues
<1>2. PICK rest : rest = Tail(queue.pending)
  OBVIOUS
<1>3. /\ queue'.pending = rest /\ queue'.closed = queue.closed
      /\ queue'.failure = queue.failure
      /\ \/ Len(rest) < HighWater
         \/ queue'.drainWaiters = queue.drainWaiters
  BY <1>1, <1>2 DEF Shift, NotifyDrain, Queues
<1>4. Accepted' = Accepted
  BY <1>1, <1>2, <1>3, TakeKeepsLog DEF Accepted
<1>5. PICK before \in Nat : before = Count(queue.pending, {"message"})
  BY <1>1, CountType
<1>6. /\ Count(rest, {"message"}) <= before
      /\ Count(rest, {"message"}) <= Len(rest)
      /\ Count(rest, {"message"}) \in Nat /\ Len(rest) \in Nat
  <2>1. rest \in Seq(Events)
    BY <1>1, <1>2
  <2>2. Count(Tail(queue.pending), {"message"}) <= Count(queue.pending, {"message"})
    BY <1>1, TailCount
  <2>3. Count(rest, {"message"}) \in Nat /\ Count(rest, {"message"}) <= Len(rest)
    BY <2>1, CountBounded, CountType
  <2>4. QED
    BY <1>2, <1>5, <2>1, <2>2, <2>3
<1>7. HighWater \in Nat /\ before <= HighWater
  BY <1>5, QueueLimits DEF OInv, Room
<1>8. Count(queue'.pending, {"message"}) <= HighWater
  BY <1>3, <1>6, <1>7
<1>9. ASSUME ~queue'.closed, producer' # "finished",
             "producer" \notin queue'.drainWaiters
      PROVE  Count(queue'.pending, {"message"}) < HighWater
  <2>1. CASE Len(rest) < HighWater
    BY <1>3, <1>6, <1>7, <2>1
  <2>2. CASE queue'.drainWaiters = queue.drainWaiters
    <3>1. before < HighWater
      BY <1>1, <1>3, <1>5, <1>9, <2>2 DEF OInv, Room
    <3>2. QED
      BY <1>3, <1>6, <1>7, <3>1
  <2>3. QED
    BY <1>3, <2>1, <2>2
<1>10. QED
  BY <1>1, <1>3, <1>4, <1>8, <1>9, SameLogStep

\* No other step changes the log.
LEMMA OtherCounts ==
  ASSUME OInv, [Next]_vars,
         ~(\E source \in {"delta", "step"} : Callback(source)),
         ~ProducerMessage, ~ProducerResult, ~ConsumerTake
  PROVE  InOrder(Accepted)' /\ Complete' /\ Room'
<1>1. /\ TypeOK /\ Control /\ Honest /\ queue \in Queues
      /\ Complete /\ Room
  BY DEF OInv, HInv, IInv, TypeOK
<1>2. ASSUME /\ queue'.pending = queue.pending /\ delivered' = delivered
             /\ streamed' = streamed /\ callbacks' = callbacks
             /\ ~queue'.closed => ~queue.closed
             /\ producer' # "finished" => producer # "finished"
             /\ queue'.closed /\ queue'.failure = "none" /\ outcome' # "abandoned"
                  => queue.closed /\ queue.failure = "none" /\ outcome # "abandoned"
             /\ ~queue'.closed /\ producer' # "finished" =>
                  queue'.drainWaiters = queue.drainWaiters
      PROVE  InOrder(Accepted)' /\ Complete' /\ Room'
  <2>1. Accepted' = Accepted
    BY <1>2 DEF Accepted
  <2>2. Count(queue'.pending, {"message"}) <= HighWater
    BY <1>1, <1>2 DEF Room
  <2>3. ~queue'.closed /\ producer' # "finished"
          /\ "producer" \notin queue'.drainWaiters =>
            Count(queue'.pending, {"message"}) < HighWater
    BY <1>1, <1>2 DEF Room
  <2>4. QED
    BY <1>2, <2>1, <2>2, <2>3, SameLogStep
<1>3. CASE SendReturns
  <2>1. UNCHANGED << queue, delivered, streamed, callbacks, outcome >>
        /\ producer # "finished"
    BY <1>1, <1>3 DEF SendReturns, Control
  <2>2. QED
    BY <1>2, <2>1
<1>4. CASE SendFails
  <2>1. UNCHANGED << queue, producer, delivered, streamed, callbacks >>
        /\ outcome = "none"
    BY <1>1, <1>4 DEF SendFails, Honest
  <2>2. QED
    BY <1>2, <2>1
<1>5. CASE ProducerLateMessage
  <2>1. /\ queue' = queue /\ queue.closed /\ UNCHANGED << delivered, outcome >>
        /\ producer' = "finished"
        /\ ~(queue.failure = "none" /\ outcome # "abandoned")
    BY <1>1, <1>5 DEF ProducerLateMessage, Honest
  <2>2. Accepted' = Accepted
    BY <2>1 DEF Accepted
  <2>3. Count(queue'.pending, {"message"}) <= HighWater
    BY <1>1, <2>1 DEF Room
  <2>4. QED
    BY <2>1, <2>2, <2>3, SameLogStep
<1>6. CASE ProducerDrained
  BY <1>1, <1>2, <1>6 DEF ProducerDrained
<1>7. CASE ProducerStreamEnds
  BY <1>1, <1>2, <1>7 DEF ProducerStreamEnds
<1>8. CASE ProducerStreamFails \/ ProducerWaitFails
  <2>1. /\ queue'.pending = queue.pending /\ queue'.closed
        /\ queue'.failure # "none"
    BY <1>1, <1>8, FailEffect
    DEF ProducerStreamFails, ProducerWaitFails, Failures
  <2>2. QED
    BY <1>1, <1>2, <1>8, <2>1 DEF ProducerStreamFails, ProducerWaitFails
<1>9. CASE ConsumerPark
  <2>1. /\ queue'.pending = queue.pending /\ queue'.closed = queue.closed
        /\ queue'.failure = queue.failure
        /\ queue'.drainWaiters = queue.drainWaiters
    BY <1>1, <1>9 DEF ConsumerPark, Park, Queues
  <2>2. QED
    BY <1>1, <1>2, <1>9, <2>1 DEF ConsumerPark
<1>10. CASE ConsumerFinally
  <2>1. /\ queue'.pending = queue.pending /\ queue'.closed
        /\ queue'.failure = queue.failure
    BY <1>1, <1>10, CloseCloses DEF ConsumerFinally
  <2>2. outcome # "abandoned" => queue.closed
    BY <1>1, <1>10 DEF ConsumerFinally, Honest, TypeOK, Outcomes
  <2>3. QED
    BY <1>1, <1>2, <1>10, <2>1, <2>2 DEF ConsumerFinally
<1>11. CASE ConsumerAbandon
  BY <1>1, <1>2, <1>11 DEF ConsumerAbandon
<1>12. CASE ConsumerThrow \/ ConsumerReturn
  BY <1>1, <1>2, <1>12 DEF ConsumerThrow, ConsumerReturn, Honest
<1>13. CASE \/ ConsumerResume \/ ConsumerWake \/ ConsumerReturned
            \/ ConsumerJoin \/ UNCHANGED vars
  BY <1>1, <1>2, <1>13
  DEF ConsumerResume, ConsumerWake, ConsumerReturned, ConsumerJoin, vars
<1>14. QED
  BY <1>3, <1>4, <1>5, <1>6, <1>7, <1>8, <1>9, <1>10, <1>11, <1>12, <1>13
  DEF Next, Sdk, Producer, Consumer, Terminated

\* The log is what its sources produced, for all limits and any number of
\* messages and callbacks.
THEOREM OrderInvariant == Spec => []OInv
<1>1. Init => OInv
  BY InitIInv, HonestInit, CountsInit DEF OInv, HInv
<1>2. OInv /\ [Next]_vars => OInv'
  <2> SUFFICES ASSUME OInv, [Next]_vars PROVE OInv'
    OBVIOUS
  <2>1. HInv'
    BY NextIInv, HonestNext DEF OInv, HInv
  <2>2. InOrder(Accepted)' /\ Complete' /\ Room'
    BY CallbackCounts, MessageCounts, ResultCounts, TakeCounts, OtherCounts
  <2>3. QED
    BY <2>1, <2>2 DEF OInv
<1>3. QED
  BY <1>1, <1>2, PTL DEF Spec

\* Merging keeps each source's order and loses nothing before the close.
THEOREM SourcesInOrder == Spec => []SourceOrder
<1>1. OInv => SourceOrder
  BY DEF OInv, InOrder, Groups, SourceOrder
<1>2. QED
  BY <1>1, OrderInvariant, PTL

\* The buffer never passes its hard limit, nor SDK messages the high-water
\* mark.
THEOREM BufferBounded == Spec => []BoundedBuffer
<1>1. OInv => BoundedBuffer
  BY DEF OInv, HInv, IInv, Sound, Room, Count, BoundedBuffer
<1>2. QED
  BY <1>1, OrderInvariant, PTL

\* A clean end is complete, and an error comes after everything accepted
\* before it.
THEOREM EndsHonestly == Spec => []HonestEnd
<1>1. OInv => HonestEnd
  <2> SUFFICES ASSUME OInv PROVE HonestEnd
    OBVIOUS
  <2>1. delivered \in Seq(Events) /\ Honest /\ Complete
    BY DEF OInv, HInv, IInv, TypeOK
  <2>2. delivered \o << >> = delivered
    BY <2>1, ConcatEmptySeq
  <2>3. outcome \in {"ended", "overflow", "stream"} =>
          queue.pending = << >> /\ queue.closed /\ Accepted = delivered
    BY <2>1, <2>2 DEF Honest, Accepted
  <2>4. QED
    BY <2>1, <2>3 DEF Honest, EndsInDone, Complete, Count, HonestEnd
<1>2. QED
  BY <1>1, OrderInvariant, PTL

-----------------------------------------------------------------------------
(* The refinement: what the producer and the callbacks append, grows the   *)
(* abstract log; what the reader takes, is the abstract reader's.          *)

\* One event appended at the end of the log, with the next number, is a
\* growth of the abstract log.
LEMMA GrowByOne ==
  ASSUME NEW e \in Events,
         Accepted \in Seq(Events),
         Accepted' = Append(Accepted, e),
         e.offset = Len(Accepted) + 1
  PROVE  Abstract!Grow(<< e.source >>)
<1>1. Abstract!LogEvents = Events
  BY DEF Abstract!LogEvents, Events
<1> DEFINE l == Accepted
           m == Accepted'
<1>2. /\ m \in Seq(Events) /\ Len(m) = Len(l) + 1
      /\ \A i \in 1..Len(l) : m[i] = l[i]
      /\ m[Len(l) + 1] = e
  OBVIOUS
<1> HIDE DEF l, m
<1>3. \A i \in 1..1 : /\ m[Len(l) + i].source = << e.source >>[i]
                      /\ m[Len(l) + i].offset = Len(l) + i
  BY <1>2 DEF l
<1>4. QED
  BY <1>1, <1>2, <1>3 DEF Abstract!Grow, l, m

\* Two events appended with the next numbers grow the abstract log by two.
LEMMA GrowByTwo ==
  ASSUME NEW e \in Events, NEW f \in Events,
         Accepted \in Seq(Events),
         Accepted' = Append(Append(Accepted, e), f),
         e.offset = Len(Accepted) + 1,
         f.offset = Len(Accepted) + 2
  PROVE  Abstract!Grow(<< e.source, f.source >>)
<1>1. Abstract!LogEvents = Events
  BY DEF Abstract!LogEvents, Events
<1> DEFINE l == Accepted
           m == Accepted'
<1>2. /\ m \in Seq(Events) /\ Len(m) = Len(l) + 2
      /\ \A i \in 1..Len(l) : m[i] = l[i]
      /\ m[Len(l) + 1] = e
      /\ m[Len(l) + 2] = f
  OBVIOUS
<1> HIDE DEF l, m
<1>3. \A i \in 1..2 :
        /\ m[Len(l) + i].source = << e.source, f.source >>[i]
        /\ m[Len(l) + i].offset = Len(l) + i
  <2>1. \A i \in 1..2 : i = 1 \/ i = 2
    OBVIOUS
  <2>2. QED
    BY <1>2, <2>1 DEF l
<1>4. QED
  BY <1>1, <1>2, <1>3 DEF Abstract!Grow, l, m

\* Initial states map to initial states.
LEMMA RefinedInit == Init => Abstract!AbsInit
<1> SUFFICES ASSUME Init PROVE Abstract!AbsInit
  OBVIOUS
<1>1. Accepted = << >> /\ Len(delivered) = 0
  BY DEF Init, EmptyQueue, Accepted
<1>2. QED
  BY <1>1 DEF Init, EmptyQueue, Status, Abstract!AbsInit

\* Every step of the code is a step of the abstract stream or a stutter.
LEMMA RefinedNext ==
  HInv /\ [Next]_vars => [Abstract!AbsNext]_(Abstract!absVars)
<1> SUFFICES ASSUME HInv, [Next]_vars
             PROVE  [Abstract!AbsNext]_(Abstract!absVars)
  OBVIOUS
<1>1. /\ TypeOK /\ Control /\ Honest
      /\ Sound(queue, Len(delivered)) /\ queue \in Queues
      /\ queue.pending \in Seq(Events) /\ delivered \in Seq(Events)
      /\ queue.offset \in Nat /\ callbacks \in Nat /\ streamed \in Nat
      /\ Len(delivered) \in Nat
      /\ Accepted \in Seq(Events)
      /\ Len(Accepted) = Len(delivered) + Len(queue.pending)
      /\ queue.offset = Len(Accepted)
  <2>1. TypeOK /\ Honest /\ Control /\ Sound(queue, Len(delivered))
    BY DEF HInv, IInv
  <2>2. /\ queue \in Queues /\ queue.pending \in Seq(Events)
        /\ delivered \in Seq(Events) /\ queue.offset \in Nat
        /\ callbacks \in Nat /\ streamed \in Nat /\ Len(delivered) \in Nat
    BY <2>1 DEF TypeOK, Queues
  <2>3. /\ Accepted \in Seq(Events)
        /\ Len(Accepted) = Len(delivered) + Len(queue.pending)
    BY <2>2, ConcatProperties DEF Accepted
  <2>4. queue.offset = Len(delivered) + Len(queue.pending)
    BY <2>1 DEF Sound, Numbered
  <2>5. QED
    BY <2>1, <2>2, <2>3, <2>4
<1>2. ASSUME NEW source \in Sources \ {"result", "done"}, NEW id \in Nat,
             NEW q \in Queues, q = Enqueue(queue, source, id),
             queue'.pending = q.pending, queue'.closed = q.closed,
             queue'.failure = q.failure,
             ~queue.closed,
             UNCHANGED << delivered, outcome >>
      PROVE  Abstract!AbsNext
  <2> DEFINE e == [offset |-> queue.offset + 1, source |-> source, id |-> id]
  <2>1. \/ /\ ~queue.closed /\ q.closed /\ q.failure = "overflow"
           /\ q.pending = queue.pending
        \/ /\ ~queue.closed /\ ~q.closed /\ q.failure = queue.failure
           /\ q.pending = Append(queue.pending, e)
    BY <1>1, <1>2, EnqueueCases
  <2>2. e \in Events /\ e.source = source /\ e.offset = Len(Accepted) + 1
    BY <1>1, <1>2 DEF Events
  <2>3. UNCHANGED << Len(delivered), Status >>
    BY <1>2 DEF Status
  <2> HIDE DEF e
  <2>4. CASE q.closed
    <3>1. Accepted' = Accepted
      BY <1>2, <2>1, <2>4 DEF Accepted
    <3>2. Abstract!Break
      BY <1>2, <2>1, <2>3, <2>4, <3>1 DEF Abstract!Break
    <3>3. QED
      BY <3>2 DEF Abstract!AbsNext
  <2>5. CASE ~q.closed
    <3>1. Accepted' = Append(Accepted, e)
      <4>1. delivered \o Append(queue.pending, e)
              = Append(delivered \o queue.pending, e)
        BY <1>1, <2>2, AppendToLog
      <4>2. delivered' = delivered /\ queue'.pending = Append(queue.pending, e)
        BY <1>2, <2>1, <2>5
      <4>3. QED
        BY <4>1, <4>2 DEF Accepted
    <3>2. Abstract!Grow(<< source >>)
      BY <1>1, <2>2, <3>1, GrowByOne
    <3>3. Abstract!Publish
      <4>1. queue'.closed = queue.closed /\ queue'.failure = queue.failure
        BY <1>1, <1>2, <2>1, <2>5 DEF Queues
      <4>2. QED
        BY <1>2, <2>1, <2>3, <2>5, <3>2, <4>1 DEF Abstract!Publish
    <3>4. QED
      BY <3>3 DEF Abstract!AbsNext
  <2>6. QED
    BY <2>4, <2>5
<1>3. ASSUME queue' = Fail(queue, "stream"), UNCHANGED << delivered, outcome >>
      PROVE  Abstract!AbsNext
  <2>1. /\ queue'.pending = queue.pending /\ queue'.closed
        /\ queue'.failure # "none"
    BY <1>1, <1>3, FailEffect DEF Failures
  <2>2. Accepted' = Accepted /\ UNCHANGED << Len(delivered), Status >>
    BY <1>3, <2>1 DEF Accepted, Status
  <2>3. Abstract!Break
    BY <2>1, <2>2 DEF Abstract!Break
  <2>4. QED
    BY <2>3 DEF Abstract!AbsNext
<1>4. ASSUME NEW source \in {"delta", "step"}, Callback(source)
      PROVE  [Abstract!AbsNext]_(Abstract!absVars)
  <2>1. /\ source \in Sources \ {"result", "done"} /\ callbacks + 1 \in Nat
        /\ queue' = Enqueue(queue, source, callbacks + 1)
        /\ UNCHANGED << delivered, outcome >>
    BY <1>1, <1>4, SourcesOfSteps DEF Callback
  <2>2. queue' \in Queues
    BY <1>1, <2>1, EnqueueSound DEF Sound
  <2>3. CASE queue.closed
    <3>1. queue' = queue
      BY <1>1, <2>1, <2>3, EnqueueCases
    <3>2. QED
      BY <2>1, <3>1 DEF Accepted, Status, Abstract!absVars
  <2>4. CASE ~queue.closed
    BY <1>2, <2>1, <2>2, <2>4
  <2>5. QED
    BY <2>3, <2>4
<1>5. CASE SendReturns
  BY <1>1, <1>5 DEF SendReturns, Accepted, Status, Abstract!absVars
<1>6. CASE SendFails
  <2>1. Status = "open" /\ Status' = "abandoned"
    BY <1>1, <1>6 DEF SendFails, Honest, Status
  <2>2. Abstract!Abandon
    BY <1>6, <2>1 DEF SendFails, Accepted, Abstract!Abandon
  <2>3. QED
    BY <2>2 DEF Abstract!AbsNext
<1>7. CASE ProducerMessage
  <2> DEFINE q == Enqueue(queue, "message", streamed + 1)
  <2>1. /\ "message" \in Sources \ {"result", "done"} /\ streamed + 1 \in Nat
        /\ ~queue.closed /\ UNCHANGED << delivered, outcome >>
        /\ queue' = WaitForDrain(q, "producer")
    BY <1>1, <1>7, SourcesOfSteps DEF ProducerMessage
  <2>2. q \in Queues
    BY <1>1, <2>1, EnqueueSound DEF Sound
  <2>3. q = Enqueue(queue, "message", streamed + 1)
    OBVIOUS
  <2> HIDE DEF q
  <2>4. /\ queue'.pending = q.pending /\ queue'.closed = q.closed
        /\ queue'.failure = q.failure
    BY <2>1, <2>2 DEF WaitForDrain, Queues
  <2>5. QED
    BY <1>2, <2>1, <2>2, <2>3, <2>4
<1>8. CASE ProducerLateMessage
  BY <1>1, <1>8 DEF ProducerLateMessage, Accepted, Status, Abstract!absVars
<1>9. CASE ProducerDrained
  BY <1>1, <1>9 DEF ProducerDrained, Accepted, Status, Abstract!absVars
<1>10. CASE ProducerStreamEnds
  BY <1>1, <1>10 DEF ProducerStreamEnds, Accepted, Status, Abstract!absVars
<1>11. CASE ProducerStreamFails
  BY <1>3, <1>11 DEF ProducerStreamFails
<1>12. CASE ProducerWaitFails
  BY <1>3, <1>12 DEF ProducerWaitFails
<1>13. CASE ProducerResult
  <2> DEFINE e == [offset |-> queue.offset + 1, source |-> "result", id |-> 1]
             f == [offset |-> queue.offset + 2, source |-> "done", id |-> 1]
  <2>1. /\ e \in Events /\ e.source = "result" /\ e.offset = Len(Accepted) + 1
        /\ f \in Events /\ f.source = "done" /\ f.offset = Len(Accepted) + 2
    BY <1>1, SourcesOfSteps DEF Events
  <2>2. /\ queue'.closed
        /\ queue.closed => queue' = queue
        /\ ~queue.closed =>
             \/ queue'.failure # "none" /\ queue'.pending = queue.pending
             \/ queue'.failure # "none" /\ queue'.pending = Append(queue.pending, e)
             \/ /\ queue'.failure = queue.failure
                /\ queue'.pending = Append(Append(queue.pending, e), f)
    <3>1. queue' = Close(Enqueue(Enqueue(queue, "result", 1), "done", 1))
      BY <1>13 DEF ProducerResult
    <3> HIDE DEF e, f
    <3>2. QED
      BY <1>1, <3>1, ResultEffect DEF e, f
  <2>3. UNCHANGED << delivered, outcome, Len(delivered), Status >>
    BY <1>13 DEF ProducerResult, Status
  <2> HIDE DEF e, f
  <2>4. CASE queue.closed
    BY <2>2, <2>3, <2>4 DEF Accepted, Abstract!absVars
  <2>5. CASE /\ ~queue.closed
             /\ queue'.failure # "none" /\ queue'.pending = queue.pending
    <3>1. Accepted' = Accepted
      BY <2>3, <2>5 DEF Accepted
    <3>2. Abstract!Break
      BY <2>2, <2>3, <2>5, <3>1 DEF Abstract!Break
    <3>3. QED
      BY <3>2 DEF Abstract!AbsNext
  <2>6. CASE /\ ~queue.closed
             /\ queue'.failure # "none"
             /\ queue'.pending = Append(queue.pending, e)
    <3>1. Accepted' = Append(Accepted, e)
      BY <1>1, <2>1, <2>3, <2>6, AppendToLog DEF Accepted
    <3>2. Abstract!Grow(<< "result" >>)
      BY <1>1, <2>1, <3>1, GrowByOne
    <3>3. Abstract!Break
      BY <2>2, <2>3, <2>6, <3>2 DEF Abstract!Break
    <3>4. QED
      BY <3>3 DEF Abstract!AbsNext
  <2>7. CASE /\ ~queue.closed
             /\ queue'.failure = queue.failure
             /\ queue'.pending = Append(Append(queue.pending, e), f)
    <3>1. Append(queue.pending, e) \in Seq(Events)
      BY <1>1, <2>1
    <3>2. Accepted' = Append(Append(Accepted, e), f)
      <4>1. /\ delivered \o Append(queue.pending, e) = Append(Accepted, e)
            /\ delivered \o Append(Append(queue.pending, e), f)
                 = Append(delivered \o Append(queue.pending, e), f)
        BY <1>1, <2>1, <3>1, AppendToLog DEF Accepted
      <4>2. Accepted' = delivered \o Append(Append(queue.pending, e), f)
        BY <2>3, <2>7 DEF Accepted
      <4>3. QED
        BY <4>1, <4>2
    <3>3. Abstract!Grow(<< "result", "done" >>)
      BY <1>1, <2>1, <3>2, GrowByTwo
    <3>4. Abstract!PublishEnd
      BY <2>2, <2>3, <2>7, <3>3 DEF Abstract!PublishEnd
    <3>5. QED
      BY <3>4 DEF Abstract!AbsNext
  <2>8. QED
    BY <2>2, <2>4, <2>5, <2>6, <2>7
<1>14. CASE ConsumerTake
  <2>1. /\ queue'.closed = queue.closed /\ queue'.failure = queue.failure
        /\ queue'.pending = Tail(queue.pending)
    BY <1>1, <1>14 DEF ConsumerTake, Shift, NotifyDrain, Queues
  <2>2. Accepted' = Accepted
    BY <1>1, <1>14, <2>1, TakeKeepsLog DEF ConsumerTake, Accepted
  <2>3. Status = "open" /\ Status' = Status
    BY <1>1, <1>14 DEF ConsumerTake, Honest, Status
  <2>4. /\ Len(delivered') = Len(delivered) + 1
        /\ Len(delivered) < Len(Accepted)
    <3>1. Len(queue.pending) > 0 /\ Head(queue.pending) \in Events
      BY <1>1, <1>14 DEF ConsumerTake
    <3> DEFINE length == Len(queue.pending)
    <3>2. length \in Nat /\ length > 0 /\ Len(Accepted) = Len(delivered) + length
      BY <1>1, <3>1
    <3> HIDE DEF length
    <3>3. Len(delivered) < Len(Accepted)
      BY <1>1, <3>2
    <3>4. QED
      BY <1>1, <1>14, <3>1, <3>3 DEF ConsumerTake
  <2>5. Abstract!Read
    BY <2>1, <2>2, <2>3, <2>4 DEF Abstract!Read
  <2>6. QED
    BY <2>5 DEF Abstract!AbsNext
<1>15. CASE ConsumerAbandon
  <2>1. Status = "open" /\ Status' = "abandoned"
    BY <1>1, <1>15 DEF ConsumerAbandon, Honest, Status
  <2>2. Abstract!Abandon
    BY <1>15, <2>1 DEF ConsumerAbandon, Accepted, Abstract!Abandon
  <2>3. QED
    BY <2>2 DEF Abstract!AbsNext
<1>16. ASSUME queue.pending = << >>
       PROVE  Len(delivered) = Len(Accepted) /\ Accepted = delivered
  BY <1>1, <1>16, ConcatEmptySeq DEF Accepted
<1>17. CASE ConsumerThrow
  <2>1. /\ queue.failure \in {"overflow", "stream"}
        /\ outcome = "none" /\ outcome' = queue.failure
    BY <1>1, <1>17 DEF ConsumerThrow, Honest, Queues, Failures
  <2>2. Status = "open" /\ Status' = "failed"
    BY <2>1 DEF Status
  <2>3. Len(delivered) = Len(Accepted)
    BY <1>16, <1>17 DEF ConsumerThrow
  <2>4. Abstract!Error
    BY <1>17, <2>2, <2>3 DEF ConsumerThrow, Accepted, Abstract!Error
  <2>5. QED
    BY <2>4 DEF Abstract!AbsNext
<1>18. CASE ConsumerReturn
  <2>1. Status = "open" /\ Status' = "ended"
    BY <1>1, <1>18 DEF ConsumerReturn, Honest, Status
  <2>2. EndsInDone(Accepted)
    BY <1>1, <1>18 DEF ConsumerReturn, Honest
  <2>3. Len(delivered) = Len(Accepted) /\ Accepted = delivered
    BY <1>16, <1>18 DEF ConsumerReturn
  <2>4. /\ queue.closed /\ ~(queue.failure # "none")
        /\ UNCHANGED << queue, delivered >>
    BY <1>18 DEF ConsumerReturn
  <2>5. Accepted # << >> /\ Accepted[Len(Accepted)].source = "done"
    BY <1>1, <2>2 DEF EndsInDone
  <2>6. Abstract!End
    BY <2>1, <2>3, <2>4, <2>5 DEF Accepted, Abstract!End
  <2>7. QED
    BY <2>6 DEF Abstract!AbsNext
<1>19. CASE ConsumerPark
  <2>1. /\ queue'.closed = queue.closed /\ queue'.failure = queue.failure
        /\ queue'.pending = queue.pending
    BY <1>1, <1>19 DEF ConsumerPark, Park, Queues
  <2>2. QED
    BY <1>19, <2>1 DEF ConsumerPark, Accepted, Status, Abstract!absVars
<1>20. CASE ConsumerFinally
  <2>1. /\ queue'.closed /\ queue'.failure = queue.failure
        /\ queue'.pending = queue.pending
    BY <1>1, <1>20, CloseCloses DEF ConsumerFinally
  <2>2. Status # "open"
    BY <1>1, <1>20 DEF ConsumerFinally, Honest, Status, TypeOK, Outcomes
  <2>3. Abstract!Seal
    BY <1>20, <2>1, <2>2 DEF ConsumerFinally, Accepted, Status, Abstract!Seal
  <2>4. QED
    BY <2>3 DEF Abstract!AbsNext
<1>21. CASE \/ ConsumerResume \/ ConsumerWake \/ ConsumerReturned
            \/ ConsumerJoin \/ UNCHANGED vars
  BY <1>21 DEF ConsumerResume, ConsumerWake, ConsumerReturned, ConsumerJoin,
     vars, Accepted, Status, Abstract!absVars
<1>22. QED
  BY <1>4, <1>5, <1>6, <1>7, <1>8, <1>9, <1>10, <1>11, <1>12, <1>13, <1>14,
     <1>15, <1>17, <1>18, <1>19, <1>20, <1>21
  DEF Next, Sdk, Producer, Consumer, Terminated

\* A merged Send stream is an ordered run stream, for all queue limits and
\* any number of messages and callbacks.
THEOREM Implements == Spec => ImplementsOrderedRunStream
<1>1. Init => HInv /\ Abstract!AbsInit
  BY InitIInv, HonestInit, RefinedInit DEF HInv
<1>2. HInv /\ [Next]_vars => HInv'
  BY NextIInv, HonestNext DEF HInv
<1>3. QED
  BY <1>1, <1>2, RefinedNext, PTL
  DEF Spec, ImplementsOrderedRunStream, Abstract!AbsSpec
=============================================================================
