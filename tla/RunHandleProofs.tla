---------------------------- MODULE RunHandleProofs ----------------------------
(***************************************************************************)
(* The handle on a run, for any number of messages, answers and listeners: *)
(* the events a caller iterates over, the status and the result it sees,   *)
(* and the listeners it is told through.                                   *)
(***************************************************************************)
EXTENDS RunHandle, SequenceTheorems, FiniteSetTheorems, TLAPS

\* The types of the handle's fields and of what its callers saw.
Types ==
  /\ run \in Statuses /\ status \in Statuses /\ result \in {"none"} \union Statuses
  /\ position \in Nat
  /\ buffer \in Seq(Nat) /\ yielded \in Seq(Nat) /\ handled \in Seq(Nat)
  /\ origin \in {"stream", "snapshot"}
  /\ answers \in Seq(Statuses \union {"failed"})
  /\ listeners \in Seq(Listeners)
  /\ index \in [Listeners -> Nat]
  /\ wanted \subseteq Listeners
  /\ removals \in Nat
  /\ notified \in [Listeners -> Seq(Statuses)]

\* A loop body is given an event by Next only when the buffer is empty.
Buffered ==
  /\ EventsOnce
  /\ reader \in {"next", "yielded"} => buffer = << >>

\* The handle's status follows the run's, and only a snapshot's result may be
\* one of a run that goes on.
Follows ==
  /\ StatusTruth
  /\ origin = "stream" => result # "running"
  /\ \A i \in DOMAIN answers :
       answers[i] \in {run, "failed"} \/ (origin = "snapshot" /\ answers[i] = "running")
  /\ origin = "stream" => \A i \in DOMAIN answers : answers[i] # "running"

\* Until the first unsubscribe a listener stands where its function says it
\* does; no listener stands twice; nobody was told while the run went on.
Listening ==
  /\ \A i, j \in 1..Len(listeners) : listeners[i] = listeners[j] => i = j
  /\ \A i \in 1..Len(listeners) : index[listeners[i]] # 0
  /\ \A l \in wanted : index[l] # 0
  /\ removals = 0 =>
       /\ \A l \in wanted : index[l] \in 1..Len(listeners) /\ listeners[index[l]] = l
       /\ \A i \in 1..Len(listeners) : listeners[i] \in wanted
  /\ removals <= 1 => ToSet(listeners) = wanted
  /\ \A l \in Listeners :
       /\ Len(notified[l]) <= 1
       /\ status = "running" => notified[l] = << >>

\* The inductive invariant.
IInv == Types /\ Buffered /\ Follows /\ Listening

-----------------------------------------------------------------------------
(* Sequences.                                                              *)

\* An element at the end of the second of two is one at the end of both.
LEMMA AppendLast ==
  ASSUME NEW S, NEW s \in Seq(S), NEW t \in Seq(S), NEW e \in S
  PROVE  s \o Append(t, e) = Append(s \o t, e)
  <1>1. Append(t, e) = t \o <<e>> /\ <<e>> \in Seq(S)
    BY AppendIsConcat
  <1>2. s \o t \in Seq(S)
    BY ConcatProperties
  <1>3. Append(s \o t, e) = (s \o t) \o <<e>>
    BY <1>2, AppendIsConcat
  <1> QED
    BY <1>1, <1>3, ConcatAssociative

\* What is left when one element is removed.
LEMMA Removing ==
  ASSUME NEW S, NEW s \in Seq(S), NEW k \in 1..Len(s)
  PROVE  /\ RemoveAt(s, k) \in Seq(S)
         /\ Len(RemoveAt(s, k)) = Len(s) - 1
         /\ \A i \in 1..(Len(s) - 1) :
              RemoveAt(s, k)[i] = IF i < k THEN s[i] ELSE s[i + 1]
  <1> DEFINE a == SubSeq(s, 1, k - 1)
             b == SubSeq(s, k + 1, Len(s))
  <1>1. Len(s) \in Nat
    BY LenProperties
  <1>2. a \in Seq(S) /\ Len(a) = k - 1 /\ \A i \in 1..(k - 1) : a[i] = s[i]
    BY <1>1, SubSeqProperties
  <1>3. b \in Seq(S) /\ Len(b) = Len(s) - k /\ \A i \in 1..(Len(s) - k) : b[i] = s[k + i]
    BY <1>1, SubSeqProperties
  <1> HIDE DEF a, b
  <1>4. /\ a \o b \in Seq(S) /\ Len(a \o b) = Len(a) + Len(b)
        /\ \A i \in 1..(Len(a) + Len(b)) :
             (a \o b)[i] = IF i <= Len(a) THEN a[i] ELSE b[i - Len(a)]
    BY <1>2, <1>3, ConcatProperties
  <1>5. RemoveAt(s, k) = a \o b
    BY DEF RemoveAt, a, b
  <1>6. ASSUME NEW i \in 1..(Len(s) - 1)
        PROVE  (a \o b)[i] = IF i < k THEN s[i] ELSE s[i + 1]
    <2>1. (a \o b)[i] = IF i <= k - 1 THEN a[i] ELSE b[i - (k - 1)]
      BY <1>1, <1>2, <1>3, <1>4
    <2>2. CASE i < k
      BY <1>1, <1>2, <2>1, <2>2
    <2>3. CASE ~(i < k)
      <3>1. i - (k - 1) \in 1..(Len(s) - k) /\ k + (i - (k - 1)) = i + 1
        BY <1>1, <2>3
      <3> QED
        BY <1>1, <1>3, <2>1, <2>3, <3>1
    <2> QED
      BY <2>2, <2>3
  <1> QED
    BY <1>1, <1>2, <1>3, <1>4, <1>5, <1>6

\* A listener that stands at most once is called at most once.
LEMMA CalledOnce ==
  ASSUME listeners \in Seq(Listeners), NEW l,
         \A i, j \in 1..Len(listeners) : listeners[i] = listeners[j] => i = j
  PROVE  Calls(l) \in 0..1
  <1> DEFINE places == {i \in DOMAIN listeners : listeners[i] = l}
  <1>1. CASE places = {}
    BY <1>1, FS_EmptySet DEF Calls
  <1>2. CASE places # {}
    <2>1. PICK i : i \in places
      BY <1>2
    <2>2. DOMAIN listeners = 1..Len(listeners)
      BY LenProperties
    <2>3. places = {i}
      BY <2>1, <2>2
    <2>4. Cardinality({i}) = 1
      BY FS_Singleton
    <2>5. Calls(l) = Cardinality(places)
      BY DEF Calls
    <2> HIDE DEF places
    <2> QED
      BY <2>3, <2>4, <2>5
  <1> QED
    BY <1>1, <1>2

-----------------------------------------------------------------------------
(* The result.                                                             *)

\* The run's result is applied once it has ended: the listeners are told if
\* they were not before, and then only.
LEMMA Applying ==
  ASSUME Types, Follows, Listening, run # "running", ApplyResult(run)
  PROVE  /\ status' = run /\ result' = run /\ run \in Terminal
         /\ notified' \in [Listeners -> Seq(Statuses)]
         /\ \A l \in Listeners : Len(notified'[l]) <= 1
  <1>1. status' = run /\ result' = run /\ run \in Terminal /\ run \in Statuses
    BY DEF ApplyResult, Types, Statuses
  <1>2. CASE run = status
    <2>1. notified' = notified
      BY <1>2 DEF ApplyResult
    <2> QED
      BY <1>1, <2>1 DEF Types, Listening
  <1>3. CASE run # status
    <2>1. status = "running"
      BY <1>3 DEF Follows, StatusTruth, Types, Statuses
    <2>2. notified' = [l \in Listeners |-> notified[l] \o [i \in 1..Calls(l) |-> run]]
      BY <1>3 DEF ApplyResult
    <2>3. ASSUME NEW l \in Listeners
          PROVE  /\ notified[l] \o [i \in 1..Calls(l) |-> run] \in Seq(Statuses)
                 /\ Len(notified[l] \o [i \in 1..Calls(l) |-> run]) <= 1
      <3>1. notified[l] = << >>
        BY <2>1 DEF Listening
      <3>2. Calls(l) \in 0..1
        BY CalledOnce DEF Types, Listening
      <3> DEFINE told == [i \in 1..Calls(l) |-> run]
      <3>3. told \in Seq(Statuses) /\ Len(told) = Calls(l)
        BY <1>1, <3>2, IsASeq, LenProperties
      <3> HIDE DEF told
      <3>4. << >> \o told = told
        BY <3>3, ConcatEmptySeq
      <3> QED
        BY <3>1, <3>2, <3>3, <3>4 DEF told
    <2> QED
      BY <1>1, <2>2, <2>3
  <1> QED
    BY <1>1, <1>2, <1>3

\* What an item handled does to the handle's fields.
LEMMA Handling ==
  ASSUME IInv, Handle, UNCHANGED << runVars, origin, answers, cancel, listenerVars >>
  PROVE  /\ position' = position + 1 /\ handled' = Append(handled, position + 1)
         /\ handled' \in Seq(Nat) /\ position' \in Nat /\ Len(handled') = position'
         /\ \A i \in DOMAIN handled' : handled'[i] = i
         /\ Follows' /\ Listening'
         /\ status' \in Statuses /\ result' \in {"none"} \union Statuses
         /\ notified' \in [Listeners -> Seq(Statuses)]
  <1>1. /\ Types /\ Buffered /\ Follows /\ Listening
        /\ position' = position + 1 /\ handled' = Append(handled, position + 1)
        /\ run' = run /\ origin' = origin /\ answers' = answers /\ cancel' = cancel
        /\ listeners' = listeners /\ index' = index /\ wanted' = wanted /\ removals' = removals
    BY DEF IInv, Handle, runVars, listenerVars
  <1>2. /\ handled' \in Seq(Nat) /\ position' \in Nat /\ Len(handled') = position'
        /\ \A i \in DOMAIN handled' : handled'[i] = i
    <2>1. handled \in Seq(Nat) /\ position \in Nat /\ Len(handled) = position
          /\ \A i \in 1..Len(handled) : handled[i] = i
      BY <1>1, LenProperties DEF Types, Buffered, EventsOnce
    <2> QED
      BY <1>1, <2>1, AppendProperties
  <1>3. CASE IsResult(position + 1)
    <2>1. run # "running" /\ ApplyResult(run)
      BY <1>3 DEF Handle, IsResult
    <2>2. /\ status' = run /\ result' = run /\ run \in Terminal
          /\ notified' \in [Listeners -> Seq(Statuses)]
          /\ \A l \in Listeners : Len(notified'[l]) <= 1
      BY <1>1, <2>1, Applying
    <2>3. Follows'
      BY <1>1, <2>2 DEF Follows, StatusTruth, Terminal
    <2>4. Listening'
      BY <1>1, <2>2 DEF Listening, Terminal, ToSet
    <2> QED
      BY <1>1, <1>2, <2>2, <2>3, <2>4 DEF Statuses
  <1>4. CASE ~IsResult(position + 1)
    <2>1. UNCHANGED << status, result, notified >>
      BY <1>4 DEF Handle
    <2> QED
      BY <1>1, <1>2, <2>1 DEF Types, Follows, StatusTruth, Listening, ToSet
  <1> QED
    BY <1>3, <1>4

-----------------------------------------------------------------------------
(* The steps.                                                              *)

\* The run goes on, or ends.
LEMMA RunIInv ==
  ASSUME IInv, Produce \/ RunEnds
  PROVE  IInv'
  <1>1. /\ UNCHANGED << fields, readerVars, cancel, listenerVars, notified >>
        /\ run' = run \/ (run = "running" /\ run' \in Terminal)
    BY DEF Produce, RunEnds
  <1> USE <1>1 DEF fields, readerVars, listenerVars
  <1>2. Types'
    BY DEF IInv, Types, Statuses
  <1>4. Buffered' /\ Listening'
    BY DEF IInv, Buffered, EventsOnce, Listening, ToSet
  <1>3. Follows'
    BY DEF IInv, Types, Follows, StatusTruth, Statuses, Terminal
  <1> QED
    BY <1>2, <1>3, <1>4 DEF IInv

\* Send's own read of the first event, and what Next gives inside Events.
LEMMA ItemIInv ==
  ASSUME IInv, Prime \/ NextEvent
  PROVE  IInv'
  <1>1. /\ Handle
        /\ UNCHANGED << runVars, origin, answers, cancel, listenerVars >>
    BY DEF Prime, NextEvent
  <1>2. /\ position' = position + 1 /\ handled' = Append(handled, position + 1)
        /\ handled' \in Seq(Nat) /\ position' \in Nat /\ Len(handled') = position'
        /\ \A i \in DOMAIN handled' : handled'[i] = i
        /\ Follows' /\ Listening'
        /\ status' \in Statuses /\ result' \in {"none"} \union Statuses
        /\ notified' \in [Listeners -> Seq(Statuses)]
    BY <1>1, Handling
  <1>3. /\ buffer \in Seq(Nat) /\ yielded \in Seq(Nat) /\ handled \in Seq(Nat)
        /\ yielded \o buffer = handled /\ position + 1 \in Nat
        /\ reader \in {"next", "yielded"} => buffer = << >>
    BY DEF IInv, Types, Buffered, EventsOnce
  <1>4. /\ buffer' \in Seq(Nat) /\ yielded' \in Seq(Nat)
        /\ yielded' \o buffer' = handled'
        /\ reader' \in {"next", "yielded"} => buffer' = << >>
    <2>1. CASE Prime
      <3>1. buffer' = Append(buffer, position + 1) /\ yielded' = yielded /\ reader' = "idle"
        BY <2>1 DEF Prime
      <3>2. yielded \o Append(buffer, position + 1) = Append(yielded \o buffer, position + 1)
        <4>1. PICK e \in Nat : e = position + 1
          BY <1>3
        <4>2. buffer \in Seq(Nat) /\ yielded \in Seq(Nat)
          BY <1>3
        <4>3. yielded \o Append(buffer, e) = Append(yielded \o buffer, e)
          BY ONLY <4>1, <4>2, AppendLast
        <4> QED
          BY <4>1, <4>3
      <3> QED
        BY <1>2, <1>3, <3>1, <3>2
    <2>2. CASE NextEvent
      <3>1. /\ buffer = << >> /\ buffer' = buffer /\ reader' = "yielded"
            /\ yielded' = Append(yielded, position + 1)
        BY <1>3, <2>2 DEF NextEvent
      <3>2. yielded \o << >> = yielded
        BY <1>3, ConcatEmptySeq
      <3>3. yielded' \in Seq(Nat) /\ yielded' \o << >> = yielded'
        BY <1>3, <3>1, ConcatEmptySeq
      <3> QED
        BY <1>2, <1>3, <3>1, <3>2, <3>3
    <2> QED
      BY <2>1, <2>2
  <1>5. Types'
    BY <1>1, <1>2, <1>4 DEF IInv, Types, runVars, listenerVars
  <1>6. Buffered'
    BY <1>2, <1>4 DEF Buffered, EventsOnce
  <1> QED
    BY <1>2, <1>5, <1>6 DEF IInv

\* The buffered event is given out.
LEMMA DrainIInv ==
  ASSUME IInv, Drain
  PROVE  IInv'
  <1>1. /\ yielded' = yielded \o buffer /\ buffer' = << >>
        /\ UNCHANGED << runVars, status, result, origin, position, handled, answers, cancel,
                        listenerVars, notified >>
    BY DEF Drain
  <1>2. yielded' \in Seq(Nat) /\ buffer' \in Seq(Nat) /\ yielded' \o buffer' = yielded'
    BY <1>1, ConcatProperties, ConcatEmptySeq DEF IInv, Types
  <1>3. Types'
    BY <1>1, <1>2 DEF IInv, Types, runVars, listenerVars
  <1>4. Buffered'
    BY <1>1, <1>2 DEF IInv, Buffered, EventsOnce
  <1>5. Follows' /\ Listening'
    BY <1>1 DEF IInv, Follows, StatusTruth, Listening, ToSet, runVars, listenerVars
  <1> QED
    BY <1>3, <1>4, <1>5 DEF IInv

\* The steps of a loop that give out nothing.
LEMMA LoopIInv ==
  ASSUME IInv, PrimeNothing \/ StartEvents \/ Continue \/ Break
  PROVE  IInv'
  <1>1. UNCHANGED << runVars, status, result, buffer, origin, position, yielded, handled,
                     answers, cancel, listenerVars, notified >>
    BY DEF PrimeNothing, StartEvents, Continue, Break, fields
  <1>2. reader' \in {"next", "yielded"} => reader = "yielded"
    BY DEF PrimeNothing, StartEvents, Continue, Break
  <1>3. Types' /\ Buffered'
    BY <1>1, <1>2 DEF IInv, Types, Buffered, EventsOnce, runVars, listenerVars
  <1>4. Follows' /\ Listening'
    BY <1>1 DEF IInv, Follows, StatusTruth, Listening, ToSet, runVars, listenerVars
  <1> QED
    BY <1>3, <1>4 DEF IInv

\* Wait answers with the result it has, or with an error.
LEMMA WaitIInv ==
  ASSUME IInv, StartWait \/ EventsEnd \/ WaitLiveRunFails
  PROVE  IInv'
  <1>1. /\ UNCHANGED << runVars, status, result, buffer, origin, position, yielded, handled,
                        cancel, listenerVars, notified >>
        /\ reader' \notin {"next", "yielded"}
        /\ \/ UNCHANGED answers
           \/ \E a \in {result, "failed"} \ {"none"} : answers' = Append(answers, a)
    BY DEF StartWait, EventsEnd, WaitLiveRunFails, Answer, fields
  <1>2. Types /\ Follows
    BY DEF IInv
  <1>3. /\ answers' \in Seq(Statuses \union {"failed"})
        /\ \A i \in DOMAIN answers' :
             /\ answers'[i] \in {run, "failed"} \/ (origin = "snapshot" /\ answers'[i] = "running")
             /\ origin = "stream" => answers'[i] # "running"
    <2>1. CASE UNCHANGED answers
      BY <1>2, <2>1 DEF Types, Follows
    <2>2. CASE \E a \in {result, "failed"} \ {"none"} : answers' = Append(answers, a)
      <3>1. PICK a \in {result, "failed"} \ {"none"} : answers' = Append(answers, a)
        BY <2>2
      <3>2. a \in Statuses \union {"failed"}
        BY <1>2 DEF Types
      <3>3. /\ a \in {run, "failed"} \/ (origin = "snapshot" /\ a = "running")
            /\ origin = "stream" => a # "running"
        BY <1>2 DEF Types, Follows, StatusTruth, Statuses, Terminal
      <3>4. /\ answers \in Seq(Statuses \union {"failed"})
            /\ \A i \in 1..Len(answers) :
                 /\ answers[i] \in {run, "failed"} \/ (origin = "snapshot" /\ answers[i] = "running")
                 /\ origin = "stream" => answers[i] # "running"
        BY <1>2, LenProperties DEF Types, Follows
      <3> QED
        BY <3>1, <3>2, <3>3, <3>4, AppendProperties
    <2> QED
      BY <1>1, <2>1, <2>2
  <1>4. Types'
    BY <1>1, <1>3 DEF IInv, Types, runVars, listenerVars
  <1>6. Buffered' /\ Listening'
    BY <1>1 DEF IInv, Buffered, EventsOnce, Listening, ToSet, listenerVars
  <1>5. Follows'
    BY <1>1, <1>2, <1>3 DEF Follows, StatusTruth, runVars
  <1> QED
    BY <1>4, <1>5, <1>6 DEF IInv

\* The bridge has answered Wait: the result is applied and given.
LEMMA AskedIInv ==
  ASSUME IInv, WaitLiveRun
  PROVE  IInv'
  <1>1. /\ run # "running" /\ ApplyResult(run)
        /\ answers' = Append(answers, run) /\ reader' = "idle"
        /\ UNCHANGED << runVars, buffer, origin, position, yielded, handled, cancel, listenerVars >>
    BY DEF WaitLiveRun, Answer
  <1>2. Types /\ Buffered /\ Follows /\ Listening
    BY DEF IInv
  <1>3. /\ status' = run /\ result' = run /\ run \in Terminal
        /\ notified' \in [Listeners -> Seq(Statuses)]
        /\ \A l \in Listeners : Len(notified'[l]) <= 1
    BY <1>1, <1>2, Applying
  <1>4. /\ answers' \in Seq(Statuses \union {"failed"})
        /\ \A i \in DOMAIN answers' :
             /\ answers'[i] \in {run, "failed"} \/ (origin = "snapshot" /\ answers'[i] = "running")
             /\ origin = "stream" => answers'[i] # "running"
    <2>1. /\ answers \in Seq(Statuses \union {"failed"})
          /\ \A i \in 1..Len(answers) :
               /\ answers[i] \in {run, "failed"} \/ (origin = "snapshot" /\ answers[i] = "running")
               /\ origin = "stream" => answers[i] # "running"
      BY <1>2, LenProperties DEF Types, Follows
    <2>2. run \in Statuses \union {"failed"}
      BY <1>2 DEF Types
    <2> QED
      BY <1>1, <2>1, <2>2, AppendProperties
  <1>5. Types' /\ Buffered'
    BY <1>1, <1>2, <1>3, <1>4 DEF Types, Buffered, EventsOnce, Statuses, runVars, listenerVars
  <1>6. Follows'
    BY <1>1, <1>2, <1>3, <1>4 DEF Follows, StatusTruth, runVars, Terminal
  <1>7. Listening'
    BY <1>1, <1>2, <1>3 DEF Listening, ToSet, listenerVars, Terminal
  <1> QED
    BY <1>5, <1>6, <1>7 DEF IInv

\* Cancelling, and registering a listener.
LEMMA CancelIInv ==
  ASSUME IInv, Cancel
  PROVE  IInv'
  <1>1. /\ UNCHANGED << runVars, fields, readerVars, listenerVars, notified >>
        /\ cancel' = "refused" => status \in Terminal
    BY DEF Cancel
  <1> USE <1>1 DEF runVars, fields, readerVars, listenerVars
  <1>2. Types' /\ Buffered'
    BY DEF IInv, Types, Buffered, EventsOnce
  <1>3. Follows' /\ Listening'
    BY DEF IInv, Follows, StatusTruth, Listening, ToSet
  <1> QED
    BY <1>2, <1>3 DEF IInv

LEMMA OnStatusChangeIInv ==
  ASSUME IInv, NEW l \in Listeners, OnStatusChange(l)
  PROVE  IInv'
  <1>1. /\ UNCHANGED << runVars, fields, readerVars, cancel, removals, notified >>
        /\ index[l] = 0
        /\ listeners' = Append(listeners, l)
        /\ index' = [index EXCEPT ![l] = Len(listeners) + 1]
        /\ wanted' = wanted \union {l}
    BY DEF OnStatusChange
  <1>2. Types /\ Buffered /\ Follows /\ Listening
    BY DEF IInv
  <1> DEFINE n == Len(listeners)
  <1>3. /\ listeners \in Seq(Listeners) /\ n \in Nat
        /\ listeners' \in Seq(Listeners) /\ Len(listeners') = n + 1
        /\ \A i \in 1..n : listeners'[i] = listeners[i]
        /\ listeners'[n + 1] = l
    BY <1>1, <1>2, AppendProperties, LenProperties DEF Types
  <1>4. index' \in [Listeners -> Nat] /\ index'[l] = n + 1
        /\ \A k \in Listeners : k # l => index'[k] = index[k]
    BY <1>1, <1>2, <1>3 DEF Types
  <1>5. Types'
    BY <1>1, <1>2, <1>3, <1>4 DEF Types, runVars, fields, readerVars
  <1>6. Buffered' /\ Follows'
    BY <1>1, <1>2 DEF Buffered, EventsOnce, Follows, StatusTruth, runVars, fields, readerVars
  <1>7. /\ \A i \in 1..n : listeners[i] \in Listeners /\ listeners[i] # l
        /\ l \notin wanted
    <2>1. \A i \in 1..n : listeners[i] \in Listeners
      BY <1>3, ElementOfSeq
    <2> QED
      BY <1>1, <1>2, <2>1 DEF Listening
  <1> HIDE DEF n
  <1>8. /\ \A i, j \in 1..(n + 1) : listeners'[i] = listeners'[j] => i = j
        /\ \A i \in 1..(n + 1) : index'[listeners'[i]] # 0
        /\ \A k \in wanted' : index'[k] # 0
    <2>1. \A i \in 1..(n + 1) : i \in 1..n \/ i = n + 1
      BY <1>3
    <2>2. \A i, j \in 1..n : listeners[i] = listeners[j] => i = j
      BY <1>2 DEF Listening, n
    <2>3. \A i \in 1..n : index[listeners[i]] # 0
      BY <1>2 DEF Listening, n
    <2>4. \A k \in wanted : index[k] # 0 /\ k \in Listeners
      BY <1>2 DEF Listening, Types
    <2> QED
      BY <1>1, <1>3, <1>4, <1>7, <2>1, <2>2, <2>3, <2>4
  <1>9. removals' = 0 =>
          /\ \A k \in wanted' : index'[k] \in 1..(n + 1) /\ listeners'[index'[k]] = k
          /\ \A i \in 1..(n + 1) : listeners'[i] \in wanted'
    <2> HAVE removals' = 0
    <2>1. /\ \A k \in wanted : index[k] \in 1..n /\ listeners[index[k]] = k /\ k \in Listeners
          /\ \A i \in 1..n : listeners[i] \in wanted
      BY <1>1, <1>2 DEF Listening, Types, n
    <2>2. \A i \in 1..(n + 1) : i \in 1..n \/ i = n + 1
      BY <1>3
    <2>3. 1..n \subseteq 1..(n + 1) /\ n + 1 \in 1..(n + 1)
      BY <1>3
    <2> QED
      BY <1>1, <1>3, <1>4, <1>7, <2>1, <2>2, <2>3
  <1>10. ToSet(listeners') = ToSet(listeners) \union {l}
    <2>1. DOMAIN listeners = 1..n /\ DOMAIN listeners' = 1..(n + 1)
      BY <1>3, LenProperties DEF n
    <2>2. \A i \in 1..(n + 1) : i \in 1..n \/ i = n + 1
      BY <1>3
    <2>3. 1..n \subseteq 1..(n + 1) /\ n + 1 \in 1..(n + 1)
      BY <1>3
    <2> QED
      BY <1>3, <2>1, <2>2, <2>3 DEF ToSet
  <1>11. Listening'
    BY <1>1, <1>2, <1>3, <1>8, <1>9, <1>10 DEF Listening, n, fields
  <1> QED
    BY <1>5, <1>6, <1>11 DEF IInv

\* An unsubscribe function removes what stands where its listener stood first.
LEMMA UnsubscribeIInv ==
  ASSUME IInv, NEW l \in Listeners, Unsubscribe(l)
  PROVE  IInv'
  <1>1. /\ UNCHANGED << runVars, fields, readerVars, cancel, index, notified >>
        /\ l \in wanted
        /\ listeners' = IF index[l] <= Len(listeners) THEN RemoveAt(listeners, index[l])
                        ELSE listeners
        /\ wanted' = wanted \ {l}
        /\ removals' = removals + 1
    BY DEF Unsubscribe
  <1>2. Types /\ Buffered /\ Follows /\ Listening
    BY DEF IInv
  <1>3. listeners \in Seq(Listeners) /\ Len(listeners) \in Nat /\ index[l] \in Nat /\ index[l] # 0
        /\ removals \in Nat
    BY <1>1, <1>2, LenProperties DEF Types, Listening
  <1>4. Buffered' /\ Follows'
    BY <1>1, <1>2 DEF Buffered, EventsOnce, Follows, StatusTruth, runVars, fields, readerVars
  <1>5. ASSUME listeners' \in Seq(Listeners)
        PROVE  Types'
    BY <1>1, <1>2, <1>3, <1>5 DEF Types, runVars, fields, readerVars
  <1>6. \A k \in wanted' : index'[k] # 0
    BY <1>1, <1>2 DEF Listening
  <1>7. \A k \in Listeners : /\ Len(notified'[k]) <= 1
                             /\ status' = "running" => notified'[k] = << >>
    BY <1>1, <1>2 DEF Listening, fields
  <1>8. CASE index[l] \in 1..Len(listeners)
    <2> DEFINE k == index[l]
               n == Len(listeners)
    <2>1. /\ listeners' = RemoveAt(listeners, k)
          /\ listeners' \in Seq(Listeners) /\ Len(listeners') = n - 1
          /\ \A i \in 1..(n - 1) : listeners'[i] = IF i < k THEN listeners[i] ELSE listeners[i + 1]
      BY <1>1, <1>3, <1>8, Removing
    <2> DEFINE From(i) == IF i < k THEN i ELSE i + 1
    <2>2. \A i \in 1..(n - 1) : /\ From(i) \in 1..n /\ From(i) # k
                                /\ listeners'[i] = listeners[From(i)]
      BY <1>3, <1>8, <2>1
    <2>3. \A i, j \in 1..(n - 1) : From(i) = From(j) => i = j
      BY <1>3, <1>8
    <2>4. \A j \in 1..n : j # k => \E i \in 1..(n - 1) : From(i) = j
      <3> TAKE j \in 1..n
      <3> HAVE j # k
      <3>1. CASE j < k
        BY <1>3, <1>8, <3>1
      <3>2. CASE ~(j < k)
        <4>1. j - 1 \in 1..(n - 1) /\ ~(j - 1 < k) /\ (j - 1) + 1 = j
          BY <1>3, <1>8, <3>2
        <4> QED
          BY <4>1
      <3> QED
        BY <3>1, <3>2
    <2>5. /\ \A i, j \in 1..n : listeners[i] = listeners[j] => i = j
          /\ \A i \in 1..n : index[listeners[i]] # 0
      BY <1>2 DEF Listening
    <2> HIDE DEF k, n, From
    <2>6. /\ \A i, j \in 1..(n - 1) : listeners'[i] = listeners'[j] => i = j
          /\ \A i \in 1..(n - 1) : index'[listeners'[i]] # 0
      BY <1>1, <2>2, <2>3, <2>5
    <2>7. removals' # 0
      BY <1>1, <1>3
    <2>8. removals' <= 1 => ToSet(listeners') = wanted'
      <3> HAVE removals' <= 1
      <3>1. removals = 0
        BY <1>1, <1>3
      <3>2. listeners[k] = l /\ k \in 1..n /\ ToSet(listeners) = wanted
        BY <1>1, <1>2, <3>1 DEF Listening, k, n
      <3>3. DOMAIN listeners = 1..n /\ DOMAIN listeners' = 1..(n - 1)
        BY <1>3, <2>1, LenProperties DEF n
      <3>4. ToSet(listeners') \subseteq ToSet(listeners) \ {l}
        BY <2>2, <2>5, <3>2, <3>3 DEF ToSet
      <3>5. ToSet(listeners) \ {l} \subseteq ToSet(listeners')
        <4> SUFFICES ASSUME NEW j \in 1..n, listeners[j] # l
                     PROVE  \E i \in 1..(n - 1) : listeners'[i] = listeners[j]
          BY <3>3 DEF ToSet
        <4>1. j # k
          BY <3>2
        <4> QED
          BY <2>2, <2>4, <4>1
      <3> QED
        BY <1>1, <3>2, <3>4, <3>5
    <2>9. Listening'
      BY <1>6, <1>7, <2>1, <2>6, <2>7, <2>8 DEF Listening, n
    <2> QED
      BY <1>4, <1>5, <2>1, <2>9 DEF IInv
  <1>9. CASE index[l] \notin 1..Len(listeners)
    <2>1. listeners' = listeners
      BY <1>1, <1>3, <1>9
    <2>2. removals' > 1
      BY <1>1, <1>2, <1>3, <1>9 DEF Listening
    <2>3. Listening'
      BY <1>1, <1>2, <1>3, <1>6, <1>7, <2>1, <2>2 DEF Listening
    <2> QED
      BY <1>3, <1>4, <1>5, <2>1, <2>3 DEF IInv
  <1> QED
    BY <1>8, <1>9

\* A handle just made satisfies IInv.
LEMMA InitIInv == Init => IInv
  <1> SUFFICES ASSUME Init PROVE IInv
    OBVIOUS
  <1>1. Types
    BY HandleBounds DEF Init, Types, Statuses, Terminal
  <1>2. Buffered
    BY ConcatEmptySeq DEF Init, Buffered, EventsOnce
  <1>3. Follows
    BY HandleBounds DEF Init, Follows, StatusTruth, Statuses, Terminal
  <1>4. Listening
    BY DEF Init, Listening, ToSet
  <1> QED
    BY <1>1, <1>2, <1>3, <1>4 DEF IInv

\* Every step preserves IInv.
LEMMA NextIInv == IInv /\ [Next]_vars => IInv'
  <1> SUFFICES ASSUME IInv, [Next]_vars PROVE IInv'
    OBVIOUS
  <1>1. CASE UNCHANGED vars
    <2> USE <1>1 DEF vars, runVars, fields, readerVars, listenerVars
    <2>1. Types' /\ Buffered'
      BY DEF IInv, Types, Buffered, EventsOnce
    <2>2. Follows' /\ Listening'
      BY DEF IInv, Follows, StatusTruth, Listening, ToSet
    <2> QED
      BY <2>1, <2>2 DEF IInv
  <1>2. CASE Run
    BY <1>2, RunIInv DEF Run
  <1>3. CASE Reader
    BY <1>3, ItemIInv, DrainIInv, LoopIInv, WaitIInv, AskedIInv DEF Reader
  <1>4. CASE Caller
    BY <1>4, LoopIInv, WaitIInv, CancelIInv, OnStatusChangeIInv, UnsubscribeIInv DEF Caller
  <1>5. CASE Terminated
    BY <1>1, <1>5 DEF Terminated
  <1> QED
    BY <1>1, <1>2, <1>3, <1>4, <1>5 DEF Next

\* IInv is an invariant of the handle.
THEOREM InductiveInvariant == Spec => []IInv
  BY InitIInv, NextIInv, PTL DEF Spec

\* However a caller mixes loops over Events that it leaves and calls of Wait,
\* it is given the run's items one after another, each once and handled.
THEOREM EventsGivenOnce == Spec => []EventsOnce
  <1>1. IInv => EventsOnce
    BY DEF IInv, Buffered
  <1> QED
    BY <1>1, InductiveInvariant, PTL

\* The handle's status is never ahead of the run, its result agrees with it,
\* and a Cancel is refused only for a run that has ended.
THEOREM StatusTrue == Spec => []StatusTruth
  <1>1. IInv => StatusTruth
    BY DEF IInv, Follows
  <1> QED
    BY <1>1, InductiveInvariant, PTL

\* No two answers of Wait disagree: each is the run's terminal status or an
\* error, save those a snapshot of a running run gives.
THEOREM WaitsAgree == Spec => []WaitAgrees
  <1>1. IInv => WaitAgrees
    BY DEF IInv, Follows, WaitAgrees
  <1> QED
    BY <1>1, InductiveInvariant, PTL

\* Up to the first unsubscribe the handle tells exactly the listeners that
\* want it, and it never tells one a second time.
THEOREM ListenersAreKept == Spec => []ListenersKept
  <1>1. IInv => ListenersKept
    BY DEF IInv, Listening, ListenersKept
  <1> QED
    BY <1>1, InductiveInvariant, PTL

=============================================================================
