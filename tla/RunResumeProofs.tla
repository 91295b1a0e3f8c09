---------------------------- MODULE RunResumeProofs ----------------------------
(***************************************************************************)
(* Reading a run across any number of lost connections, for any number of  *)
(* messages, deltas and steps.                                             *)
(***************************************************************************)
EXTENDS RunResume, TLAPS

\* Types, and how far the generator can be.
Types ==
  /\ messages \in Nat /\ finished \in BOOLEAN
  /\ connection \in Kinds \union {"none", "ended"}
  /\ position \in Nat /\ offset \in Nat /\ startAfter \in Nat /\ token \in Nat
  /\ deltas \in Nat /\ disconnects \in Nat
  /\ seen \in Seq(Nat)
  /\ position <= Available
  /\ connection = "ended" => finished /\ position = messages + 2

\* On the Send stream every item is given, and numbered with the deltas and
\* steps before it; no connection has been lost, so none was given before.
Sent ==
  disconnects = 0 =>
    /\ connection # "none" /\ startAfter = 0
    /\ offset = position + deltas /\ token = offset
    /\ Len(seen) = position

\* A resumed stream numbers the run's items only, and gives those after the
\* token it was resumed with.
Resumed ==
  disconnects # 0 =>
    /\ connection # "merged"
    /\ connection # "none" =>
         offset = position /\ token = IF position <= startAfter THEN startAfter ELSE position

\* The reader's token is never behind an item it has; without deltas and steps
\* it counts them.
Token ==
  /\ \A i \in 1..Len(seen) : seen[i] <= token
  /\ \A i, j \in 1..Len(seen) : i < j => seen[i] < seen[j]
  /\ disconnects = 0 \/ deltas = 0 => \A i \in 1..Len(seen) : seen[i] = i
  /\ deltas = 0 => Len(seen) = token /\ token <= Available

\* The inductive invariant.
IInv == Types /\ Sent /\ Resumed /\ Token

-----------------------------------------------------------------------------
\* An item given is a new one: the reader has none from there on.
LEMMA NewItem ==
  ASSUME IInv, connection \in Kinds, ~Skipped(offset + 1)
  PROVE  /\ \A i \in 1..Len(seen) : seen[i] < position + 1
         /\ disconnects = 0 \/ deltas = 0 => Len(seen) = position
         /\ position + 1 <= offset + 1
  <1>1. CASE disconnects = 0
    BY <1>1 DEF IInv, Types, Sent, Token
  <1>2. CASE disconnects # 0
    <2>1. offset = position /\ ~(position + 1 <= startAfter)
          /\ token = IF position <= startAfter THEN startAfter ELSE position
      BY <1>2 DEF IInv, Resumed, Skipped, Kinds
    <2>2. token = position
      BY <2>1 DEF IInv, Types
    <2> QED
      BY <1>2, <2>1, <2>2 DEF IInv, Types, Token
  <1> QED
    BY <1>1, <1>2

\* The generator's step, for an item that is given and for one left out.
LEMMA AdvanceIInv ==
  ASSUME IInv, Advance
  PROVE  IInv'
  <1>1. /\ connection \in Kinds /\ position < Available
        /\ position' = position + 1 /\ offset' = offset + 1
        /\ UNCHANGED << messages, finished, connection, startAfter, deltas, disconnects >>
        /\ Available' = Available /\ Available \in Nat
    BY DEF Advance, Available, IInv, Types
  <1>2. CASE Skipped(offset + 1)
    <2>1. token' = token /\ seen' = seen
      BY <1>2 DEF Advance
    <2>2. disconnects # 0
      BY <1>2 DEF IInv, Types, Sent, Skipped
    <2>3. Types' /\ Sent'
      BY <1>1, <2>1, <2>2 DEF IInv, Types, Sent, Kinds
    <2>4. Resumed'
      BY <1>1, <1>2, <2>1, <2>2 DEF IInv, Types, Resumed, Skipped, Kinds
    <2>5. Token'
      BY <1>1, <2>1 DEF IInv, Token
    <2> QED
      BY <2>3, <2>4, <2>5 DEF IInv
  <1>3. CASE ~Skipped(offset + 1)
    <2>1. token' = offset + 1 /\ seen' = Append(seen, position + 1)
      BY <1>3 DEF Advance
    <2>2. /\ \A i \in 1..Len(seen) : seen[i] < position + 1
          /\ disconnects = 0 \/ deltas = 0 => Len(seen) = position
          /\ position + 1 <= offset + 1
      BY <1>1, <1>3, NewItem
    <2>3. seen \in Seq(Nat) /\ Len(seen) \in Nat /\ position + 1 \in Nat
          /\ position \in Nat /\ offset \in Nat
      BY DEF IInv, Types
    <2>4. /\ seen' \in Seq(Nat) /\ Len(seen') = Len(seen) + 1
          /\ \A i \in 1..Len(seen) : seen'[i] = seen[i] /\ seen[i] \in Nat
          /\ seen'[Len(seen) + 1] = position + 1
      BY <2>1, <2>3
    <2>5. Types' /\ Sent'
      BY <1>1, <2>1, <2>4 DEF IInv, Types, Sent, Kinds
    <2>6. Resumed'
      <3>1. disconnects # 0 => connection # "merged" /\ offset = position /\ ~(position + 1 <= startAfter)
        BY <1>1, <1>3 DEF IInv, Resumed, Skipped, Kinds
      <3> QED
        BY <1>1, <2>1, <3>1 DEF Resumed
    <2>7. /\ \A i \in 1..Len(seen') : seen'[i] <= token'
          /\ \A i, j \in 1..Len(seen') : i < j => seen'[i] < seen'[j]
      <3>1. /\ \A i \in 1..Len(seen) : seen'[i] \in Nat /\ seen'[i] < position + 1
            /\ \A i, j \in 1..Len(seen) : i < j => seen'[i] < seen'[j]
        BY <2>2, <2>4 DEF IInv, Token
      <3>2. 1..Len(seen') = 1..Len(seen) \union {Len(seen) + 1}
        BY <2>3, <2>4
      <3>3. \A i \in 1..Len(seen') : seen'[i] <= token'
        <4> TAKE i \in 1..Len(seen')
        <4>1. CASE i \in 1..Len(seen)
          BY <2>1, <2>2, <2>3, <3>1, <4>1
        <4>2. CASE i = Len(seen) + 1
          BY <2>1, <2>2, <2>3, <2>4, <4>2
        <4> QED
          BY <3>2, <4>1, <4>2
      <3>4. \A i, j \in 1..Len(seen') : i < j => seen'[i] < seen'[j]
        <4> TAKE i, j \in 1..Len(seen')
        <4> HAVE i < j
        <4>1. i \in 1..Len(seen)
          BY <2>3, <2>4
        <4>2. CASE j \in 1..Len(seen)
          BY <3>1, <4>1, <4>2
        <4>3. CASE j = Len(seen) + 1
          BY <2>4, <3>1, <4>1, <4>3
        <4> QED
          BY <3>2, <4>2, <4>3
      <3> QED
        BY <3>3, <3>4
    <2>8. disconnects' = 0 \/ deltas' = 0 => \A i \in 1..Len(seen') : seen'[i] = i
      <3> HAVE disconnects' = 0 \/ deltas' = 0
      <3>1. Len(seen) = position /\ \A i \in 1..Len(seen) : seen[i] = i
        BY <1>1, <2>2 DEF IInv, Token
      <3> QED
        BY <2>3, <2>4, <3>1
    <2>9. deltas' = 0 => Len(seen') = token' /\ token' <= Available'
      <3> HAVE deltas' = 0
      <3>1. offset = position
        BY <1>1 DEF IInv, Types, Sent, Resumed, Kinds
      <3> QED
        BY <1>1, <2>1, <2>2, <2>3, <2>4, <3>1
    <2> QED
      BY <2>5, <2>6, <2>7, <2>8, <2>9 DEF IInv, Token
  <1> QED
    BY <1>2, <1>3

\* The run goes on, or finishes.
LEMMA RunIInv ==
  ASSUME IInv, Produce \/ Finish
  PROVE  IInv'
  <1>1. /\ ~finished /\ messages \in Nat
        /\ UNCHANGED << connection, position, offset, startAfter, token, seen, deltas, disconnects >>
    BY DEF Produce, Finish, IInv, Types
  <1>2. connection # "ended" /\ position <= messages
    BY <1>1 DEF IInv, Types, Available
  <1>3. /\ messages' \in Nat /\ finished' \in BOOLEAN
        /\ position <= Available' /\ (deltas = 0 => token <= Available')
    <2>1. deltas = 0 => token <= messages
      BY <1>1 DEF IInv, Token, Available
    <2>2. CASE Produce
      <3>1. messages' = messages + 1 /\ finished' = finished
        BY <2>2 DEF Produce
      <3>2. Available' = messages + 1
        BY <1>1, <3>1 DEF Available
      <3> QED
        BY <1>1, <1>2, <2>1, <3>1, <3>2 DEF IInv, Types
    <2>3. CASE Finish
      <3>1. messages' = messages /\ finished' = TRUE
        BY <2>3 DEF Finish
      <3>2. Available' = messages + 2
        BY <3>1 DEF Available
      <3> QED
        BY <1>1, <1>2, <2>1, <3>1, <3>2 DEF IInv, Types
    <2> QED
      BY <2>2, <2>3
  <1>4. Types'
    BY <1>1, <1>2, <1>3 DEF IInv, Types
  <1>5. Sent' /\ Resumed'
    BY <1>1 DEF IInv, Sent, Resumed
  <1>6. Token'
    BY <1>1, <1>3 DEF IInv, Token
  <1> QED
    BY <1>4, <1>5, <1>6 DEF IInv

\* A delta or a step is numbered on the Send stream only.
LEMMA DeltaIInv ==
  ASSUME IInv, Delta
  PROVE  IInv'
  <1>1. /\ connection = "merged" /\ disconnects = 0
        /\ deltas' = deltas + 1 /\ offset' = offset + 1 /\ token' = offset + 1
        /\ UNCHANGED << messages, finished, connection, position, startAfter, seen, disconnects >>
    BY DEF Delta, IInv, Resumed
  <1>2. Types' /\ Sent' /\ Resumed'
    BY <1>1 DEF IInv, Types, Sent, Resumed, Available
  <1>3. Token'
    BY <1>1 DEF IInv, Types, Sent, Token
  <1> QED
    BY <1>2, <1>3 DEF IInv

\* The stream ends, its connection is lost, or the reader comes back.
LEMMA ConnectionIInv ==
  ASSUME IInv, StreamEnds \/ Disconnect \/ Resume
  PROVE  IInv'
  <1>1. UNCHANGED << messages, finished, token, seen, deltas >> /\ Available' = Available
    BY DEF StreamEnds, Disconnect, Resume, Available
  <1>2. CASE StreamEnds
    BY <1>1, <1>2 DEF StreamEnds, IInv, Types, Sent, Resumed, Token, Kinds
  <1>3. CASE Disconnect
    <2>1. Types' /\ Sent' /\ Resumed'
      BY <1>1, <1>3 DEF Disconnect, IInv, Types, Sent, Resumed, Kinds
    <2>2. Token'
      BY <1>1, <1>3 DEF Disconnect, IInv, Types, Token
    <2> QED
      BY <2>1, <2>2 DEF IInv
  <1>4. CASE Resume
    <2>1. disconnects # 0
      BY <1>4 DEF Resume, IInv, Sent
    <2>2. Types' /\ Sent' /\ Resumed'
      BY <1>1, <1>4, <2>1 DEF Resume, IInv, Types, Sent, Resumed, Kinds, Available
    <2>3. Token'
      BY <1>1, <1>4 DEF Resume, IInv, Token
    <2> QED
      BY <2>2, <2>3 DEF IInv
  <1> QED
    BY <1>2, <1>3, <1>4

\* IInv is an invariant of reading a run.
THEOREM InductiveInvariant == Spec => []IInv
  <1>1. Init => IInv
    <2> SUFFICES ASSUME Init PROVE IInv
      OBVIOUS
    <2>1. Available = 0 /\ connection \in Kinds
      BY ResumeBounds DEF Init, Available
    <2>2. Types
      <3>1. seen = << >> /\ << >> \in Seq(Nat)
        BY DEF Init
      <3>2. connection \in Kinds \union {"none", "ended"} /\ connection # "ended"
        BY <2>1 DEF Kinds
      <3> QED
        <4>1. finished \in BOOLEAN
          BY DEF Init
        <4>2. /\ messages \in Nat /\ position \in Nat /\ offset \in Nat /\ startAfter \in Nat
              /\ token \in Nat /\ deltas \in Nat /\ disconnects \in Nat
          BY DEF Init
        <4>3. position <= Available
          BY <2>1 DEF Init
        <4>4. seen \in Seq(Nat)
          BY <3>1
        <4> QED
          BY <3>2, <4>1, <4>2, <4>3, <4>4 DEF Types
    <2>3. Sent /\ Resumed
      BY <2>1 DEF Init, Sent, Resumed, Kinds
    <2>4. Token
      BY <2>1 DEF Init, Token
    <2> QED
      BY <2>2, <2>3, <2>4 DEF IInv
  <1>2. IInv /\ [Next]_vars => IInv'
    <2> SUFFICES ASSUME IInv, [Next]_vars PROVE IInv'
      OBVIOUS
    <2>1. CASE UNCHANGED vars
      BY <2>1 DEF vars, IInv, Types, Sent, Resumed, Token, Available
    <2>2. CASE Terminated
      BY <2>1, <2>2 DEF Terminated
    <2> QED
      BY <2>1, <2>2, AdvanceIInv, RunIInv, DeltaIInv, ConnectionIInv DEF Next
  <1> QED
    BY <1>1, <1>2, PTL DEF Spec

\* Across any number of lost connections the reader gets no item out of order
\* or twice; and every item, when no delta or step was numbered or no
\* connection was lost.
THEOREM InOrderAcrossConnections == Spec => []ResumeInOrder
  <1>1. IInv => ResumeInOrder
    <2> SUFFICES ASSUME IInv PROVE ResumeInOrder
      OBVIOUS
    <2>1. DOMAIN seen = 1..Len(seen)
      BY DEF IInv, Types
    <2>2. ASSUME deltas = 0 \/ disconnects = 0, connection = "ended"
          PROVE  Len(seen) = messages + 2
      <3>1. finished /\ position = messages + 2 /\ Available = messages + 2
        BY <2>2 DEF IInv, Types, Available
      <3>2. CASE disconnects = 0
        BY <3>1, <3>2 DEF IInv, Sent
      <3>3. CASE disconnects # 0
        <4>1. Len(seen) = token /\ token <= messages + 2
              /\ token = IF position <= startAfter THEN startAfter ELSE position
          BY <2>2, <3>1, <3>3 DEF IInv, Token, Resumed
        <4> QED
          BY <3>1, <4>1 DEF IInv, Types
      <3> QED
        BY <3>2, <3>3
    <2> QED
      BY <2>1, <2>2 DEF IInv, Token, ResumeInOrder, Exact
  <1> QED
    BY <1>1, InductiveInvariant, PTL

=============================================================================
