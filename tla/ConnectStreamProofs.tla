------------------------- MODULE ConnectStreamProofs -------------------------
(***************************************************************************)
(* Theorems about StreamReader and streamParser for bodies of any length,  *)
(* chunks of any size and any number of calls of Next: MessagesInOrder and *)
(* HonestEOF, by one inductive invariant.                                  *)
(***************************************************************************)
EXTENDS ConnectStream, SequenceTheorems, TLAPS

Frames == DataFrames \union EndFrames
Results == [kind : {"message", "error", "eof"}, frame : Nat]

Types ==
  /\ body \in Seq(Frames)
  /\ \A i \in 1..Len(body) : i < Len(body) => body[i] \in DataFrames
  /\ taken \in 0..2 * Len(body)
  /\ parsed \in 0..Len(body) /\ 2 * parsed <= taken
  /\ pending \in Seq(1..parsed)
  /\ ended \in BOOLEAN
  /\ reader \in {"idle", "dequeue", "read"}
  /\ returned \in Seq(Results)

\* What is pending comes behind what was given, and both together are the
\* messages parsed so far.
Ordered ==
  /\ \A i, j \in Delivered : i < j => returned[i].frame < returned[j].frame
  /\ \A i, j \in 1..Len(pending) : i < j => pending[i] < pending[j]
  /\ \A i \in 1..Len(pending) : body[pending[i]] \in {"message", "empty"}
  /\ \A g \in Given : g \in Messages(1..parsed)
  /\ \A g \in Given, i \in 1..Len(pending) : g < pending[i]
  /\ \A m \in Messages(1..parsed) : m \in Given \/ \E i \in 1..Len(pending) : pending[i] = m

\* Behind an end frame there is nothing, and as long as Next has returned
\* messages only, no failure was parsed.  Only an empty frame makes Next read
\* although something is pending or the stream has ended.
Clean ==
  /\ ended => parsed = Len(body) /\ parsed > 0 /\ body[parsed] \in EndFrames
  /\ Delivered = DOMAIN returned => \A i \in 1..parsed : body[i] \notin {"bad", "error"}
  /\ reader = "read" /\ (\A i \in 1..Len(body) : body[i] # "empty") => pending = << >> /\ ~ended

IInv == Types /\ Ordered /\ Clean /\ HonestEOF

-----------------------------------------------------------------------------
\* A body is data, and perhaps an end frame.
LEMMA BodyIsData ==
  ASSUME NEW b \in Bodies
  PROVE  b \in Seq(Frames) /\ \A i \in 1..Len(b) : i < Len(b) => b[i] \in DataFrames
<1>1. ASSUME NEW n \in 0..MaxFrames, NEW d \in [1..n -> DataFrames]
      PROVE  d \in Seq(DataFrames) /\ Len(d) = n
  <2>1. n \in Nat
    BY ConnectBounds DEF ConnectBounds
  <2> QED BY <2>1
<1>2. ASSUME NEW d \in Seq(DataFrames)
      PROVE  d \in Seq(Frames) /\ \A i \in 1..Len(d) : d[i] \in DataFrames
  BY DEF Frames
<1>3. ASSUME NEW d \in Seq(DataFrames), NEW e \in EndFrames, b = Append(d, e)
      PROVE  b \in Seq(Frames) /\ \A i \in 1..Len(b) : i < Len(b) => b[i] \in DataFrames
  BY <1>3 DEF Frames
<1>4. b \in Seq(DataFrames) \/ \E d \in Seq(DataFrames), e \in EndFrames : b = Append(d, e)
  BY <1>1 DEF Bodies
<1> QED BY <1>2, <1>3, <1>4

\* The reader starts with nothing.
LEMMA InitIInv == Init => IInv
<1> SUFFICES ASSUME Init PROVE IInv
  OBVIOUS
<1>1. body \in Seq(Frames) /\ \A i \in 1..Len(body) : i < Len(body) => body[i] \in DataFrames
  BY BodyIsData DEF Init
<1>2. Types
  <2>1. Len(body) \in Nat /\ parsed = 0 /\ taken = 0
    BY <1>1 DEF Init
  <2>2. pending = << >> /\ returned = << >>
    BY DEF Init
  <2>3. pending \in Seq(1..parsed) /\ returned \in Seq(Results)
    BY <2>2
  <2>4. taken \in 0..2 * Len(body) /\ parsed \in 0..Len(body) /\ 2 * parsed <= taken
    BY <2>1
  <2>5. ended \in BOOLEAN /\ reader \in {"idle", "dequeue", "read"}
    BY DEF Init
  <2> QED BY <1>1, <2>3, <2>4, <2>5 DEF Types
<1>3. Delivered = {} /\ Given = {} /\ Messages(1..parsed) = {} /\ Len(pending) = 0
  BY DEF Init, Delivered, Given, Messages
<1>4. Ordered
  BY <1>3 DEF Ordered
<1>5. Clean
  BY DEF Clean, Init
<1>6. HonestEOF
  BY DEF HonestEOF, Init
<1> QED BY <1>2, <1>4, <1>5, <1>6 DEF IInv

\* What Next returns comes behind everything it has returned.
LEMMA ReturnAppends ==
  ASSUME Types, NEW r \in Results, Return(r)
  PROVE  /\ returned' \in Seq(Results) /\ reader' = "idle"
         /\ DOMAIN returned = 1..Len(returned) /\ Len(returned) \in Nat
         /\ DOMAIN returned' = 1..Len(returned) + 1
         /\ \A i \in 1..Len(returned) : returned'[i] = returned[i]
         /\ returned'[Len(returned) + 1] = r
  BY DEF Types, Return

\* A return that is no message leaves what was given as it is.
LEMMA NoMessageReturned ==
  ASSUME Types, NEW r \in Results, r.kind # "message", Return(r)
  PROVE  Delivered' = Delivered /\ Given' = Given /\ Delivered' # DOMAIN returned'
<1>1. PICK n \in Nat : n = Len(returned)
  BY ReturnAppends
<1>2. /\ DOMAIN returned = 1..n /\ DOMAIN returned' = 1..n + 1
      /\ \A i \in 1..n : returned'[i] = returned[i]
      /\ returned'[n + 1] = r
  BY <1>1, ReturnAppends
<1>3. n + 1 \notin Delivered'
  BY <1>2 DEF Delivered
<1>4. Delivered' = Delivered
  BY <1>2, <1>3 DEF Delivered
<1>5. \A i \in Delivered : returned'[i] = returned[i]
  BY <1>2 DEF Delivered
<1>6. Given' = Given
  BY <1>4, <1>5 DEF Given
<1> QED BY <1>2, <1>3, <1>4, <1>6

\* HonestEOF is about the first error or EOF: what Next returns behind one
\* changes nothing, and what comes first is honest if it is a message or an
\* error, or an EOF that the body justifies.
LEMMA HonestReturn ==
  ASSUME Types, HonestEOF, body' = body, NEW r \in Results, Return(r),
         Given \subseteq Given', Given' \subseteq Messages(DOMAIN body),
         /\ r = EOF /\ Delivered = DOMAIN returned
         /\ \A i \in DOMAIN body : body[i] # "empty"
         => /\ body # << >> /\ body[Len(body)] = "end"
            /\ \A i \in DOMAIN body : body[i] # "bad"
            /\ Given' = Messages(DOMAIN body)
  PROVE  HonestEOF'
<1>1. PICK n \in Nat : n = Len(returned)
  BY ReturnAppends
<1>2. /\ DOMAIN returned = 1..n /\ DOMAIN returned' = 1..n + 1
      /\ \A i \in 1..n : returned'[i] = returned[i]
      /\ returned'[n + 1] = r
  BY <1>1, ReturnAppends
<1>3. Messages(DOMAIN body)' = Messages(DOMAIN body)
  BY DEF Messages
<1> SUFFICES ASSUME NEW i \in 1..n + 1, returned'[i] = EOF, 1..(i - 1) \subseteq Delivered',
                    \A p \in DOMAIN body : body[p] # "empty"
             PROVE  /\ body # << >> /\ body[Len(body)] = "end"
                    /\ \A p \in DOMAIN body : body[p] # "bad"
                    /\ Given' = Messages(DOMAIN body)
  BY <1>2, <1>3 DEF HonestEOF
<1>4. \A j \in 1..n : j \in Delivered' => j \in Delivered
  BY <1>2 DEF Delivered
<1>5. CASE i \in 1..n
  <2>1. returned[i] = EOF /\ 1..(i - 1) \subseteq Delivered
    BY <1>2, <1>4, <1>5
  <2>2. /\ body # << >> /\ body[Len(body)] = "end"
        /\ \A p \in DOMAIN body : body[p] # "bad"
        /\ Given = Messages(DOMAIN body)
    BY <1>2, <1>5, <2>1 DEF HonestEOF
  <2> QED BY <2>2
<1>6. CASE i = n + 1
  <2>1. r = EOF
    BY <1>2, <1>6
  <2>2. Delivered = DOMAIN returned
    BY <1>2, <1>4, <1>6 DEF Delivered
  <2> QED BY <2>1, <2>2
<1> QED BY <1>5, <1>6

-----------------------------------------------------------------------------
\* Next ends with an error or an EOF; nothing else changes.
LEMMA EndIInv ==
  ASSUME IInv, NEW r \in Results, r.kind # "message", Return(r),
         UNCHANGED << body, taken, parsed, pending, ended >>,
         /\ r = EOF /\ Delivered = DOMAIN returned
         /\ \A i \in DOMAIN body : body[i] # "empty"
         => pending = << >> /\ ended
  PROVE  IInv'
<1>1. Delivered' = Delivered /\ Given' = Given /\ Delivered' # DOMAIN returned'
  BY NoMessageReturned DEF IInv
<1>2. returned' \in Seq(Results) /\ reader' = "idle"
  BY ReturnAppends DEF IInv
<1>3. \A i \in Delivered : returned'[i] = returned[i]
  BY ReturnAppends DEF IInv, Delivered
<1>4. \A positions : Messages(positions)' = Messages(positions)
  BY DEF Messages
<1>5. Types'
  BY <1>2 DEF IInv, Types
<1>6. Ordered'
  BY <1>1, <1>3, <1>4 DEF IInv, Ordered
<1>7. Clean'
  BY <1>1, <1>2 DEF IInv, Clean
<1>8. HonestEOF'
  <2>1. Given \subseteq Messages(DOMAIN body)
    BY DEF IInv, Ordered, Types, Messages
  <2>2. ASSUME r = EOF, Delivered = DOMAIN returned, \A i \in DOMAIN body : body[i] # "empty"
        PROVE  /\ body # << >> /\ body[Len(body)] = "end"
               /\ \A i \in DOMAIN body : body[i] # "bad"
               /\ Given' = Messages(DOMAIN body)
    <3>1. pending = << >> /\ ended
      BY <2>2
    <3>2. parsed = Len(body) /\ parsed > 0 /\ body[parsed] \in EndFrames
      BY <3>1 DEF IInv, Clean
    <3>3. DOMAIN body = 1..parsed
      BY <3>2 DEF IInv, Types
    <3>4. \A i \in 1..parsed : body[i] \notin {"bad", "error"}
      BY <2>2 DEF IInv, Clean
    <3>5. Given = Messages(DOMAIN body)
      <4>1. Len(pending) = 0
        BY <3>1
      <4>2. \A m \in Messages(1..parsed) : m \in Given
        BY <4>1 DEF IInv, Ordered
      <4>3. \A g \in Given : g \in Messages(1..parsed)
        BY DEF IInv, Ordered
      <4> QED BY <3>3, <4>2, <4>3
    <3> QED BY <1>1, <3>2, <3>3, <3>4, <3>5 DEF EndFrames, IInv, Types
  <2> QED BY <1>1, <2>1, <2>2, HonestReturn DEF IInv
<1> QED BY <1>5, <1>6, <1>7, <1>8 DEF IInv

\* A step that returns nothing keeps what is said of the returned messages.
LEMMA SameReturned ==
  ASSUME UNCHANGED << body, returned >>
  PROVE  /\ Delivered' = Delivered /\ Given' = Given
         /\ HonestEOF <=> HonestEOF'
         /\ \A positions : Messages(positions)' = Messages(positions)
  BY DEF Delivered, Given, Messages, HonestEOF

\* tryDequeue returns the message next in order, or drops an empty one.
LEMMA DequeueIInv == ASSUME IInv, Dequeue PROVE IInv'
<1>1. PICK h \in 1..parsed, rest \in Seq(1..parsed) :
        pending = << h >> \o rest /\ Head(pending) = h /\ Tail(pending) = rest
  <2>1. pending \in Seq(1..parsed) /\ pending # << >>
    BY DEF IInv, Types, Dequeue
  <2>2. Head(pending) \in 1..parsed /\ Tail(pending) \in Seq(1..parsed)
    BY ONLY <2>1, HeadTailProperties
  <2>3. pending = << Head(pending) >> \o Tail(pending)
    BY <2>1
  <2> QED BY <2>2, <2>3
<1>2. /\ Len(rest) \in Nat /\ Len(pending) = Len(rest) + 1
      /\ pending[1] = h /\ \A i \in 1..Len(rest) : pending[i + 1] = rest[i]
  BY <1>1
<1>3. pending' = rest /\ UNCHANGED << body, taken, broken, parsed, ended >>
  BY <1>1 DEF Dequeue
<1>4. \A positions : Messages(positions)' = Messages(positions)
  BY <1>3 DEF Messages
<1>5. /\ \A i \in 1..Len(rest) : h < rest[i] /\ body[rest[i]] \in {"message", "empty"}
      /\ \A i, j \in 1..Len(rest) : i < j => rest[i] < rest[j]
      /\ body[h] \in {"message", "empty"}
      /\ \A g \in Given : g < h /\ \A i \in 1..Len(rest) : g < rest[i]
      /\ \A m \in Messages(1..parsed) :
           m \in Given \union {h} \/ \E i \in 1..Len(rest) : rest[i] = m
  <2>1. \A i, j \in 1..Len(rest) : i < j => rest[i] < rest[j]
    <3>1. \A i, j \in 1..Len(rest) : i < j => i + 1 < j + 1 /\ i + 1 \in 1..Len(pending)
                                               /\ j + 1 \in 1..Len(pending)
      BY <1>2
    <3> QED BY <1>2, <3>1 DEF IInv, Ordered
  <2>2. \A i \in 1..Len(rest) : i + 1 \in 1..Len(pending) /\ 1 < i + 1
    BY <1>2
  <2>3. 1 \in 1..Len(pending)
    BY <1>2
  <2>4. \A m \in Messages(1..parsed) :
          m \in Given \union {h} \/ \E i \in 1..Len(rest) : rest[i] = m
    <3> SUFFICES ASSUME NEW m \in Messages(1..parsed), m \notin Given, m # h
                 PROVE  \E i \in 1..Len(rest) : rest[i] = m
      OBVIOUS
    <3>1. PICK j \in 1..Len(pending) : pending[j] = m
      BY DEF IInv, Ordered
    <3>2. j - 1 \in 1..Len(rest) /\ pending[(j - 1) + 1] = m
      BY <1>2, <3>1
    <3> QED BY <1>2, <3>2
  <2> QED BY <1>2, <2>1, <2>2, <2>3, <2>4 DEF IInv, Ordered
<1>6. CASE body[h] = "message"
  <2>1. PICK r : r = Message(h)
    OBVIOUS
  <2>2. Return(r) /\ r.kind = "message" /\ r.frame = h /\ r \in Results /\ r # EOF
    BY <1>1, <1>6, <2>1 DEF Dequeue, Message, Results, EOF, IInv, Types
  <2>3. PICK n \in Nat : n = Len(returned)
    BY ReturnAppends, <2>2 DEF IInv
  <2>4. /\ DOMAIN returned = 1..n /\ DOMAIN returned' = 1..n + 1
        /\ \A i \in 1..n : returned'[i] = returned[i]
        /\ returned'[n + 1] = r /\ returned' \in Seq(Results) /\ reader' = "idle"
    BY <2>2, <2>3, ReturnAppends DEF IInv
  <2>5. Delivered' = Delivered \union {n + 1} /\ n + 1 \notin Delivered
    BY <2>2, <2>4 DEF Delivered
  <2>6. Given' = Given \union {h}
    <3>1. \A i \in Delivered : returned'[i] = returned[i]
      BY <2>4 DEF Delivered
    <3> QED BY <2>2, <2>4, <2>5, <3>1 DEF Given
  <2>7. Types'
    BY <1>3, <2>4 DEF IInv, Types
  <2>8. h \in Messages(1..parsed)
    BY <1>6 DEF Messages
  <2>9. Ordered'
    <3>1. \A i, j \in Delivered' : i < j => returned'[i].frame < returned'[j].frame
      <4> SUFFICES ASSUME NEW i \in Delivered', NEW j \in Delivered', i < j
                   PROVE  returned'[i].frame < returned'[j].frame
        OBVIOUS
      <4>1. i \in Delivered /\ i \in 1..n
        BY <2>4, <2>5 DEF Delivered
      <4>2. CASE j \in Delivered
        BY <2>4, <4>1, <4>2 DEF IInv, Ordered, Delivered
      <4>3. CASE j = n + 1
        <5>1. returned[i].frame \in Given
          BY <4>1 DEF Given
        <5> QED BY <1>5, <2>2, <2>4, <4>1, <4>3, <5>1
      <4> QED BY <2>5, <4>2, <4>3
    <3> QED BY <1>3, <1>4, <1>5, <2>6, <2>8, <3>1 DEF IInv, Ordered
  <2>10. Clean'
    <3>1. Delivered' = DOMAIN returned' => Delivered = DOMAIN returned
      BY <2>4, <2>5 DEF Delivered
    <3> QED BY <1>3, <2>4, <3>1 DEF IInv, Clean
  <2>11. HonestEOF'
    <3>1. Given' \subseteq Messages(DOMAIN body)
      BY <2>6, <2>8 DEF IInv, Ordered, Types, Messages
    <3> QED BY <1>3, <2>2, <2>6, <3>1, HonestReturn DEF IInv
  <2> QED BY <2>7, <2>9, <2>10, <2>11 DEF IInv
<1>7. CASE body[h] = "empty"
  <2>1. reader' = "read" /\ UNCHANGED returned
    BY <1>1, <1>7 DEF Dequeue
  <2>2. Delivered' = Delivered /\ Given' = Given /\ (HonestEOF <=> HonestEOF')
    BY <1>3, <2>1, SameReturned
  <2>3. Types'
    BY <1>3, <2>1 DEF IInv, Types
  <2>4. h \notin Messages(1..parsed)
    BY <1>7 DEF Messages
  <2>5. Ordered'
    BY <1>3, <1>4, <1>5, <2>1, <2>2, <2>4 DEF IInv, Ordered
  <2>6. h \in 1..Len(body)
    BY DEF IInv, Types
  <2>7. Clean'
    BY <1>3, <1>7, <2>1, <2>2, <2>6 DEF IInv, Clean
  <2> QED BY <2>2, <2>3, <2>5, <2>7 DEF IInv
<1> QED BY <1>5, <1>6, <1>7

\* feed takes the complete frames off the buffer, in order and none twice.
\* Here q frames had been parsed before, l were pending, and k are added;
\* p frames are parsed then.
LEMMA FeedIInv == ASSUME IInv, ReadChunk PROVE IInv'
<1>1. PICK q \in Nat, n \in Nat, l \in Nat :
        q = parsed /\ n = Len(body) /\ l = Len(pending) /\ q <= n
  <2>1. Len(body) \in Nat /\ Len(pending) \in Nat
    BY DEF IInv, Types
  <2>2. parsed \in 0..Len(body)
    BY DEF IInv, Types
  <2>3. parsed \in Nat /\ parsed <= Len(body)
    BY <2>1, <2>2
  <2> QED BY <2>1, <2>3
<1>2. PICK to \in Nat : taken' = to /\ to <= 2 * n /\ ParseFrom(q, to)
  <2>1. taken \in Nat
    BY <1>1 DEF IInv, Types
  <2>2. PICK to \in (taken + 1)..2 * n : taken' = to /\ ParseFrom(q, to)
    BY <1>1 DEF ReadChunk, Feed
  <2> QED BY <2>1, <2>2
<1>3. PICK complete \in Nat : complete = to \div 2 /\ 2 * complete <= to /\ complete <= n
  BY <1>2
<1>4. PICK last, stopped, new :
        /\ last \in q..complete /\ stopped \in BOOLEAN
        /\ stopped <=> last < complete
        /\ \A i \in (q + 1)..last : body[i] \in {"message", "empty"}
        /\ stopped => body[last + 1] \in EndFrames \union {"bad"}
        /\ new = [i \in 1..(last - q) |-> q + i]
        /\ pending' = pending \o new
        /\ parsed' = IF stopped THEN last + 1 ELSE last
        /\ ended' = (stopped /\ body[last + 1] \in EndFrames)
        /\ IF stopped /\ body[last + 1] \in {"bad", "error"}
           THEN Return(Failure)
           ELSE reader' = "dequeue" /\ UNCHANGED returned
  BY <1>2, <1>3 DEF ParseFrom
<1>5. PICK k \in Nat, p \in Nat :
        k = last - q /\ last = q + k /\ p = (IF stopped THEN last + 1 ELSE last)
  BY <1>1, <1>4
<1>6. p = parsed' /\ q + k <= p /\ p <= n /\ 2 * p <= to
  <2>1. p <= complete
    BY <1>3, <1>4, <1>5
  <2> QED BY <1>3, <1>4, <1>5, <2>1
<1>7. body' = body /\ \A positions : Messages(positions)' = Messages(positions)
  BY DEF ReadChunk, Messages
<1>8. new \in Seq(1..p) /\ Len(new) = k /\ \A i \in 1..k : new[i] = q + i
  <2>1. \A i \in 1..k : q + i \in 1..p
    BY <1>6
  <2>2. new = [i \in 1..k |-> q + i]
    BY <1>4, <1>5
  <2>3. new \in [1..k -> 1..p]
    BY <2>1, <2>2
  <2> QED BY <1>5, <2>2, <2>3
<1>9. pending \in Seq(1..q) /\ pending \in Seq(1..p)
  <2>1. \A i \in 1..q : i \in 1..p
    BY <1>6
  <2>2. pending \in Seq(1..q)
    BY <1>1 DEF IInv, Types
  <2>3. pending \in [1..l -> 1..q]
    BY ONLY <1>1, <2>2
  <2>4. pending \in [1..l -> 1..p]
    BY ONLY <2>1, <2>3
  <2>5. \A S : \A s \in [1..l -> S] : s \in Seq(S)
    OBVIOUS
  <2> QED BY ONLY <2>2, <2>4, <2>5
<1>10. PICK joined : joined = pending'
  OBVIOUS
<1>11. joined \in Seq(1..p) /\ Len(joined) = l + k
  <2>1. pending \o new \in Seq(1..p) /\ Len(pending \o new) = Len(pending) + Len(new)
    BY ONLY <1>8, <1>9, ConcatProperties
  <2> QED BY <1>1, <1>4, <1>8, <1>10, <2>1
<1>12. /\ \A i \in 1..l : joined[i] = pending[i] /\ pending[i] \in 1..q
       /\ \A i \in 1..k : joined[l + i] = q + i
  <2>1. \A i \in 1..l + k :
          joined[i] = IF i <= Len(pending) THEN pending[i] ELSE new[i - Len(pending)]
    <3>1. pending' = pending \o new
      BY <1>4
    <3> QED BY ONLY <1>1, <1>8, <1>9, <1>10, <3>1, ConcatProperties
  <2>2. \A i \in 1..k : l + i \in 1..l + k /\ ~(l + i <= l) /\ (l + i) - l = i
    OBVIOUS
  <2>3. \A i \in 1..l : i \in 1..l + k /\ i <= l
    OBVIOUS
  <2>4. \A i \in 1..l : pending[i] \in 1..q
    BY ONLY <1>1, <1>9
  <2>5. \A i \in 1..k : joined[l + i] = q + i
    BY ONLY <1>1, <1>8, <2>1, <2>2
  <2>6. \A i \in 1..l : joined[i] = pending[i]
    BY ONLY <1>1, <2>1, <2>3
  <2> QED BY <2>4, <2>5, <2>6
<1>13. \A i \in 1..l + k : i \in 1..l \/ \E d \in 1..k : i = l + d
  <2> TAKE i \in 1..l + k
  <2>1. CASE i <= l
    BY <2>1
  <2>2. CASE i > l
    <3>1. i - l \in 1..k /\ i = l + (i - l)
      BY <2>2
    <3> QED BY <3>1
  <2> QED BY <2>1, <2>2
<1>14. \A m \in 1..p :
         m \in 1..q \/ (\E d \in 1..k : m = q + d) \/ (m = last + 1 /\ stopped)
  <2> TAKE m \in 1..p
  <2>1. CASE m > q /\ m <= q + k
    <3>1. m - q \in 1..k /\ m = q + (m - q)
      BY <2>1
    <3> QED BY <3>1
  <2>2. CASE m > q + k
    BY <1>4, <1>5, <2>2
  <2> QED BY <2>1, <2>2
<1>15. \A d \in 1..k : q + d \in (q + 1)..last
  BY <1>5
<1>16. /\ returned' \in Seq(Results) /\ reader' \in {"idle", "dequeue"}
       /\ Delivered' = Delivered /\ Given' = Given
       /\ \A i \in Delivered : returned'[i] = returned[i]
       /\ Delivered' = DOMAIN returned' =>
            Delivered = DOMAIN returned /\ ~(stopped /\ body[last + 1] \in {"bad", "error"})
       /\ HonestEOF'
  <2>1. CASE stopped /\ body[last + 1] \in {"bad", "error"}
    <3>1. PICK r : r = Failure
      OBVIOUS
    <3>2. Return(r) /\ r \in Results /\ r.kind # "message" /\ r # EOF
      BY <1>4, <2>1, <3>1 DEF Failure, EOF, Results
    <3>3. Delivered' = Delivered /\ Given' = Given /\ Delivered' # DOMAIN returned'
      BY <3>2, NoMessageReturned DEF IInv
    <3>4. returned' \in Seq(Results) /\ reader' = "idle"
          /\ \A i \in DOMAIN returned : returned'[i] = returned[i]
      BY <3>2, ReturnAppends DEF IInv
    <3>5. Given \subseteq Messages(DOMAIN body)
      BY DEF IInv, Ordered, Types, Messages
    <3>6. HonestEOF'
      BY <1>7, <3>2, <3>3, <3>5, HonestReturn DEF IInv
    <3> QED BY <3>3, <3>4, <3>6 DEF Delivered
  <2>2. CASE ~(stopped /\ body[last + 1] \in {"bad", "error"})
    <3>1. reader' = "dequeue" /\ UNCHANGED returned
      BY <1>4, <2>2
    <3>2. Delivered' = Delivered /\ Given' = Given /\ (HonestEOF <=> HonestEOF')
      BY <1>7, <3>1, SameReturned
    <3> QED BY <2>2, <3>1, <3>2 DEF IInv, Types
  <2> QED BY <2>1, <2>2
<1>17. Types'
  <2>1. taken' \in 0..2 * Len(body') /\ parsed' \in 0..Len(body') /\ 2 * parsed' <= taken'
    <3>1. to <= 2 * n /\ p <= n /\ 2 * p <= to
      BY <1>2, <1>6
    <3>2. to \in 0..2 * n /\ p \in 0..n
      BY <3>1
    <3>3. to = taken' /\ n = Len(body') /\ p = parsed'
      BY <1>1, <1>2, <1>6, <1>7
    <3> QED BY <3>1, <3>2, <3>3
  <2>2. ended' \in BOOLEAN
    BY <1>4
  <2>3. pending' \in Seq(1..parsed')
    BY <1>6, <1>10, <1>11
  <2> QED BY <1>7, <1>16, <2>1, <2>2, <2>3 DEF IInv, Types
<1>18. Ordered'
  <2>1. \A i, j \in Delivered' : i < j => returned'[i].frame < returned'[j].frame
    BY <1>16 DEF IInv, Ordered
  <2>2. \A i, j \in 1..l + k : i < j => joined[i] < joined[j]
    <3> SUFFICES ASSUME NEW i \in 1..l + k, NEW j \in 1..l + k, i < j
                 PROVE  joined[i] < joined[j]
      OBVIOUS
    <3>1. CASE j \in 1..l
      <4>1. i \in 1..l
        BY <3>1
      <4>2. pending[i] < pending[j]
        BY <1>1, <3>1, <4>1 DEF IInv, Ordered
      <4> QED BY <1>12, <3>1, <4>1, <4>2
    <3>2. ASSUME NEW d \in 1..k, j = l + d PROVE joined[i] < joined[j]
      <4>1. joined[j] = q + d
        BY <1>12, <3>2
      <4>2. CASE i \in 1..l
        <5>1. joined[i] \in 1..q
          BY <1>12, <4>2
        <5> QED BY <4>1, <5>1
      <4>3. ASSUME NEW e \in 1..k, i = l + e PROVE joined[i] < joined[j]
        <5>1. joined[i] = q + e
          BY <1>12, <4>3
        <5> QED BY <3>2, <4>1, <4>3, <5>1
      <4> QED BY <1>13, <4>2, <4>3
    <3> QED BY <1>13, <3>1, <3>2
  <2>3. \A i \in 1..l + k : body[joined[i]] \in {"message", "empty"}
    <3>1. \A i \in 1..l : body[joined[i]] \in {"message", "empty"}
      BY <1>1, <1>12 DEF IInv, Ordered
    <3>2. \A d \in 1..k : body[joined[l + d]] \in {"message", "empty"}
      BY <1>4, <1>12, <1>15
    <3> QED BY <1>13, <3>1, <3>2
  <2>4. \A g \in Given : g \in Messages(1..p)
    <3>1. \A g \in Given : g \in 1..q /\ body[g] = "message"
      BY <1>1 DEF IInv, Ordered, Messages
    <3>2. \A g \in 1..q : g \in 1..p
      BY <1>6
    <3> QED BY <3>1, <3>2 DEF Messages
  <2>5. \A g \in Given, i \in 1..l + k : g < joined[i]
    <3>1. \A g \in Given : g \in 1..q
      BY <1>1 DEF IInv, Ordered, Messages
    <3>2. \A g \in Given, i \in 1..l : g < joined[i]
      BY <1>1, <1>12 DEF IInv, Ordered
    <3>3. \A d \in 1..k : \A g \in 1..q : g < q + d
      OBVIOUS
    <3>4. \A g \in Given, d \in 1..k : g < joined[l + d]
      BY <1>12, <3>1, <3>3
    <3> QED BY <1>13, <3>2, <3>4
  <2>6. \A m \in Messages(1..p) : m \in Given \/ \E i \in 1..l + k : joined[i] = m
    <3> SUFFICES ASSUME NEW m \in 1..p, body[m] = "message"
                 PROVE  m \in Given \/ \E i \in 1..l + k : joined[i] = m
      BY DEF Messages
    <3>1. CASE m \in 1..q
      <4>1. m \in Given \/ \E i \in 1..l : pending[i] = m
        BY <1>1, <3>1 DEF IInv, Ordered, Messages
      <4>2. \A i \in 1..l : i \in 1..l + k
        OBVIOUS
      <4> QED BY <1>12, <4>1, <4>2
    <3>2. ASSUME NEW d \in 1..k, m = q + d PROVE \E i \in 1..l + k : joined[i] = m
      <4>1. l + d \in 1..l + k
        OBVIOUS
      <4> QED BY <1>12, <3>2, <4>1
    <3>3. ~(m = last + 1 /\ stopped)
      BY <1>4 DEF EndFrames
    <3> QED BY <1>14, <3>1, <3>2, <3>3
  <2>7. Messages(1..p) = Messages(1..parsed)'
    BY <1>6, <1>7
  <2>8. Len(pending') = l + k
    BY <1>10, <1>11
  <2> QED BY <1>7, <1>10, <1>16, <2>1, <2>2, <2>3, <2>4, <2>5, <2>6, <2>7, <2>8 DEF Ordered
<1>19. Clean'
  <2>1. ended' => p = n /\ p > 0 /\ body[p] \in EndFrames
    <3> SUFFICES ASSUME ended' PROVE p = n /\ p > 0 /\ body[p] \in EndFrames
      OBVIOUS
    <3>1. stopped /\ body[last + 1] \in EndFrames
      BY <1>4
    <3>2. p = last + 1 /\ p > 0
      BY <1>5, <3>1
    <3>3. body[p] \notin DataFrames
      BY <3>1, <3>2 DEF EndFrames, DataFrames
    <3>4. p \in 1..n
      BY <1>6, <3>2
    <3>5. ~(p < n)
      BY <1>1, <3>3, <3>4 DEF IInv, Types
    <3> QED BY <1>6, <3>1, <3>2, <3>5
  <2>2. Delivered' = DOMAIN returned' => \A i \in 1..p : body[i] \notin {"bad", "error"}
    <3> SUFFICES ASSUME Delivered' = DOMAIN returned', NEW i \in 1..p
                 PROVE  body[i] \notin {"bad", "error"}
      OBVIOUS
    <3>1. CASE i \in 1..q
      BY <1>1, <1>16, <3>1 DEF IInv, Clean
    <3>2. ASSUME NEW d \in 1..k, i = q + d PROVE body[i] \notin {"bad", "error"}
      BY <1>4, <1>15, <3>2
    <3>3. CASE i = last + 1 /\ stopped
      BY <1>16, <3>3
    <3> QED BY <1>14, <3>1, <3>2, <3>3
  <2>3. reader' # "read"
    BY <1>16
  <2> QED BY <1>1, <1>6, <1>7, <2>1, <2>2, <2>3 DEF Clean
<1> QED BY <1>16, <1>17, <1>18, <1>19 DEF IInv

\* A step that returns nothing and moves nothing
LEMMA StillIInv ==
  ASSUME IInv, UNCHANGED << body, taken, parsed, pending, ended, returned >>,
         reader' \in {"idle", "dequeue", "read"},
         reader' = "read" => reader = "read" \/ (pending = << >> /\ ~ended)
  PROVE  IInv'
<1>1. /\ Delivered' = Delivered /\ Given' = Given /\ (HonestEOF <=> HonestEOF')
      /\ \A positions : Messages(positions)' = Messages(positions)
  BY SameReturned
<1>2. Types'
  BY DEF IInv, Types
<1>3. Ordered'
  BY <1>1 DEF IInv, Ordered
<1>4. Clean'
  BY <1>1 DEF IInv, Clean
<1> QED BY <1>1, <1>2, <1>3, <1>4 DEF IInv

\* Every step of the reader and of the network keeps IInv.
LEMMA NextIInv == IInv /\ [Next]_vars => IInv'
<1> SUFFICES ASSUME IInv, [Next]_vars PROVE IInv'
  OBVIOUS
<1>1. EOF \in Results /\ EOF.kind # "message" /\ Failure \in Results
      /\ Failure.kind # "message" /\ Failure # EOF
  BY DEF EOF, Failure, Results
<1>2. CASE Call
  BY <1>2, StillIInv DEF Call
<1>3. CASE Dequeue
  BY <1>3, DequeueIInv
<1>4. CASE DequeueEnd
  BY <1>1, <1>4, EndIInv DEF DequeueEnd
<1>5. CASE DequeueNothing
  BY <1>5, StillIInv DEF DequeueNothing
<1>6. CASE ReadChunk
  BY <1>6, FeedIInv
<1>7. CASE ReadEOF
  <2>1. reader = "read" /\ UNCHANGED << body, taken, parsed, pending, ended >>
    BY <1>7 DEF ReadEOF
  <2>2. CASE ended
    <3>1. Return(EOF)
      BY <1>7, <2>2 DEF ReadEOF
    <3>2. ~\A i \in DOMAIN body : body[i] # "empty"
      BY <2>1, <2>2 DEF IInv, Clean, Types
    <3> QED BY <1>1, <2>1, <3>1, <3>2, EndIInv
  <2>3. CASE ~ended
    <3>1. Return(Failure)
      BY <1>7, <2>3 DEF ReadEOF
    <3> QED BY <1>1, <2>1, <3>1, EndIInv
  <2> QED BY <2>2, <2>3
<1>8. CASE ReadError
  BY <1>1, <1>8, EndIInv DEF ReadError
<1>9. CASE Close
  BY <1>9, StillIInv DEF Close
<1>10. CASE UNCHANGED vars
  BY <1>10, StillIInv DEF vars, IInv, Types
<1> QED BY <1>2, <1>3, <1>4, <1>5, <1>6, <1>7, <1>8, <1>9, <1>10 DEF Next, Terminated

-----------------------------------------------------------------------------
\* IInv is an invariant of every stream.
THEOREM InductiveInvariant == Spec => []IInv
  BY InitIInv, NextIInv, PTL DEF Spec

\* The messages of a body come in order and once, for bodies of any length,
\* however they are cut and whatever errors come between.
THEOREM InOrder == Spec => []MessagesInOrder
<1>1. IInv => MessagesInOrder
  <2> SUFFICES ASSUME IInv PROVE MessagesInOrder
    OBVIOUS
  <2>1. /\ parsed \in Nat /\ DOMAIN pending = 1..Len(pending)
        /\ \A i \in 1..Len(pending) : pending[i] \in 1..parsed
        /\ Range(pending) = {pending[i] : i \in 1..Len(pending)}
    BY DEF IInv, Types, Range
  <2>2. \A g \in Given : g \in 1..parsed
    BY DEF IInv, Ordered, Messages
  <2>3. ASSUME NEW g \in Given, NEW m \in Messages(1..g) PROVE m \in Given
    <3>1. m \in 1..g /\ m \in 1..parsed /\ body[m] = "message"
      BY <2>1, <2>2 DEF Messages
    <3>2. \A i \in 1..Len(pending) : pending[i] # m
      BY <2>1, <2>2, <3>1 DEF IInv, Ordered
    <3> QED BY <3>1, <3>2 DEF IInv, Ordered, Messages
  <2>4. Given \union Messages(Range(pending)) = Messages(1..parsed)
    BY <2>1 DEF IInv, Ordered, Messages
  <2> QED BY <2>1, <2>3, <2>4 DEF IInv, Ordered, MessagesInOrder
<1> QED BY <1>1, InductiveInvariant, PTL

\* A truncated, failed or broken stream never looks like a clean end to a
\* reader that stops there, for bodies of any length.
THEOREM EOFIsHonest == Spec => []HonestEOF
<1>1. IInv => HonestEOF
  BY DEF IInv
<1> QED BY <1>1, InductiveInvariant, PTL
=============================================================================
