---------------------------- MODULE ConnectStream ----------------------------
(***************************************************************************)
(* StreamReader and streamParser (internal/connect/stream.go): the client  *)
(* side of a Connect server stream.  The body of the response is a         *)
(* sequence of frames; the network hands it over in chunks that respect no *)
(* frame boundary and may break anywhere.  A caller asks for one message   *)
(* after another with Next and may keep asking after an error.             *)
(*                                                                         *)
(* A frame is two units long, so a chunk may end inside it, whether in the *)
(* five-byte prefix or in the payload: feed treats both alike.             *)
(***************************************************************************)
EXTENDS Naturals, Sequences, Functions

CONSTANTS
  MaxFrames,  \* bound: frames in the body of the response
  MaxCalls    \* bound: calls of Next

ASSUME ConnectBounds == MaxFrames \in Nat /\ MaxCalls \in Nat

\* "empty": no payload, or the payload null; "bad": a payload that is not
\* JSON.  "end" and "error" carry EndStreamFlag, "error" with an error object.
DataFrames  == {"message", "empty", "bad"}
EndFrames   == {"end", "error"}

\* A body is any data, with or without an end frame after it.
Bodies ==
  LET data == UNION {[1..n -> DataFrames] : n \in 0..MaxFrames}
  IN  data \union {Append(d, e) : d \in data, e \in EndFrames}

VARIABLES
  body,     \* the frames the server sends
  taken,    \* units of the body read from the network
  broken,   \* the connection was reset, timed out or was closed
  parsed,   \* frames removed from the parser's buffer
  pending,  \* the parser's pending messages, as positions in the body
  ended,    \* the parser has seen an end frame
  reader,   \* "idle", or where Next is: "dequeue" or "read"
  returned  \* what Next returned so far: messages, errors and io.EOF

vars == << body, taken, broken, parsed, pending, ended, reader, returned >>

\* What Next returns; `frame' is the position of a message in the body.
Message(frame) == [kind |-> "message", frame |-> frame]
Failure == [kind |-> "error", frame |-> 0]
EOF == [kind |-> "eof", frame |-> 0]

Init ==
  /\ body \in Bodies
  /\ taken = 0
  /\ broken = FALSE
  /\ parsed = 0
  /\ pending = << >>
  /\ ended = FALSE
  /\ reader = "idle"
  /\ returned = << >>

-----------------------------------------------------------------------------
Return(outcome) ==
  /\ returned' = Append(returned, outcome)
  /\ reader' = "idle"

Call ==
  /\ reader = "idle"
  /\ Len(returned) < MaxCalls
  /\ reader' = "dequeue"
  /\ UNCHANGED << body, taken, broken, parsed, pending, ended, returned >>

\* tryDequeue has a message.  An empty one is a nil map, which Next does not
\* tell from no message: it drops it and goes on to read.
Dequeue ==
  /\ reader = "dequeue"
  /\ pending # << >>
  /\ pending' = Tail(pending)
  /\ IF body[Head(pending)] = "message"
     THEN Return(Message(Head(pending)))
     ELSE reader' = "read" /\ UNCHANGED returned
  /\ UNCHANGED << body, taken, broken, parsed, ended >>

DequeueEnd ==
  /\ reader = "dequeue"
  /\ pending = << >>
  /\ ended
  /\ Return(EOF)
  /\ UNCHANGED << body, taken, broken, parsed, pending, ended >>

DequeueNothing ==
  /\ reader = "dequeue"
  /\ pending = << >>
  /\ ~ended
  /\ reader' = "read"
  /\ UNCHANGED << body, taken, broken, parsed, pending, ended, returned >>

\* The parser's loop over the frames behind position `from' that are
\* complete when the body is buffered up to unit `to': frames are taken off,
\* up to `last', until one is incomplete, is not JSON or ends the stream.
\* An error is returned at once, whatever was parsed before it.  Nothing
\* follows an end frame.
ParseFrom(from, to) ==
  \E last \in from..(to \div 2) :
    LET stopped == last < to \div 2 IN
    /\ \A i \in (from + 1)..last : body[i] \in {"message", "empty"}
    /\ stopped => body[last + 1] \in EndFrames \union {"bad"}
    /\ pending' = pending \o [i \in 1..(last - from) |-> from + i]
    /\ parsed' = IF stopped THEN last + 1 ELSE last
    /\ ended' = (stopped /\ body[last + 1] \in EndFrames)
    /\ IF stopped /\ body[last + 1] \in {"bad", "error"}
       THEN Return(Failure)
       ELSE reader' = "dequeue" /\ UNCHANGED returned

\* Mutation of Feed: a chunk replaces the buffer, with the part of a frame
\* that was in it.
FeedForgetsPartial(to) == ParseFrom((taken + 1) \div 2, to)

Feed(to) == ParseFrom(parsed, to)

\* Body.Read returns some of what the server sent.
ReadChunk ==
  /\ reader = "read"
  /\ ~broken
  /\ \E to \in (taken + 1)..2 * Len(body) :
       taken' = to /\ Feed(to)
  /\ UNCHANGED << body, broken >>

\* Mutation of ReadEOF: assertEnded is not called.
ReadEOFUnchecked ==
  /\ reader = "read"
  /\ ~broken
  /\ taken = 2 * Len(body)
  /\ Return(EOF)
  /\ UNCHANGED << body, taken, broken, parsed, pending, ended >>

\* Mutation of ReadEOF: the end of the response is read again and again.
ReadEOFLoops ==
  /\ reader = "read"
  /\ ~broken
  /\ taken = 2 * Len(body)
  /\ reader' = "dequeue"
  /\ UNCHANGED << body, taken, broken, parsed, pending, ended, returned >>

\* Body.Read reports the end of the response: assertEnded.
ReadEOF ==
  /\ reader = "read"
  /\ ~broken
  /\ taken = 2 * Len(body)
  /\ Return(IF ended THEN EOF ELSE Failure)
  /\ UNCHANGED << body, taken, broken, parsed, pending, ended >>

\* Body.Read fails, and will fail again.
ReadError ==
  /\ reader = "read"
  /\ broken' = TRUE
  /\ Return(Failure)
  /\ UNCHANGED << body, taken, parsed, pending, ended >>

\* Close, from the goroutine that calls Next.
Close ==
  /\ reader = "idle"
  /\ ~broken
  /\ broken' = TRUE
  /\ UNCHANGED << body, taken, parsed, pending, ended, reader, returned >>

Terminated ==
  /\ reader = "idle"
  /\ Len(returned) = MaxCalls
  /\ UNCHANGED vars

Next ==
  \/ Call
  \/ Dequeue
  \/ DequeueEnd
  \/ DequeueNothing
  \/ ReadChunk
  \/ ReadEOF
  \/ ReadError
  \/ Close
  \/ Terminated

Spec == Init /\ [][Next]_vars

\* A call of Next runs on, and Body.Read returns: the context of the stream
\* has a timeout.
FairSpec ==
  /\ Spec
  /\ WF_vars(Dequeue \/ DequeueEnd \/ DequeueNothing)
  /\ WF_vars(ReadChunk \/ ReadEOF \/ ReadError)

-----------------------------------------------------------------------------
(* Properties.                                                             *)

Messages(positions) == {i \in positions : body[i] = "message"}

\* What Next has returned that is a message, and the positions of these.
Delivered == {i \in DOMAIN returned : returned[i].kind = "message"}
Given == {returned[i].frame : i \in Delivered}

\* However the body is cut into chunks, and whatever errors come between,
\* Next returns the messages of the body in order, from the first one on,
\* none twice; what it has not returned of the frames it parsed is pending
\* (feed, tryDequeue).
MessagesInOrder ==
  /\ \A i, j \in Delivered : i < j => returned[i].frame < returned[j].frame
  /\ \A g \in Given : Messages(1..g) \subseteq Given
  /\ Given \union Messages(Range(pending)) = Messages(1..parsed)
  /\ \A i, j \in DOMAIN pending : i < j => pending[i] < pending[j]

\* A reader that stops at the first error or EOF: EOF tells it that it has
\* every message and that the server ended the stream without an error.
\* A truncated body or a reset connection never looks like an end.  Frames
\* without a message are excepted: Next leaves whatever is pending behind
\* them to read the network, and may find its end.
HonestEOF ==
  /\ \E i \in DOMAIN returned : returned[i] = EOF /\ 1..(i - 1) \subseteq Delivered
  /\ \A i \in DOMAIN body : body[i] # "empty"
  =>
    /\ body # << >> /\ body[Len(body)] = "end"
    /\ \A i \in DOMAIN body : body[i] # "bad"
    /\ Given = Messages(DOMAIN body)

\* No call of Next hangs on a parser that has everything it needs.
NextReturns == reader # "idle" ~> reader = "idle"
=============================================================================
