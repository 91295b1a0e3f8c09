------------------------------ MODULE RunResume ------------------------------
(***************************************************************************)
(* Reading a run across connections: a Send stream, then ObserveRun with   *)
(* the offset of the last event received (yieldRunStream and observeRun of *)
(* bridge/src/sdk-service.ts, Run.Observe of cursor/run.go).               *)
(*                                                                         *)
(* A run is a sequence of SDK messages, then its result and its done       *)
(* marker; item i is the i-th of them.  run.stream() of the SDK gives the  *)
(* messages from the first one to every caller.  A merged Send stream also *)
(* carries deltas and steps, numbered with the rest (MergedRunStream shows *)
(* that its offsets are 1, 2, 3, ...); they are not items of the run.      *)
(***************************************************************************)
EXTENDS Naturals, Sequences

CONSTANTS
  SendKinds,      \* which Send streams are used: a subset of Kinds
  MaxMessages,    \* bound: SDK messages of the run
  MaxDeltas,      \* bound: deltas and steps
  MaxDisconnects  \* bound: connections lost by the reader

Kinds == {"plain", "merged"}

ASSUME ResumeBounds ==
  /\ SendKinds \subseteq Kinds /\ SendKinds # {}
  /\ MaxMessages \in Nat /\ MaxDeltas \in Nat /\ MaxDisconnects \in Nat

VARIABLES
  messages,     \* messages the run has produced
  finished,     \* run.wait() has resolved
  connection,   \* a stream the reader is on, "none" or "ended"
  position,     \* items the stream's generator has gone through
  offset,       \* the generator's offset
  startAfter,   \* its parsed afterOffset
  token,        \* the offset of the last event the reader received, 0 if none
  seen,         \* the items the reader received
  deltas,       \* deltas and steps so far
  disconnects   \* connections lost so far

vars == << messages, finished, connection, position, offset, startAfter,
           token, seen, deltas, disconnects >>

Init ==
  /\ messages = 0
  /\ finished = FALSE
  /\ connection \in SendKinds
  /\ position = 0
  /\ offset = 0
  /\ startAfter = 0
  /\ token = 0
  /\ seen = << >>
  /\ deltas = 0
  /\ disconnects = 0

-----------------------------------------------------------------------------
\* The agent works on, whether anybody reads or not.
Produce ==
  /\ ~finished
  /\ messages < MaxMessages
  /\ messages' = messages + 1
  /\ UNCHANGED << finished, connection, position, offset, startAfter, token,
                  seen, deltas, disconnects >>

Finish ==
  /\ ~finished
  /\ finished' = TRUE
  /\ UNCHANGED << messages, connection, position, offset, startAfter, token,
                  seen, deltas, disconnects >>

\* The items there are: messages, and the result and done of a finished run.
Available == IF finished THEN messages + 2 ELSE messages

\* Mutation of Skipped: the token names the first event wanted.
SkippedBefore(number) == number < startAfter

\* yieldRunStream leaves an item out if the reader has its number already.
Skipped(number) == number <= startAfter

\* Mutation of Advance: an item that is left out is not counted.
AdvanceUncounted ==
  /\ connection \in Kinds
  /\ position < Available
  /\ position' = position + 1
  /\ IF Skipped(offset + 1)
     THEN UNCHANGED << offset, token, seen >>
     ELSE /\ offset' = offset + 1
          /\ token' = offset + 1
          /\ seen' = Append(seen, position + 1)
  /\ UNCHANGED << messages, finished, connection, startAfter, deltas,
                  disconnects >>

\* The generator's next item: numbered, and yielded unless it is skipped.
Advance ==
  /\ connection \in Kinds
  /\ position < Available
  /\ position' = position + 1
  /\ offset' = offset + 1
  /\ IF Skipped(offset + 1)
     THEN UNCHANGED << token, seen >>
     ELSE /\ token' = offset + 1
          /\ seen' = Append(seen, position + 1)
  /\ UNCHANGED << messages, finished, connection, startAfter, deltas,
                  disconnects >>

\* A delta or a step on a merged stream, before the run's result.
Delta ==
  /\ connection = "merged"
  /\ position <= messages
  /\ deltas < MaxDeltas
  /\ deltas' = deltas + 1
  /\ offset' = offset + 1
  /\ token' = offset + 1
  /\ UNCHANGED << messages, finished, connection, position, startAfter, seen,
                  disconnects >>

\* The generator is exhausted: the reader sees the end of the stream.
StreamEnds ==
  /\ connection \in Kinds
  /\ finished
  /\ position = messages + 2
  /\ connection' = "ended"
  /\ UNCHANGED << messages, finished, position, offset, startAfter, token,
                  seen, deltas, disconnects >>

Disconnect ==
  /\ connection \in Kinds
  /\ disconnects < MaxDisconnects
  /\ disconnects' = disconnects + 1
  /\ connection' = "none"
  /\ UNCHANGED << messages, finished, position, offset, startAfter, token,
                  seen, deltas >>

\* Run.Observe with the reader's token: a plain stream from the beginning.
Resume ==
  /\ connection = "none"
  /\ connection' = "plain"
  /\ position' = 0
  /\ offset' = 0
  /\ startAfter' = token
  /\ UNCHANGED << messages, finished, token, seen, deltas, disconnects >>

Terminated ==
  /\ connection = "ended"
  /\ UNCHANGED vars

Next ==
  \/ Produce
  \/ Finish
  \/ Advance
  \/ Delta
  \/ StreamEnds
  \/ Disconnect
  \/ Resume
  \/ Terminated

Spec == Init /\ [][Next]_vars

\* The run finishes, a connected stream moves, and the reader comes back.
FairSpec ==
  /\ Spec
  /\ WF_vars(Finish)
  /\ WF_vars(Advance \/ StreamEnds)
  /\ WF_vars(Resume)

-----------------------------------------------------------------------------
(* Properties.                                                             *)

Exact ==
  /\ \A i \in DOMAIN seen : seen[i] = i
  /\ connection = "ended" => Len(seen) = messages + 2

\* Across any number of lost connections the reader gets no item of the run
\* out of order or twice; and if no delta or step was numbered, or no
\* connection was lost, it gets every item, and the end of the stream only
\* after the done marker.
ResumeInOrder ==
  /\ \A i, j \in DOMAIN seen : i < j => seen[i] < seen[j]
  /\ deltas = 0 \/ disconnects = 0 => Exact

\* Wherever its connections were lost, a reader without deltas and steps
\* learns how the run ended.
LearnsResult ==
  <>(deltas > 0 \/ (seen # << >> /\ seen[Len(seen)] = messages + 2))
=============================================================================
