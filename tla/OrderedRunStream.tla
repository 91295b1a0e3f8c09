--------------------------- MODULE OrderedRunStream ---------------------------
(***************************************************************************)
(* What a run stream promises its reader, whatever produces it.  Events    *)
(* are published in one order, numbered 1, 2, ... and read in that order,  *)
(* each once.  The reader sees a clean end only after the result and the   *)
(* done event, and an error only after everything published before it.     *)
(* Reading may stop early at any time.                                     *)
(***************************************************************************)
EXTENDS Naturals, Sequences

CONSTANT Payloads  \* the sources of events: message, delta, step, result, done

VARIABLES
  log,     \* everything published so far
  read,    \* how much of the log the reader has been given
  sealed,  \* nothing more will be published
  broken,  \* the stream is going to end with an error
  status   \* "open", or how the stream ended for its reader

absVars == << log, read, sealed, broken, status >>

LogEvents == [offset: Nat, source: Payloads, id: Nat]

AbsInit ==
  /\ log = << >>
  /\ read = 0
  /\ sealed = FALSE
  /\ broken = FALSE
  /\ status = "open"

\* The log grows by one event per source given, carrying the next numbers.
Grow(sources) ==
  /\ log' \in Seq(LogEvents)
  /\ Len(log') = Len(log) + Len(sources)
  /\ \A i \in 1..Len(log) : log'[i] = log[i]
  /\ \A i \in 1..Len(sources) :
       /\ log'[Len(log) + i].source = sources[i]
       /\ log'[Len(log) + i].offset = Len(log) + i

Publish ==
  /\ ~sealed
  /\ \E source \in Payloads \ {"result", "done"} : Grow(<< source >>)
  /\ UNCHANGED << read, sealed, broken, status >>

\* The run is over: its result and the end marker, and no event between.
PublishEnd ==
  /\ ~sealed
  /\ Grow(<< "result", "done" >>)
  /\ sealed' = TRUE
  /\ UNCHANGED << read, broken, status >>

\* The stream fails, possibly between the result and the end marker.
Break ==
  /\ log' = log \/ (~sealed /\ Grow(<< "result" >>))
  /\ sealed' = TRUE
  /\ broken' = TRUE
  /\ UNCHANGED << read, status >>

Read ==
  /\ status = "open"
  /\ read < Len(log)
  /\ read' = read + 1
  /\ UNCHANGED << log, sealed, broken, status >>

End ==
  /\ status = "open"
  /\ read = Len(log)
  /\ sealed /\ ~broken
  /\ log # << >> /\ log[Len(log)].source = "done"
  /\ status' = "ended"
  /\ UNCHANGED << log, read, sealed, broken >>

Error ==
  /\ status = "open"
  /\ read = Len(log)
  /\ broken
  /\ status' = "failed"
  /\ UNCHANGED << log, read, sealed, broken >>

Abandon ==
  /\ status = "open"
  /\ status' = "abandoned"
  /\ UNCHANGED << log, read, sealed, broken >>

\* After its reader has gone the stream is only closed.
Seal ==
  /\ status # "open"
  /\ sealed' = TRUE
  /\ UNCHANGED << log, read, broken, status >>

AbsNext ==
  Publish \/ PublishEnd \/ Break \/ Read \/ End \/ Error \/ Abandon \/ Seal

AbsSpec == AbsInit /\ [][AbsNext]_absVars

=============================================================================
