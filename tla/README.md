# TLA+ project for cursor-go-sdk

A Go client (`cursor`, `internal/connect`, `internal/bridge`) starts a Node
process, the *bridge* (`bridge/src`), and talks to it in Connect JSON over
loopback HTTP. The bridge drives `@cursor/sdk` in its own process: agents, and
the runs they execute. This directory holds TLA+ models of the parts where
state, concurrency and failure meet, the TLC configurations that check them, and
TLAPS proofs of every safety property that those configurations check.

## 1. Inventory

| Component | State | Operations | Interacts with | What is hard | Correct means |
|---|---|---|---|---|---|
| Run stream queue and merged stream (`sdk-service.ts` 386-516) | pending events, offset, closed, failure, two lists of waiters | enqueue, waitForDrain, fail, close, iterate; teardown of the generator | SDK callbacks, `run.stream()`, the RPC server that may abandon the generator | three actors, back-pressure that only one of them respects, overflow, teardown that waits for who waits for it | numbers without gaps, bounded, no lost wake-up, an end that is honest, nobody left behind |
| Plain streams and resumption (`yieldRunStream`, `observeRun`, `Run.Observe`) | an offset per stream, the reader's token | number, skip, reconnect | SDK replay of a run | lost connections; two ways of numbering | each item once, in order |
| Connect stream reader (`internal/connect/stream.go`) | buffer, pending messages, ended | feed, dequeue, Next, Close | network | cuts anywhere, truncation, errors inside a chunk | messages in order, EOF only for a complete stream |
| Run handle (`cursor/run.go`) | status, ids, buffered event, terminal result, listeners | Events, Wait, Cancel, OnStatusChange | stream reader, WaitLiveRun and CancelRun calls | partial iterations, two goroutines, stream failures, snapshots | events once, one answer, status never ahead of the run |
| Agent registry (`registry.ts`, handlers of `sdk-service.ts`) | agents by id, cloud marks, runs | register, close, send with a new id, look up runs, dispose | concurrent RPC handlers, SDK disposal | every await lets another handler in | no agent lost, none disposed of twice, marks right, runs go with their agent |
| Bridge process (`internal/bridge/bridge.go`, `server.ts`, `bin/cursor-sdk-bridge.ts`) | process, discovery line, HTTP server, two closes | Launch, readDiscovery, Close, Shutdown call, SIGTERM, kill | the registry, calls in flight | both closes side by side, a bridge that hangs | no process left, exit status truthful |
| RPC path (`internal/connect/connect.go`, `errors.go`; handlers of `sdk-service.ts`) | attempts, outcome; what the bridge executed | Unary, Stream; check, execute, answer | HTTP, `@cursor/sdk` | what was already done is sent again; answers lost, late or cut | only safe methods repeat; an outcome says what was done |
| Requests (`client.go` 225-355 and 499-539, converters on the way down) | none | gates of the client, refusals of the handlers, runtime, directory and key of the SDK call | registry for what is live | tables of methods and defaults kept in two languages | the SDK is asked what the caller asked, with the caller's key |
| Answers and errors (converters on the way up, `sdk-error-interceptor.ts`, `errors.go`, `types.go`, `messages.go`) | none | translate an SDK error, an SDK object, a stream event | Connect library (JSON of protobuf) | two tables and two switches that must agree; absent zeros, 64-bit numbers as strings | an error keeps its class, a result its meaning |
| Custom tools (`cursor/callback.go`, `agent.go`, `client.go`, `bridge-custom-tools.ts`, `tool-callback-config.ts`) | tools by agent id, mutex; callback address, cached client | register, unregister, look up; set the address, call | bridge calls the client back, handlers call the SDK | registrations around calls that overlap, one key shared by all creations, an address that changes, handlers that call back | the handler given with the tool, the address last set, an answer to every call |
| Clients (`cursor/client.go`, `default.go`) | owned bridge, transport, callback server, cached default client | Launch, Connect, WithOptions, Close, DefaultClient | everything above | shared ownership, stale cache | modelled where it meets the parts above |
| Versions and installation (`internal/bridge/version.go` and others) | none | compare versions, find or install the bridge | npm, file system | pre-release ordering | a total order |
| Terminal UI example (`examples/coding-agent-tui`) | agent, current run, event channel | send, cancel, switch mode | run handle | state read under the lock and used after | not modelled |

`PROJECT.json` lists each with its status, and the hazards at their lines.

## 2. Modules

| Module | Models |
|---|---|
| `RunStreamQueue` | the class of that name; a queue is a record, a method an operator on queues, since one turn of the event loop calls several |
| `MergedRunStream` | one `send` with deltas or steps: SDK callbacks, producer and generator around one queue; an action is the code between two awaits |
| `MergedRunStreamProps` | its properties, and the mapping to `OrderedRunStream` |
| `OrderedRunStream` | abstract: what a run stream promises its reader |
| `MergedRunStreamProofs` | proofs about the merged stream and its queue, the refinement included |
| `ConnectStream` | `StreamReader.Next`, `Close` and the parser |
| `RunResume` | a reader that loses connections and resumes by offset |
| `RunHandle` | a handle used by a reading goroutine and another one, which cancels, listens and stops listening |
| `AgentRegistry`, `MCAgentRegistry` | the registry and the handlers that change it; symmetry for TLC |
| `BridgeLifecycle` | Go `Launch` and `Close` with the bridge's server, timer, signal handler and exit |
| `Requests` | a call on its way down: the client's gates, the handlers' refusals, and what is asked of the SDK |
| `ErrorCodes` | an SDK error on its way up: the bridge's tables, the HTTP status, the Go error class |
| `Answers` | an SDK object on its way up: conversion, JSON, and how Go reads it |
| `Rpc` | one call from its gates to its outcome, with attempts, timeouts, lost and late requests; composes the three above |
| `RpcProps`, `MCRpc` | its properties; the calls, faults and replies for TLC |
| `RpcProofs` | proofs about `Rpc` and the three modules it composes |
| `CustomTools` | the callback server, the operations that register tools around their calls, the bridge's callback address and client, and the calls of tools |
| `ConnectStreamProofs`, `RunResumeProofs`, `RunHandleProofs`, `AgentRegistryProofs`, `BridgeLifecycleProofs`, `CustomToolsProofs` | proofs about the module named |

Each depends on the one below it through what that one shows. `RunHandle` takes
from `ConnectStream` that items arrive in order and that a failed stream is not
a complete one; `RunResume` takes from `MergedRunStream` that its offsets are
1, 2, 3, ...; `BridgeLifecycle` knows an agent only as registered or disposed of
and leaves ids to `AgentRegistry`; `Requests` takes from `AgentRegistry` only
whether the bridge holds an agent or a run. `Requests`, `ErrorCodes` and
`Answers` are operators without state: `Rpc` evaluates them at the step where
the code does, so that a wrong table shows as a wrong outcome of a call.

How a state corresponds to the code is said at each variable. Some conventions:

* A JavaScript promise that a list of resolvers will settle is represented by
  the process that awaits it: it is parked while its name is in the list.
* A Go section under a mutex is one step.
* What an SDK call answers is a choice; so is whether it rejects.
* Where a definition has a named mutation before it (`EnqueueDropsWhenFull`
  before `Enqueue`), the mutation is a bug the neighbouring code could plausibly
  have; the property it is paired with in `PROJECT.json` must then fail.

## 3. Runs

| Run | Instance | Shows |
|---|---|---|
| `merged_stream` | high-water mark 2, hard limit 3, 3 messages, 3 callbacks | the properties below, and that the stream implements `OrderedRunStream` |
| `connect_stream` | every body of up to 3 data frames with or without an end frame, 5 calls of Next | `MessagesInOrder`, `HonestEOF`, `NextReturns` |
| `run_resume` | 3 messages, 2 deltas, 2 lost connections | `ResumeInOrder`, `LearnsResult` |
| `run_handle` | 2 messages, 2 listeners, 2 answers of Wait, handles from Send and from snapshots | `EventsOnce`, `StatusTruth`, `WaitAgrees`, `ListenersKept`, `WaitAnswers` |
| `agent_registry` | 2 ids, 2 handlers, 2 agents | `CloudFlags`, `NoLeak`, `DisposedOnce`, `RunsGoWithAgent` |
| `bridge_lifecycle` | 3 calls | `NoOrphanProcess`, `CleanExit`, `FailedExit`, `Returns` |
| `rpc` | every method with every combination of the parts of a request it looks at, clients with and without the fallback to `CURSOR_API_KEY`, every pair of error name and code, over 100 results; 1 retry | `AtMostOnce`, `Truthful`, `CloudKeyed`, `RoutedAsAsked`, `ErrorsKept`, `AnswerKept`, `CallReturns` |
| `custom_tools` | 2 agent ids, 1 tool, 3 operations of which 2 overlap, one tool call at a time, 1 change of the callback address | `RightHandler`, `NoPending`, `CurrentAddress`, `CallsAnswered` |

The bounds. `merged_stream` has room between the two limits, so callbacks can
pass the high-water mark and reach the hard limit before, during and after the
two events of the run's end; one more message or callback repeats a queue shape
that was there. Three data frames suffice for an error between two messages with
a chunk boundary on either side. In `run_resume` two lost connections make the
token of a resumed stream the start of another. Two agents, ids and handlers
allow a replacement, an alias and one overlap of each pair of calls; larger
instances (three ids, or three agents with one handler) passed as well but take
minutes. Three calls leave one agent registered before the first close, one in
between and one call in flight at the end. In `rpc` one retry gives two attempts
that can overlap at the bridge; a third finds the bridge in no other state. In
`custom_tools` two operations overlap with each other and with a tool call, and
the third finds what they left behind; with two ids two creations that share the
key `pending` both succeed, and a creation may ask for an id that is free, that
another operation is about to use, or that a live agent has. Every bound is a constant guarded
by name in its module.

### Disagreements with the documentation

Each has a run whose single property states what the documentation says, and
which TLC violates.

| Run | Said | Found |
|---|---|---|
| `run_unsubscribe` | `run.go:98`: OnStatusChange registers a listener for status transitions | of three listeners the first two unsubscribe, and the third is not told: the second call removes what stands at the index its listener had |
| `launch_hangs` | `bridge.go:180`: Launch times out | a bridge that is silent and alive keeps `scanner.Scan` waiting |
| `rpc_runtime` | `parity_test.go:44`, `client.go:532`: a runtime is named `cloud` | the bridge knows `RUNTIME_CLOUD` only and lists local agents |
| `tool_text` | `sdk_custom_tool_callback_service.proto:28`, `callback_test.go:73`: a tool may return a string | the bridge decodes the result as a Struct, and the call of the tool fails |

Where a property of a passing run excepts a case it does so by name, and the
exception is itself something to know about the code:

* `HonestEOF` is about a reader that stops at the first error: `feed` marks the
  parser ended before it returns the error of an end frame, so a reader that
  asks again is told io.EOF. It also excludes frames whose payload is null, which
  `Next` drops and which the bridge never sends.
* `ResumeInOrder` is exact only without deltas or lost connections: a merged Send
  stream numbers deltas and messages together, `ObserveRun` takes the offset for
  a number of messages, and leaves messages out.
* `WaitAgrees` names the snapshot of a running run: on a handle from `GetRun` or
  `ListRuns`, `Wait` returns it at once with status running, although `run.go:187`
  says that it blocks until a terminal state. `ListenersKept` ends at the
  second unsubscribe, since indices then have moved and the wrong listener is
  removed; `run_unsubscribe` shows what happens next. `Cancel` before an SDK message was read names no run.
* `RoutedAsAsked` excepts `Misrouted`: a `ListAgents` without a runtime ignores
  the directory; `CancelRun` of a run that the bridge does not hold goes to the
  cloud whenever an agent is named, and `Run.Cancel` always names it; that call
  and `ObserveRun` name no directory; `ResumeAgent` of a cloud agent without cloud
  options carries one; so does an operation on a cloud agent (get, update, archive
  and the like) that names none, which the converter gives the launch workspace
  (`sdk-converters.ts:296`). Any other cloud call gets no directory but the caller's.
* `CloudKeyed` is about clients that may not fall back on the environment
  (`allowAPIKeyEnvFallback`, `client.go:500`). Who launched the bridge does not
  matter: a client made by `Connect` may ask for the fallback, and then has no gate.
  It excepts `Unkeyed`: `ListRuns` and `GetRun` without a runtime, which go to the
  SDK without a key and may find cloud runs with the bridge's own.
* `ErrorsKept` excepts `Lost`: `not_found` arrives as a ConfigurationError, the
  integration errors as an UnknownAgentError; so do an AgentNotFoundError and an
  AgentBusyError, respectively, whose code is not in the bridge's table.
* `AnswerKept` allows 64-bit numbers to arrive as 0: `intField` does not read the
  strings that proto3 JSON makes of them, so durations and sizes are never read
  (`NumberLost` proves it).
* `Truthful` leaves NetworkError, APITimeoutError and the untyped error of a body
  that was cut without a meaning: the call may have been executed.
* `NoPending` excepts a creation refused for its idempotency key, which leaves its
  tools registered. `RightHandler` excepts agents whose registration was taken or
  replaced (`disturbed`): by `Close`, by a `Send` with tools, by a resume, by a
  creation that asks for an id in use, also one that the client refuses afterwards
  (`client.go:249`, 257-262). The exception ends when a resume or a creation of that
  id has succeeded with no other operation on it (`Settle`); calls made before stay
  excepted.
* `CleanExit` and `FailedExit` say nothing of a bridge that was killed.
* The gate of `requireCloudAPIKey` also refuses calls on local runs, since the
  run methods send no options; no property says that it should not.

### Concurrency the registry does not survive

`AgentRegistry` keeps a history variable `raced`: the agents on which two calls
in flight disagreed, at least one of them registering, closing or renaming. For
those the code can lose a live agent or dispose of one twice (two `createAgent`
or `resumeAgent` calls for one id; a `closeAgent` that a `resumeAgent`
overtakes; a `send` that renames an agent being closed). Two calls disagree when
they hold the same agent or are to change the same id (`Claims`): a handler
that registers writes its agent over whatever the id led to when its await ends,
so that agent must count as raced on although the handler never read it. No
documentation forbids or permits such calls. `NoLeak`, `DisposedOnce` and
`RunsGoWithAgent` leave these agents out, so they do not cover the two hazards of
`registry.ts` lines 16 and 41; they say that no other agent is ever affected, which
is about aliases after a rename. `CloudFlags` needs no
such exception.

### Fairness

* `MergedRunStream`: SDK promises settle, ready continuations run, the server
  resumes or abandons a generator. Callbacks owe nothing. It is what an event
  loop does, and an SDK whose `stream.return()` resolves.
* `ConnectStream`: a `Next` that was called runs on, and reading the body
  returns, as the stream's context has a timeout.
* `RunResume`: the run ends, a connected stream moves, the reader comes back;
  connections are lost at most `MaxDisconnects` times.
* `RunHandle`: the reader that is in `Wait` continues, and calls return.
* `BridgeLifecycle`: only the Go side. The Shutdown call has a timeout, the
  process is killed after five seconds, and `Launch` reads what is there. The
  bridge may hang at any point.
* `Rpc`: the client's steps and its timers. The network and the bridge owe nothing.
* `CustomTools`: the goroutine that serves a tool call runs, and a handler ends
  what it began. Getting the mutex is strongly fair, for the call and for a
  handler that calls the SDK: Go's mutex is handed to a waiter that has waited
  for a millisecond. The agent's side owes nothing.
* `AgentRegistry` states no liveness: the SDK's disposals may take forever.

## 4. Proofs

Every safety property of section 3, the refinement of `OrderedRunStream` and the
action property `CurrentAddress` are theorems of the specifications, for every
value of the constants that the named assumptions allow: any queue limits with
`0 < HighWater <= HardLimit`, any sets of ids, handlers, tools, listeners and
calls, any numbers of messages, frames, retries, operations and lost connections.
The assumptions say no more than that a bound is a natural number and a set of
kinds one the program has; `ScenariosAssumption` and `RepliesAssumption` of `Rpc`
say that a scenario calls a method there is and answers with an object
`@cursor/sdk` can give (a status it knows, dates and sizes that are natural
numbers, a chunk length above 0). TLC evaluates each of them.

None of the properties is inductive but a few; each module therefore has an
inductive invariant, `Init => IInv` and one lemma per action, and every one was
checked by TLC before it was proved. What they add to the properties:

* `MergedRunStreamProofs` has five parts. The first says what each queue method
  does to `Sound(q, n)`: the queue is well typed, its events carry the numbers
  after `n`, a list of waiters is only populated while the condition it stands
  for holds. The second is `IInv`, which is `Sound(queue, Len(delivered))`
  with `Control`: a finished producer has closed the queue, a parked consumer is
  on the list or was notified, a generator past its `finally` has a closed
  queue. From it follow `TypeCorrect`, `OffsetsGapFree`, `WakeUpsKept` and
  `ProducerJoined`. The third, `Honest`, says how outcome, producer and queue fit
  together: a queue that was closed without a failure while it is being read
  ends in result and done. The fourth, `OInv`, counts: what was accepted of each
  source is numbered from 1 (`InOrder`), all of it is there while the queue is
  open (`Complete`), and a producer that may go on has room for a message below
  the high-water mark (`Room`), which is the part of `BoundedBuffer` that holds
  although callbacks refill the queue behind `waitForDrain`. It gives
  `SourcesInOrder`, `BufferBounded` and `EndsHonestly`. The fifth is
  `Implements`: initial states by `RefinedInit`, steps by `RefinedNext`, one
  lemma per action.
* `ConnectStreamProofs`: `Ordered` says that what is pending comes behind what was
  returned and that both are the messages parsed so far, `Clean` that nothing
  is behind an end frame and that a reader who saw messages only has met no
  failure. From the former `MessagesInOrder`, from both `HonestEOF`.
* `RunResumeProofs`: `Sent` and `Resumed` say what the offset of each kind of
  stream counts, `Token` that the reader's token is never behind an item it has.
  Without deltas, or before the first lost connection, the two ways of
  counting are one.
* `RunHandleProofs`: a loop body runs only on an empty buffer (`Buffered`), only
  a snapshot's result can be that of a run that goes on (`Follows`), and an
  unsubscribe function knows its listener's place until the first one was
  called (`Listening`).
* `AgentRegistryProofs` has two invariants. `CloudFlags` speaks of the maps
  alone, and a handler changes them with what it read before an await. `IInv`
  adds `Carries`: the agent a handler holds was made, and the mark it holds is
  the one that agent was made with, so the mark `send` read first is right for
  the new id although the old one may have gone to another agent meanwhile.
  `Ownership`, for the other three properties, says whose each agent is: two
  calls that share an agent or an id send to the same agent or have raced
  (`Apart`), the ids a call is to change lead to its own agents or to a raced
  one (`Claimed`), what a call read before its await still holds for an agent
  nobody raced on (`Steady`), an agent that was not disposed of can be found or is
  about to be registered (`Owned`), and a run is under an id its agent has
  (`RunOf`).
* `BridgeLifecycleProofs`: `Closing` follows the two closes side by side. Either
  waits for the server's calls to end before it disposes, the second one with an
  error since the server is closing already (`server.ts:112`), so the list of either
  covers every agent that was ever made; therefore an exit, clean or not, comes
  only when none is left.
* `RpcProofs`: the bridge goes on with an attempt that the client has given
  up, so an outcome has to be related to all attempts. `IInv` says which
  attempts may have reached the SDK (`Performed`), that one is only sent while
  `Attempts` allows it (`Counted`), that an error answer has a refusal or the
  scenario's fault behind it (`Answered`) and so has an outcome (`Settled`).
  `AtMostOnce` and `Truthful` follow. The others need the operators too, by
  lemmas about the tables for every name and code an error can have
  (`ErrorClassKept`, `TypeCorrect`), about the gates and targets of every call
  (`CloudNeedsKey`, `RoutedRight`), and about every object (`ResultsArrive`, for
  which `ChunksAreWhole` shows that the chunks of a buffer of any length, cut
  to any size, join without a gap).
* `CustomToolsProofs`: `Agents` and `CallAgrees` say that the tools the bridge has
  for an undisturbed agent are those registered, and that a call on its way
  will find its handler there; `Fresh` and `OwnAgents` that the creations
  sharing the key `pending` do not share an agent, and that one with an id of its
  own shares it only if the agent is disturbed. `PendingAgrees` gives
  `NoPending`. `CurrentAddress` needs one more invariant, `Cached`: the client
  the bridge keeps is for the address it has, or there is none.

Some definitions are written so that they can be reasoned about. `ParseFrom` of
`ConnectStream` says of the last whole frame what it is rather than how a loop
finds it; `MessagesInOrder` speaks of sets of positions, and `AnswerKept` of
chunks as parts of a buffer that lie side by side, where a filtered sequence or
a sum of lengths would be a recursion over data.

Only model-checked: liveness (`Terminates`, `NextReturns`, `LearnsResult`,
`WaitAnswers`, `Returns`, `CallReturns`, `CallsAnswered`), as the prover knows
neither fairness nor `ENABLED`. The runs that find a disagreement have nothing
to prove.

## 5. Assumptions and omissions

* `run.stream()` gives the run's messages from the first one to each caller and
  its `return()` resolves once a pending `next()` has; that is how the code uses
  it. The SDK may change an agent's id only while sending to it.
* `send` has no `afterOffset`, so its filter passes everything.
* Frames are two units long; frame lengths and their `uint32` arithmetic are not modelled.
* One goroutine reads a handle. Unlocked reads of its strings are whole reads.
  An unsubscribe function is called once. Listeners do not call the handle.
* The status "expired" is like the other terminal ones for the handle; on its way
  up (`Answers`) it arrives as "error".
* In `BridgeLifecycle` the Shutdown call arrives in time or not at all, and stderr ends
  with the process. In `AgentRegistry` the registry is disposed of after the
  last call; the close that does not wait is in `BridgeLifecycle`.
* In `Rpc` every attempt may time out at any moment: durations are not compared,
  so that the HTTP client's own timeout also ends streams and `WaitLiveRun` is
  known but not stated. A failed stream is one answer here; its frames are in
  `ConnectStream`. What the SDK does with its arguments is its own affair.
* In `CustomTools` only agents with tools appear (a creation or resume without tools
  registers nothing), no caller asks for the id "pending", an agent's tools are those of
  its last create or resume, and a handler that calls the SDK calls `Close` for
  its own agent, the call that takes the mutex its look-up had.

### Not modelled

* Fields that converters only copy, texts, headers, argument parsing.
* The cached default client (`default.go`): a lock around `LaunchBridge` and
  `Close`. That it keeps a client which its caller closed needs no interleaving.
* Installation and versions: file look-ups and npm; `semverAtLeast` is a short
  function without state that its tests cover.
* `WithOptions` of the client, which ignores the timeouts it is given since the
  transport is shared: one assignment, no state.
* The terminal UI example, which is a user of the client.

## 6. Plan

Modelled, in this order because the stream carries everything a user sees:
merged stream with its proofs and refinement, stream reader, resumption, run
handle, registry, bridge process, RPC path, custom tools. What could follow:

1. Composition: `MergedRunStream`, `ConnectStream` and `RunHandle` end to end,
   with the abstract stream between them; `AgentRegistry` inside
   `BridgeLifecycle`.
2. Several tool calls at once in `CustomTools`, and a disposal that fails in a
   creation over a live agent.

Every safety property that a run checks is proved. What could be proved next:

1. That the modules fit where they meet: the log of `OrderedRunStream` read
   through `ConnectStream` is what `RunHandle` assumes of its reader, and the
   offsets of `MergedRunStream` are those `RunResume` counts.
2. Abstract specifications of other components with their refinement: a map
   from ids to agents that `AgentRegistry` implements as long as nothing is
   raced on, a call that happens at most once for `Rpc`.
3. Action properties of the handle and the registry: a terminal status never
   changes, a token never goes back.
