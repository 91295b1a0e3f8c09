------------------------------ MODULE Answers ------------------------------
(***************************************************************************)
(* A result on its way up: the bridge turns objects of @cursor/sdk into    *)
(* protobuf messages (sdk-converters.ts), the Connect library writes them  *)
(* as proto3 JSON, and the Go client reads the JSON (cursor/types.go,      *)
(* wire.go, messages.go).  proto3 JSON leaves out what has its default     *)
(* value, here Absent, and writes a 64-bit integer as a string.  Text and  *)
(* the fields that are only copied are left out.                           *)
(***************************************************************************)
EXTENDS Integers

Absent == [json |-> "absent", value |-> 0]

(* numberToProtoUint64 of a whole number, and its JSON *)
Uint64(n) == IF n <= 0 THEN Absent ELSE [json |-> "string", value |-> n]

(* timestampFromMillis *)
Stamp(ms) == IF ms <= 0 THEN Absent ELSE [json |-> "string", value |-> ms]

(* intField reads JSON numbers, stringField strings. *)
IntField(v) == IF v.json = "number" THEN v.value ELSE 0
StringField(v) == IF v.json = "string" THEN v.value ELSE 0

(* sdkRunStatusToProto; "" is UNSPECIFIED.  normalizeRunStatus *)
ProtoRunStatus(s) == IF s \in {"running", "finished", "error", "cancelled"} THEN s ELSE ""
GoRunStatus(s) ==
  CASE s \in {"running", "finished", "error", "cancelled", "expired"} -> s
    [] s = "creating" -> "running"
    [] OTHER -> "error"

(* sdkAgentInfoStatusToProto, normalizeAgentStatus *)
ProtoAgentStatus(s) == IF s \in {"running", "finished", "error"} THEN s ELSE ""
GoAgentStatus(s) == IF s \in {"running", "finished", "error"} THEN s ELSE ""

(* sdkRunToSnapshot and sdkRunResultToProto, then parseRunResult *)
RunToProto(r) == [status |-> ProtoRunStatus(r.status), duration |-> Uint64(r.duration),
                  created |-> Stamp(r.created)]
ParseRun(m) == [status |-> GoRunStatus(m.status), duration |-> IntField(m.duration),
                created |-> StringField(m.created)]

(* sdkAgentInfoToProto, parseSDKAgentInfo: the variant says the runtime. *)
AgentInfoToProto(a) ==
  [status |-> ProtoAgentStatus(a.status), created |-> Stamp(a.created),
   local |-> a.runtime = "local", cloud |-> a.runtime = "cloud",
   cwd |-> IF a.runtime = "local" THEN a.cwd ELSE ""]
ParseAgentInfo(m) ==
  [status |-> GoAgentStatus(m.status), created |-> StringField(m.created),
   runtime |-> IF m.local THEN "local" ELSE IF m.cloud THEN "cloud" ELSE "",
   cwd |-> m.cwd]

(* sdkArtifactsToProto, Agent.ListArtifacts *)
ArtifactToProto(a) == [size |-> Uint64(a.size)]
ParseArtifact(m) == [size |-> IntField(m.size)]

(* A part of a buffer: from the byte at offset from, and up to to *)
Part(from, to) == [from |-> from, to |-> to]

(* Mutation of Chunks: only whole chunks. *)
ChunksWhole(length, chunk) ==
  [i \in 1 .. length \div chunk |-> Part((i - 1) * chunk, i * chunk)]

(* sdkArtifactBufferToChunks, with what subarray does beyond the end *)
Chunks(length, chunk) ==
  [i \in 1 .. (length + chunk - 1) \div chunk |->
     Part((i - 1) * chunk, IF i * chunk <= length THEN i * chunk ELSE length)]

(* A stream event: part is the field of the envelope, type the payload's   *)
(* own type ("" when it has none); plain says that the payload encodes as  *)
(* JSON.  valueToStruct gives {} for one that does not.                    *)
EventToProto(e) ==
  [part |-> e.part, outer |-> IF e.type = "" THEN "unknown" ELSE e.type,
   inner |-> IF e.plain THEN e.type ELSE ""]

(* ParseRunStreamEvent: SDKMessageFromJSON and ParseInteractionUpdate fall *)
(* back on the envelope's type, ParseConversationStep does not.            *)
ParseEvent(m) ==
  [part |-> m.part, type |-> IF m.inner = "" /\ m.part # "step" THEN m.outer ELSE m.inner]
=============================================================================
