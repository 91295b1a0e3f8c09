----------------------------- MODULE ErrorCodes -----------------------------
(***************************************************************************)
(* A failure on its way up: an error of @cursor/sdk or of the bridge       *)
(* becomes a Connect error with details (sdk-error-interceptor.ts), an     *)
(* HTTP status and a JSON body (the Connect library), an Error of          *)
(* internal/connect (errors.go) and a typed error of the Go SDK            *)
(* (cursor/errors.go).  An SDK error is [name, code]: its class, and its   *)
(* code or "" when it has none.  A detail of the JSON body is              *)
(* {type, value, debug}: the fields of SdkErrorDetails stand in debug.     *)
(***************************************************************************)
EXTENDS Naturals

(* Which entry of a table of sets holds x *)
Known(table, x) == \E k \in DOMAIN table : x \in table[k]
Entry(table, x) == CHOOSE k \in DOMAIN table : x \in table[k]

(* SDK_ERROR_CODE_TO_CONNECT_CODE *)
CodeToConnect ==
  [invalid_argument    |-> {"invalid_model"},
   unauthenticated     |-> {"unauthenticated"},
   permission_denied   |-> {"permission_denied"},
   not_found           |-> {"not_found", "agent_not_found", "run_not_found",
                            "unknown_agent", "unknown_run"},
   resource_exhausted  |-> {"rate_limited", "stream_buffer_overflow"},
   failed_precondition |-> {"integration_not_connected", "repository_access", "agent_busy"}]

(* SDK_ERROR_NAME_TO_CONNECT_CODE *)
NameToConnect ==
  [unauthenticated     |-> {"AuthenticationError"},
   invalid_argument    |-> {"ConfigurationError"},
   failed_precondition |-> {"AgentBusyError"},
   resource_exhausted  |-> {"RateLimitError"},
   not_found           |-> {"AgentNotFoundError"}]

(* Mutation of CodeToProto: no case for runs that are not found. *)
CodeToProtoNoRuns ==
  [unauthorized        |-> {"unauthenticated"},
   invalid_model       |-> {"invalid_model"},
   role_forbidden      |-> {"permission_denied"},
   agent_not_found     |-> {"agent_not_found", "unknown_agent"},
   rate_limit_exceeded |-> {"rate_limited"},
   repository_access   |-> {"integration_not_connected", "repository_access"},
   agent_busy          |-> {"agent_busy"}]

(* sdkErrorCodeFromString; the enum values as Go normalises their names.   *)
CodeToProto ==
  [unauthorized        |-> {"unauthenticated"},
   invalid_model       |-> {"invalid_model"},
   role_forbidden      |-> {"permission_denied"},
   agent_not_found     |-> {"agent_not_found", "unknown_agent"},
   run_not_found       |-> {"run_not_found", "unknown_run"},
   rate_limit_exceeded |-> {"rate_limited"},
   repository_access   |-> {"integration_not_connected", "repository_access"},
   agent_busy          |-> {"agent_busy"}]

(* The JSON of a detail leaves out an enum that is UNSPECIFIED. *)
ProtoOf(code) == IF Known(CodeToProto, code) THEN Entry(CodeToProto, code) ELSE ""

(* A failed answer: its Connect code, and the sdkErrorCode of its detail *)
Failure(code, proto) == [code |-> code, proto |-> proto]

(* Mutation of Translate: a code the table lacks is sent as it is. *)
TranslateAsIs(e) ==
  IF Known(CodeToConnect, e.code)
  THEN Failure(Entry(CodeToConnect, e.code), ProtoOf(e.code))
  ELSE Failure(e.code, "")

(* maybeTranslateSdkError.  What it does not know passes through, and the  *)
(* handler of the Connect library answers "internal" for it.               *)
Translate(e) ==
  CASE Known(CodeToConnect, e.code) -> Failure(Entry(CodeToConnect, e.code), ProtoOf(e.code))
    [] ~Known(CodeToConnect, e.code) /\ Known(NameToConnect, e.name) ->
         Failure(Entry(NameToConnect, e.name), ProtoOf(e.code))
    [] OTHER -> Failure("internal", "")

(* The HTTP status of a unary failure *)
StatusOf ==
  [invalid_argument |-> 400, failed_precondition |-> 400, unauthenticated |-> 401,
   permission_denied |-> 403, not_found |-> 404, resource_exhausted |-> 429,
   internal |-> 500, unimplemented |-> 501]

(* isRetryableStatus *)
RetryableStatus(status) == status \in {408, 429} \/ status >= 500

(* typedError's switch on the normalised code *)
CodeToGo ==
  [authentication    |-> {"unauthorized", "unauthenticated", "api_key_not_found"},
   permission_denied |-> {"role_forbidden", "permission_denied", "forbidden"},
   rate_limit        |-> {"rate_limit_exceeded", "usage_limit_exceeded",
                          "resource_exhausted", "rate_limited"},
   bad_request       |-> {"invalid_argument", "validation_error", "bad_request"},
   configuration     |-> {"invalid_model", "invalid_branch_name", "not_found"},
   agent_busy        |-> {"agent_busy"},
   agent_not_found   |-> {"agent_not_found"},
   not_found         |-> {"run_not_found"},
   internal          |-> {"upstream_error", "internal_error", "internal",
                          "internal_server_error"}]

(* errorFromConnectPayload: the detail's code comes before the Connect     *)
(* code, and integration errors keep the Connect code.                     *)
GoCode(f) ==
  LET n == IF f.proto # "" THEN f.proto ELSE f.code
  IN  CASE n \in {"integration_not_connected", "repository_access", "pr_resolution_failed"} -> f.code
        [] Known(CodeToGo, n) -> Entry(CodeToGo, n)
        [] OTHER -> f.code

(* typedFromAgentError.  integrationDetails looks for a provider at the    *)
(* top of a detail, where the bridge's JSON has none.                      *)
GoClass(code) ==
  CASE code = "authentication" -> "AuthenticationError"
    [] code = "permission_denied" -> "PermissionDeniedError"
    [] code = "rate_limit" -> "RateLimitError"
    [] code = "agent_busy" -> "AgentBusyError"
    [] code = "agent_not_found" -> "AgentNotFoundError"
    [] code = "not_found" -> "NotFoundError"
    [] code = "bad_request" -> "BadRequestError"
    [] code = "configuration" -> "ConfigurationError"
    [] code = "timeout" -> "APITimeoutError"
    [] code = "internal" -> "InternalServerError"
    [] code = "network" -> "NetworkError"
    [] OTHER -> "UnknownAgentError"
=============================================================================
