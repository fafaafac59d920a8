---------------------------- MODULE CreateOutcome ----------------------------
(***************************************************************************)
(* What the bridge makes of one create request to the Provider: how        *)
(* create_task of sdk_runtime.py classifies what the SDK ran into, and the *)
(* reply app.py builds from the classification.                            *)
(*                                                                         *)
(* One request at a time: BridgeRuntime says what happens to the           *)
(* classification when requests overlap.                                   *)
(***************************************************************************)
EXTENDS Naturals

CONSTANT HttpStatuses    \* the statuses the Provider answers with

ASSUME CreateOutcomeAssumption == HttpStatuses \subseteq 100..599

NoHttp == 0

\* The stage _exception_diagnostic derives from the exceptions of the chain;
\* "ANSWERED" when `send` returned.
Stages == {"CONNECT", "WRITE_REQUEST", "READ_RESPONSE", "PARSE_RESPONSE", "UNKNOWN"}

\* What `send` met, and how the SDK then left the call: an exception or an
\* answer does not oblige it to raise, or to return an identifier.  One `send`
\* for each create is all the SDK is known to do.
SdkOutcome ==
  [stage: Stages, http: {NoHttp}, result: {"id", "none", "raised"}] \cup
  [stage: {"ANSWERED"}, http: HttpStatuses, result: {"id", "none", "raised"}]

\* The Provider: a request that reached it and was not turned down may have made
\* a task.  A status other than 200 and below 500 turns it down.
TurnedDown(o) == o.http \in 1..499 \ {200}
MayCreate(o) == o.stage # "CONNECT" /\ ~TurnedDown(o)

\* request_body_sent of the diagnostic.
BodySent(o) == CASE o.stage = "CONNECT" -> "no"
                 [] o.stage \in {"WRITE_REQUEST", "UNKNOWN"} -> "unknown"
                 [] OTHER -> "yes"

\* Mutant: an answer of 500 and above is a rejection too.
CreateCodeAnyStatus(o) ==
  IF o.result = "raised" /\ BodySent(o) = "no" THEN "PROVIDER_CREATE_NOT_SENT"
  ELSE IF o.http \notin {NoHttp, 200} THEN "PROVIDER_CREATE_HTTP_ERROR"
  ELSE IF o.http = 200 THEN IF o.result = "id" THEN "created"
                            ELSE "PROVIDER_CREATE_RESPONSE_MISSING_ID"
  ELSE "PROVIDER_CREATE_OUTCOME_UNKNOWN"

\* create_task and _raise_create_error: the code of what is raised.  An exception
\* of `send` that the SDK swallowed leaves the outcome unknown.
CreateCode(o) ==
  IF o.result = "raised" /\ BodySent(o) = "no" THEN "PROVIDER_CREATE_NOT_SENT"
  ELSE IF o.http \in 1..499 \ {200} THEN "PROVIDER_CREATE_HTTP_ERROR"
  ELSE IF o.http = 200 THEN IF o.result = "id" THEN "created"
                            ELSE "PROVIDER_CREATE_RESPONSE_MISSING_ID"
  ELSE "PROVIDER_CREATE_OUTCOME_UNKNOWN"

\* The except clauses of the create handler.
NotCreatedCodes == {"PROVIDER_CREATE_NOT_SENT", "PROVIDER_CREATE_HTTP_ERROR"}
UnknownCodes == {"PROVIDER_CREATE_RESPONSE_MISSING_ID", "PROVIDER_CREATE_OUTCOME_UNKNOWN"}

\* _error: the fields of a reply that the client looks at.
ErrorReply(status, operation, code, http) ==
  [status |-> status, operation |-> operation, code |-> code, http |-> http]

FailureReply(o) == ErrorReply(502, "CREATE", CreateCode(o), o.http)

\* The bodies behind the verdicts of Bridge.
CreateReplies(verdict) ==
  CASE verdict = "notCreated" ->
         {FailureReply(o) : o \in {q \in SdkOutcome : CreateCode(q) \in NotCreatedCodes}}
    [] verdict = "unknown" ->
         {FailureReply(o) : o \in {q \in SdkOutcome : CreateCode(q) \in UnknownCodes}}
    [] verdict = "conflict" ->
         {ErrorReply(409, "CREATE", "PROVIDER_OUTCOME_UNKNOWN", NoHttp)}
=============================================================================
