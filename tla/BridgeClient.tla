----------------------------- MODULE BridgeClient -----------------------------
(***************************************************************************)
(* How a call from the worker to the bridge can fail: the errors           *)
(* bridge-client.ts derives from a reply or from the lack of one, and      *)
(* which of them may be retried or prove that nothing was created          *)
(* (errors.ts, task-processor.ts).                                         *)
(*                                                                         *)
(* A reply has the fields the classification looks at: the HTTP status,    *)
(* and operation, code and audited Provider status (0: none) of its body.  *)
(***************************************************************************)
EXTENDS Naturals

Operations == {"CREATE", "RECOVER", "GET", "DOWNLOAD"}

\* What a client method passes to request().
Retry(op) == IF op = "CREATE" THEN "MANUAL_RECONCILIATION" ELSE "SAFE_READ"

\* The Provider...Error classes.
ProviderErrors ==
  {"Authentication", "CreateNotSent", "DownloadValidation", "OutcomeUnknown",
   "OutputExpired", "Protocol", "RateLimit", "Request", "Transient",
   "Unsupported", "Validation"}

\* throwResponseError for a 5xx of a create.
CreateError(r) ==
  IF r.code = "PROVIDER_CREATE_NOT_SENT" THEN "CreateNotSent"
  ELSE IF r.code = "PROVIDER_CREATE_HTTP_ERROR" /\ r.http \in 1..499 THEN "Request"
  ELSE "OutcomeUnknown"

\* throwResponseError.  A body outside the contract, or for another operation,
\* comes first.
ErrorOf(op, r) ==
  IF r.operation # op THEN "Protocol"
  ELSE IF r.status = 501 \/ r.code = "OPERATION_UNSUPPORTED" THEN "Unsupported"
  ELSE IF r.status \in {401, 403} THEN "Authentication"
  ELSE IF r.status = 429 THEN "RateLimit"
  ELSE IF op = "DOWNLOAD" /\ r.status = 410 THEN "OutputExpired"
  ELSE IF r.status < 500 THEN "Request"
  ELSE IF op = "CREATE" THEN CreateError(r)
  ELSE "Transient"

\* Mutant: a failed fetch never reached the bridge.
NoReplyNotSent(op, connected) ==
  IF op # "CREATE" THEN "Transient" ELSE "CreateNotSent"

\* request(), when fetch throws: no connection, a timeout or a broken one.
NoReply(op, connected) ==
  IF op # "CREATE" THEN "Transient"
  ELSE IF connected THEN "OutcomeUnknown" ELSE "CreateNotSent"

\* ProviderOperationError.retryable.
Retryable(op, error) ==
  \/ error = "Transient"
  \/ error = "RateLimit" /\ Retry(op) \in {"SAFE_READ", "IDEMPOTENT_ONLY"}

\* isConfirmedNotCreatedError.
ConfirmedNotCreated(error) ==
  error \in {"Authentication", "CreateNotSent", "RateLimit", "Request",
             "Unsupported", "Validation"}

-----------------------------------------------------------------------------
(* The error replies of app.py, apart from those to a create that was sent. *)

Body(status, operation, code) ==
  [status |-> status, operation |-> operation, code |-> code, http |-> 0]

\* Authorization comes first and answers for HEALTH; a proxy's reply is
\* outside the contract.
AnyOperation == {Body(401, "HEALTH", "UNAUTHORIZED"), Body(502, "none", "none")}

CreateRefusals == AnyOperation \cup
  {Body(403, "CREATE", "REAL_API_TEST_DISABLED"), Body(400, "CREATE", "INVALID_REQUEST")}

QueryReplies == AnyOperation \cup
  {Body(400, "GET", "INVALID_TASK_ID"), Body(502, "GET", "PROVIDER_PROTOCOL_ERROR"),
   Body(502, "GET", "PROVIDER_OUTPUT_MISSING"), Body(503, "GET", "PROVIDER_TRANSIENT_ERROR")}

DownloadReplies == AnyOperation \cup
  {Body(400, "DOWNLOAD", "INVALID_TASK_ID"), Body(413, "DOWNLOAD", "PROVIDER_OUTPUT_INVALID"),
   Body(502, "DOWNLOAD", "PROVIDER_OUTPUT_INVALID"),
   Body(503, "DOWNLOAD", "PROVIDER_TRANSIENT_ERROR")}

\* Before anything is sent createTask checks its input, and encodeIdentifier
\* the identifier; afterwards a good reply may not fit the contract.
CreateNotSentErrors ==
  {ErrorOf("CREATE", r) : r \in CreateRefusals} \cup
  {NoReply("CREATE", FALSE), "Validation", "Protocol"}

QueryErrors ==
  {ErrorOf("GET", r) : r \in QueryReplies} \cup
  {NoReply("GET", c) : c \in BOOLEAN} \cup {"Protocol"}

DownloadErrors ==
  {ErrorOf("DOWNLOAD", r) : r \in DownloadReplies} \cup
  {NoReply("DOWNLOAD", c) : c \in BOOLEAN} \cup {"Protocol", "DownloadValidation"}
=============================================================================
