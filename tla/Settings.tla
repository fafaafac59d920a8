------------------------------ MODULE Settings -------------------------------
(***************************************************************************)
(* The environment the processes accept at their start and what they make  *)
(* of it: config/src/index.ts, the wiring of worker/src/index.ts and       *)
(* api/src/index.ts, and the arithmetic of delays and leases in the        *)
(* processors.  Times are milliseconds; 0 stands for a variable that is    *)
(* not set (a set one is positive); the jitter ratio is in thousandths.    *)
(* There is no state: the operators give the constants of the other        *)
(* modules their values, and Assets_proofs says what holds of them.      *)
(***************************************************************************)
EXTENDS Naturals

HmacFields == {"SIGNING_KEY", "PUBLIC_BASE_URL", "URL_TTL_MS"}
EosFields == {"ENDPOINT", "REGION", "BUCKET", "ACCESS_KEY_ID", "SECRET_ACCESS_KEY"}

\* Seven days, what S3 signs at most.
MaxPresignTtl == 604800

\* One environment, as the field schemas take it; `hmac` and `eos` are the
\* variables of the two publishers that are set.
Environment ==
  [provider: {"mock", "seedance"}, modelId: BOOLEAN, bridge: BOOLEAN,
   publisher: {"hmac", "eos"}, hmac: SUBSET HmacFields, eos: SUBSET EosFields,
   urlTtl: Nat, presignTtl: 1..MaxPresignTtl,
   requestTimeout: Nat, pollInterval: Nat, maxPollInterval: Nat,
   maxPollDuration: Nat, downloadTimeout: Nat,
   retryInterval: Nat \ {0}, maxRetryInterval: Nat \ {0},
   jitter: 0..500, maxAttempts: 1..20, batch: 1..1000, heartbeatTtl: Nat \ (0..4)]

\* requireSeedanceDefinition.
HasDefinition(e) == e.provider = "seedance" => e.modelId

\* requireCompleteAssetPublishingConfig: all of the hmac variables or none.
CompletePublishing(e) ==
  /\ "URL_TTL_MS" \in e.hmac <=> e.urlTtl > 0
  /\ e.publisher = "eos" \/ e.hmac \in {{}, HmacFields}

AcceptedByApi(e) == HasDefinition(e) /\ CompletePublishing(e)

AcceptedByWorker(e) ==
  /\ HasDefinition(e) /\ CompletePublishing(e)
  /\ e.provider = "seedance" /\ e.publisher = "eos" => e.eos = EosFields
  /\ e.pollInterval > 0 /\ e.maxPollInterval > 0 => e.pollInterval <= e.maxPollInterval
  /\ e.retryInterval <= e.maxRetryInterval
  /\ e.provider = "seedance" =>
       /\ e.requestTimeout > 0 /\ e.pollInterval > 0 /\ e.maxPollInterval > 0
       /\ e.maxPollDuration > 0 /\ e.downloadTimeout > 0 /\ e.bridge

-----------------------------------------------------------------------------
(* Which publisher a process builds, and whether the API takes references. *)

HasHmac(e) == e.publisher # "eos" /\ e.hmac = HmacFields
HasEos(e) == e.publisher = "eos" /\ e.eos = EosFields

WorkerPublisher(e) == IF e.provider # "seedance" THEN "none"
                      ELSE IF HasEos(e) THEN "eos"
                      ELSE IF HasHmac(e) THEN "hmac" ELSE "none"

\* The console of a mock Provider takes references without publishing them.
ApiTakesReferences(e) ==
  e.provider = "seedance" => e.publisher = "eos" \/ HasHmac(e)

-----------------------------------------------------------------------------
(* The worker's policy. *)

OrDefault(value, default) == IF value = 0 THEN default ELSE value

BaseInterval(e) == OrDefault(e.pollInterval, 1500)
MaxInterval(e) == OrDefault(e.maxPollInterval, 30000)
PollDuration(e) == OrDefault(e.maxPollDuration, 600000)
RequestTimeout(e) == OrDefault(e.requestTimeout, 30000)
DownloadTimeout(e) == OrDefault(e.downloadTimeout, 60000)

\* assetUrlMinimumTtlMs.
MinimumTtl(e) == RequestTimeout(e) + 60000

\* How often the heartbeat is written, and how long one lasts.
HeartbeatEvery(e) == (e.heartbeatTtl * 1000) \div 3
HeartbeatLasts(e) == e.heartbeatTtl * 1000

-----------------------------------------------------------------------------
(* Delays. *)

Smaller(a, b) == IF a <= b THEN a ELSE b
Larger(a, b) == IF a >= b THEN a ELSE b

\* Math.round(delay * thousandths / 1000), at least 1.
Scaled(delay, thousandths) == Larger(1, (2 * delay * thousandths + 1000) \div 2000)

\* jitteredDelay: the factor is drawn between 1 - jitter and 1 + jitter.
JitteredDelays(delay, jitter) ==
  Scaled(delay, 1000 - jitter) .. Scaled(delay, 1000 + jitter)

\* The exponential delay before it is jittered.
CappedDelay(base, max, factor) == Smaller(max, base * factor)

\* handlePollError and handleDownloadError: the Provider's retry-after is a
\* lower bound.
ErrorDelays(base, max, factor, jitter, retryAfter) ==
  {Larger(d, retryAfter) : d \in JitteredDelays(CappedDelay(base, max, factor), jitter)}

\* The factor after so many errors in a row: polling begins with 2, downloads
\* with 1.
PollFactor(errors) == 2 ^ Smaller(errors, 30)
DownloadFactor(errors) == 2 ^ Smaller(errors - 1, 30)

\* All delays of polling under one environment: after a snapshot, and after an
\* error, for the factors and the retry-after values that occur.
PollDelays(e, factors, retryAfters) ==
  JitteredDelays(BaseInterval(e), e.jitter) \cup
  UNION {ErrorDelays(BaseInterval(e), MaxInterval(e), factor, e.jitter, after) :
           factor \in factors, after \in retryAfters}

-----------------------------------------------------------------------------
(* Leases. *)

PollLease(e) == RequestTimeout(e) + 1000
\* What a download's lease leaves for everything but its timed calls.
DownloadSlack == 5000
DownloadLease(e) == DownloadTimeout(e) * 3 + DownloadSlack

\* What a download run finds under the key of its output, and what is there
\* after a recorded file was inspected: one that does not match the record is
\* deleted, when the deletion works and the lease is still held.
FileStates == {"missing", "invalid", "valid", "matching"}
AfterRecord(recorded, file, deletes) ==
  IF recorded /\ file # "matching" /\ deletes THEN "missing" ELSE file

\* The calls of one run that are each cut off after DownloadTimeout: the
\* inspections of the recorded and of the existing file, asking for the stream
\* and storing it.
Recovered(recorded, file) == recorded /\ file = "matching"
FirstInspection(recorded, file) == IF recorded /\ file # "missing" THEN 1 ELSE 0
SecondInspection(file) == IF file # "missing" THEN 1 ELSE 0
Transfers(file) == IF file \in {"missing", "invalid"} THEN 2 ELSE 0
TimedCalls(recorded, file, deletes) ==
  FirstInspection(recorded, file) +
  IF Recovered(recorded, file) THEN 0
  ELSE SecondInspection(AfterRecord(recorded, file, deletes)) +
       Transfers(AfterRecord(recorded, file, deletes))
=============================================================================
