------------------------------ MODULE MCPolling ------------------------------
(***************************************************************************)
(* Instances of Polling for TLC.  One Provider task id (the row never      *)
(* changes it), two interchangeable slots.  The delays are those of an     *)
(* environment whose base interval is one clock unit: after a snapshot,    *)
(* and after one or two errors in a row.                                   *)
(***************************************************************************)
EXTENDS Polling, TLC

CONSTANTS w1, w2, id1

S == INSTANCE Settings

ScaledEnvironment ==
  [provider |-> "seedance", modelId |-> TRUE, bridge |-> TRUE, publisher |-> "eos",
   hmac |-> {}, eos |-> S!EosFields, urlTtl |-> 0, presignTtl |-> 3600,
   requestTimeout |-> 1, pollInterval |-> 1, maxPollInterval |-> 2,
   maxPollDuration |-> MaxDuration, downloadTimeout |-> 1, retryInterval |-> 1,
   maxRetryInterval |-> 2, jitter |-> 100, maxAttempts |-> 5, batch |-> 100,
   heartbeatTtl |-> 15]

ScaledDelays ==
  S!PollDelays(ScaledEnvironment, {S!PollFactor(n) : n \in {1, 2}}, {0})

ASSUME S!AcceptedByWorker(ScaledEnvironment)

SlotSymmetry == Permutations({w1, w2})
=============================================================================
