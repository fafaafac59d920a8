------------------------------ MODULE TaskStore ------------------------------
(***************************************************************************)
(* The VideoTask row and the conditional updates PrismaTaskStore makes on  *)
(* it (apps/worker/src/task-store.ts), together with the two writers that  *)
(* live elsewhere: the cancel route of the API and the reconciliation      *)
(* script.  Every `updateMany({ where, data })` is a pair of operators:    *)
(* XWhere, the predicate the database evaluates atomically with the write, *)
(* and X, the row the write leaves.  Modules with variables combine the    *)
(* two; a write whose predicate is false changes no row (count = 0).       *)
(*                                                                         *)
(* Columns no decision reads are left out (error texts, audit data,        *)
(* counters that only feed a delay).  A timestamp is a natural number and  *)
(* the SQL NULL of a timestamp column is Never = 0: "NULL or <= now" is    *)
(* then `t <= now`, "<= now" is `Due(t, now)`.                             *)
(***************************************************************************)
EXTENDS Naturals

CONSTANTS ProviderTaskIds,   \* identifiers the Provider may hand out
          NoId               \* the NULL of a providerTaskId column

ASSUME NoIdAssumption == NoId \notin ProviderTaskIds

Never == 0
Due(t, now) == t # Never /\ t <= now

ProviderIdOrNull == ProviderTaskIds \cup {NoId}

\* A task that leaves DRAFT is created QUEUED; the code never stores DRAFT.
TaskStatus == {"QUEUED", "SUBMITTING", "RECONCILIATION_REQUIRED", "PROCESSING",
               "SUCCEEDED", "FAILED", "CANCELLED", "EXPIRED"}
FinalStatus == {"SUCCEEDED", "FAILED", "CANCELLED", "EXPIRED"}
CancellableStatus == {"QUEUED", "SUBMITTING", "PROCESSING"}
ReconcilableStatus == {"RECONCILIATION_REQUIRED", "SUBMITTING"}

TaskRow == [status: TaskStatus, providerTaskId: ProviderIdOrNull,
            nextPollAt: Nat, pollDeadlineAt: Nat, pollLeaseUntil: Nat,
            pollVersion: Nat,
            downloadPending: BOOLEAN, nextDownloadAt: Nat,
            downloadDeadlineAt: Nat, downloadLeaseUntil: Nat,
            downloadVersion: Nat, downloadAttempt: Nat,
            cleanupReady: BOOLEAN]

\* The row POST /api/tasks creates.
QueuedRow == [status |-> "QUEUED", providerTaskId |-> NoId,
              nextPollAt |-> Never, pollDeadlineAt |-> Never,
              pollLeaseUntil |-> Never, pollVersion |-> 0,
              downloadPending |-> FALSE, nextDownloadAt |-> Never,
              downloadDeadlineAt |-> Never, downloadLeaseUntil |-> Never,
              downloadVersion |-> 0, downloadAttempt |-> 0,
              cleanupReady |-> FALSE]

-----------------------------------------------------------------------------
(* Submission. *)

\* Mutant: a task a worker has taken may be taken again.
ClaimSubmissionWhereUnbound(row) ==
  row.status \in {"QUEUED", "SUBMITTING"} /\ row.providerTaskId = NoId

ClaimSubmissionWhere(row) == row.status = "QUEUED" /\ row.providerTaskId = NoId
ClaimSubmission(row) == [row EXCEPT !.status = "SUBMITTING"]

\* Mutant: the status is not compared again.
SubmittingWhereUnbound(row) == row.providerTaskId = NoId

\* The predicate acceptSubmission, markSubmissionOutcomeUnknown and
\* markSubmissionFailed share.
SubmittingWhere(row) == row.status = "SUBMITTING" /\ row.providerTaskId = NoId

\* Mutant: the poll deadline is never written.
AcceptSubmissionNoDeadline(row, id, firstPollAt, deadline) ==
  [row EXCEPT !.status = "PROCESSING", !.providerTaskId = id,
              !.nextPollAt = firstPollAt, !.pollLeaseUntil = Never,
              !.pollVersion = 1, !.downloadPending = FALSE,
              !.cleanupReady = FALSE]

AcceptSubmission(row, id, firstPollAt, deadline) ==
  [row EXCEPT !.status = "PROCESSING", !.providerTaskId = id,
              !.nextPollAt = firstPollAt, !.pollDeadlineAt = deadline,
              !.pollLeaseUntil = Never, !.pollVersion = 1,
              !.downloadPending = FALSE, !.cleanupReady = FALSE]

MarkSubmissionOutcomeUnknown(row) ==
  [row EXCEPT !.status = "RECONCILIATION_REQUIRED", !.cleanupReady = FALSE]

MarkSubmissionFailed(row) ==
  [row EXCEPT !.status = "FAILED", !.cleanupReady = TRUE]

\* The two outcomes an operator may record (reconcile-submission.mts).  The
\* version of a bind was computed from the row read before.
ReconcileWhere(row) ==
  row.status \in ReconcilableStatus /\ row.providerTaskId = NoId

BindSubmission(row, id, version, now, deadline) ==
  [row EXCEPT !.status = "PROCESSING", !.providerTaskId = id,
              !.nextPollAt = now, !.pollDeadlineAt = deadline,
              !.pollVersion = version, !.cleanupReady = FALSE]

ConfirmNotCreated(row) ==
  [row EXCEPT !.status = "FAILED", !.cleanupReady = TRUE]

\* The cancel route: the object stays closed to cleanup.
CancelWhere(row) == row.status \in CancellableStatus
CancelTask(row) == [row EXCEPT !.status = "CANCELLED"]

-----------------------------------------------------------------------------
(* Polling. *)

\* claimPoll: the findUnique and the early return after it ...
PollReadable(row, version, now) ==
  /\ row.status = "PROCESSING"
  /\ row.providerTaskId # NoId
  /\ row.pollVersion = version
  /\ row.pollDeadlineAt # Never
  /\ Due(row.nextPollAt, now)

\* ... and the compare-and-set that takes the lease.
ClaimPollWhere(row, id, version, now) ==
  /\ row.status = "PROCESSING"
  /\ row.providerTaskId = id
  /\ row.pollVersion = version
  /\ Due(row.nextPollAt, now)
  /\ ~row.downloadPending
  /\ row.pollLeaseUntil <= now

ClaimPoll(row, leaseUntil) == [row EXCEPT !.pollLeaseUntil = leaseUntil]

PollClaim == [providerTaskId: ProviderIdOrNull, pollVersion: Nat,
              pollDeadlineAt: Nat, leaseUntil: Nat]
NoPollClaim == [providerTaskId |-> NoId, pollVersion |-> 0,
                pollDeadlineAt |-> Never, leaseUntil |-> Never]

\* Mutant: a result is accepted for as long as the task is being polled.
PollClaimWhereSameTask(row, claim) ==
  row.status = "PROCESSING" /\ row.providerTaskId = claim.providerTaskId

\* Mutant: the status is not compared again when the result is written.
PollClaimWhereAnyStatus(row, claim) ==
  /\ row.pollVersion = claim.pollVersion
  /\ row.pollLeaseUntil = claim.leaseUntil
  /\ ~row.downloadPending

PollClaimWhere(row, claim) ==
  /\ row.status = "PROCESSING"
  /\ row.providerTaskId = claim.providerTaskId
  /\ row.pollVersion = claim.pollVersion
  /\ row.pollLeaseUntil = claim.leaseUntil
  /\ ~row.downloadPending

ScheduleNextPoll(row, nextPollAt) ==
  [row EXCEPT !.pollVersion = @ + 1, !.nextPollAt = nextPollAt,
              !.pollLeaseUntil = Never]

\* Mutant: the download deadline is never written.
MarkDownloadPendingNoDeadline(row, now, downloadDeadline) ==
  [row EXCEPT !.nextPollAt = Never, !.pollLeaseUntil = Never,
              !.downloadPending = TRUE, !.nextDownloadAt = now,
              !.downloadLeaseUntil = Never, !.downloadVersion = 1,
              !.downloadAttempt = 0]

MarkDownloadPending(row, now, downloadDeadline) ==
  [row EXCEPT !.nextPollAt = Never, !.pollLeaseUntil = Never,
              !.downloadPending = TRUE, !.nextDownloadAt = now,
              !.downloadDeadlineAt = downloadDeadline,
              !.downloadLeaseUntil = Never, !.downloadVersion = 1,
              !.downloadAttempt = 0]

\* markProviderFailed and markProviderStopped.
MarkProviderEnded(row, status) ==
  [row EXCEPT !.status = status, !.nextPollAt = Never,
              !.pollLeaseUntil = Never, !.cleanupReady = TRUE]

StopPollingForManualReview(row) ==
  [row EXCEPT !.nextPollAt = Never, !.pollLeaseUntil = Never]

\* Mutant: the local deadline ends the task as if the Provider had expired it.
ExpireLocalPollAsExpired(row) ==
  [row EXCEPT !.status = "EXPIRED", !.nextPollAt = Never,
              !.pollLeaseUntil = Never]

ExpireLocalPoll(row) ==
  [row EXCEPT !.status = "RECONCILIATION_REQUIRED", !.cleanupReady = FALSE,
              !.nextPollAt = Never, !.pollLeaseUntil = Never]

\* Mutant: rows whose slot died holding the lease are not looked for.
RecoverablePollUnleased(row, now) ==
  /\ row.status = "PROCESSING"
  /\ row.providerTaskId # NoId
  /\ ~row.downloadPending
  /\ Due(row.nextPollAt, now)
  /\ row.pollLeaseUntil = Never
  /\ row.pollVersion > 0

\* findRecoverablePolls, for one row.
RecoverablePoll(row, now) ==
  /\ row.status = "PROCESSING"
  /\ row.providerTaskId # NoId
  /\ ~row.downloadPending
  /\ Due(row.nextPollAt, now)
  /\ row.pollLeaseUntil <= now
  /\ row.pollVersion > 0

-----------------------------------------------------------------------------
(* Download. *)

\* claimDownload: the findUnique and the early return after it ...
DownloadReadable(row, id, version, now) ==
  /\ row.status = "PROCESSING"
  /\ row.downloadPending
  /\ row.providerTaskId = id
  /\ row.downloadVersion = version
  /\ row.downloadDeadlineAt # Never
  /\ Due(row.nextDownloadAt, now)

\* Mutant of the compare-and-set below: a running lease does not exclude
\* another claim.
ClaimDownloadWhereAnyLease(row, id, version, now) ==
  /\ row.status = "PROCESSING"
  /\ row.providerTaskId = id
  /\ row.downloadPending
  /\ row.downloadVersion = version
  /\ Due(row.nextDownloadAt, now)

\* ... and the compare-and-set that takes the lease.
ClaimDownloadWhere(row, id, version, now) ==
  /\ row.status = "PROCESSING"
  /\ row.providerTaskId = id
  /\ row.downloadPending
  /\ row.downloadVersion = version
  /\ Due(row.nextDownloadAt, now)
  /\ row.downloadLeaseUntil <= now

ClaimDownload(row, leaseUntil) == [row EXCEPT !.downloadLeaseUntil = leaseUntil]

DownloadClaim == [providerTaskId: ProviderIdOrNull, downloadVersion: Nat,
                  downloadAttempt: Nat, downloadDeadlineAt: Nat, leaseUntil: Nat]
NoDownloadClaim == [providerTaskId |-> NoId, downloadVersion |-> 0,
                    downloadAttempt |-> 0, downloadDeadlineAt |-> Never,
                    leaseUntil |-> Never]

\* Mutant: a result is accepted for as long as the download is pending.
DownloadClaimWhereSameTask(row, claim) ==
  /\ row.status = "PROCESSING"
  /\ row.providerTaskId = claim.providerTaskId
  /\ row.downloadPending

\* Mutant: the status is not compared again when the result is written.
DownloadClaimWhereAnyStatus(row, claim) ==
  /\ row.downloadVersion = claim.downloadVersion
  /\ row.downloadLeaseUntil = claim.leaseUntil

DownloadClaimWhere(row, claim) ==
  /\ row.status = "PROCESSING"
  /\ row.providerTaskId = claim.providerTaskId
  /\ row.downloadPending
  /\ row.downloadVersion = claim.downloadVersion
  /\ row.downloadLeaseUntil = claim.leaseUntil

PersistOutputAndComplete(row) ==
  [row EXCEPT !.status = "SUCCEEDED", !.downloadPending = FALSE,
              !.nextDownloadAt = Never, !.downloadLeaseUntil = Never,
              !.cleanupReady = TRUE]

ScheduleDownloadRetry(row, nextDownloadAt) ==
  [row EXCEPT !.downloadVersion = @ + 1, !.downloadAttempt = @ + 1,
              !.nextDownloadAt = nextDownloadAt, !.downloadLeaseUntil = Never]

StopDownload(row) ==
  [row EXCEPT !.downloadAttempt = @ + 1, !.nextDownloadAt = Never,
              !.downloadLeaseUntil = Never]

\* Mutant: rows whose slot died holding the lease are not looked for.
PendingDownloadUnleased(row, now) ==
  /\ row.status = "PROCESSING"
  /\ row.providerTaskId # NoId
  /\ row.downloadPending
  /\ row.downloadVersion > 0
  /\ Due(row.nextDownloadAt, now)
  /\ row.downloadLeaseUntil = Never

\* findPendingDownloads, for one row.
PendingDownload(row, now) ==
  /\ row.status = "PROCESSING"
  /\ row.providerTaskId # NoId
  /\ row.downloadPending
  /\ row.downloadVersion > 0
  /\ Due(row.nextDownloadAt, now)
  /\ row.downloadLeaseUntil <= now
=============================================================================
