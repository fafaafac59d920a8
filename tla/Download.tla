------------------------------- MODULE Download -------------------------------
(***************************************************************************)
(* The life of a task whose output is ready at the Provider until the      *)
(* video is stored and recorded or automatic downloading stops: the        *)
(* download processor (download-processor.ts) on the worker's job slots,   *)
(* the claim and result updates of TaskStore, the file under the task's    *)
(* fixed storage key (packages/storage), the BullMQ queue, the coordinator *)
(* and the cancel route.                                                   *)
(*                                                                         *)
(* Unlike the row, the file is not guarded by the lease: a slot that has   *)
(* outlived its lease still deletes and replaces it.                       *)
(***************************************************************************)
EXTENDS TaskStore, BridgeClient

CONSTANTS Workers,        \* job slots
          Contents,       \* byte sequences the Provider's output may arrive as
          LeaseLength,    \* timeoutMs * 3 + 5000, in clock units
          Delays,         \* values of the retry backoff
          MaxAttempts,    \* policy.maxAttempts
          MaxDuration,    \* the download deadline
          SpoilsIn,       \* the statuses in which the disk may lose the file
          FaultsUntil,    \* bound: faults happen, and slots dawdle, before it
          MaxTime         \* bound: the clock stops here

ASSUME DownloadAssumption ==
  /\ LeaseLength \in Nat \ {0}
  /\ Delays \subseteq Nat \ {0}
  /\ MaxAttempts \in Nat \ {0}
  /\ MaxDuration \in Nat
  /\ SpoilsIn \subseteq TaskStatus
  /\ FaultsUntil \in Nat /\ MaxTime \in Nat
  /\ Contents \cap {"absent", "damaged", "none"} = {}

VARIABLES row,       \* the VideoTask row
          now,       \* the clock
          queue,     \* download versions waiting or delayed in Redis
          found,     \* the version the coordinator has read and not enqueued, or 0
          slot,      \* slot[w]: the job slot w runs and how far it is
          file,      \* what is stored under outputs/<taskId>/video.mp4
          output     \* the content the VideoOutput row describes, or "none"

vars == <<row, now, queue, found, slot, file, output>>

\* A damaged file is one validateMp4Candidate rejects.
File == {"absent", "damaged"} \cup Contents
Output == {"none"} \cup Contents

DownloadSteps == {"idle", "started", "read", "expire", "load", "recorded",
                  "invalidate", "deleteInvalid", "inspect", "delete", "fetch",
                  "persist", "failed", "schedule"}
Slot == [step: DownloadSteps, version: Nat, startedAt: Nat, owner: BOOLEAN,
         claim: DownloadClaim, content: Output, retryable: BOOLEAN]
IdleSlot == [step |-> "idle", version |-> 0, startedAt |-> 0, owner |-> FALSE,
             claim |-> NoDownloadClaim, content |-> "none", retryable |-> FALSE]

\* The slot has taken a claim and will still write a result under it.
Claimed(w) == slot[w].step \notin {"idle", "started", "read", "schedule"}

JobExists(v) == v \in queue \/ \E w \in Workers : slot[w].owner /\ slot[w].version = v
Enqueued(v) == IF JobExists(v) THEN queue ELSE queue \cup {v}

Release(w) == slot' = [slot EXCEPT ![w] = IdleSlot]
Goto(w, step) == slot' = [slot EXCEPT ![w].step = step]
GotoPersist(w, content) ==
  slot' = [slot EXCEPT ![w].step = "persist", ![w].content = content]
GotoFailed(w, retryable) ==
  slot' = [slot EXCEPT ![w].step = "failed", ![w].retryable = retryable]

-----------------------------------------------------------------------------
\* The row markDownloadPending leaves at time 1; the enqueue may have failed.
Init == /\ \E id \in ProviderTaskIds :
             row = MarkDownloadPending(
                     AcceptSubmission(ClaimSubmission(QueuedRow), id, 1, 1 + MaxDuration),
                     1, 1 + MaxDuration)
        /\ now = 1
        /\ queue \in {{}, {1}}
        /\ found = 0
        /\ slot = [w \in Workers |-> IdleSlot]
        /\ file = "absent"
        /\ output = "none"

Deliver(w) ==
  /\ slot[w].step = "idle"
  /\ \E v \in queue :
       /\ queue' = queue \ {v}
       /\ slot' = [slot EXCEPT ![w] = [IdleSlot EXCEPT !.step = "started",
                     !.version = v, !.startedAt = now, !.owner = TRUE]]
  /\ UNCHANGED <<row, now, found, file, output>>

\* claimDownload, first half.
ReadForClaim(w) ==
  /\ slot[w].step = "started"
  /\ IF DownloadReadable(row, row.providerTaskId, slot[w].version, slot[w].startedAt)
       THEN slot' = [slot EXCEPT ![w].step = "read",
                       ![w].claim = [providerTaskId |-> row.providerTaskId,
                                     downloadVersion |-> slot[w].version,
                                     downloadAttempt |-> row.downloadAttempt,
                                     downloadDeadlineAt |-> row.downloadDeadlineAt,
                                     leaseUntil |-> slot[w].startedAt + LeaseLength]]
       ELSE Release(w)
  /\ UNCHANGED <<row, now, queue, found, file, output>>

\* claimDownload, second half; then the processor's look at the deadline.
TakeLease(w) ==
  /\ slot[w].step = "read"
  /\ IF ClaimDownloadWhere(row, slot[w].claim.providerTaskId, slot[w].version,
                           slot[w].startedAt)
       THEN /\ row' = ClaimDownload(row, slot[w].claim.leaseUntil)
            /\ Goto(w, IF slot[w].startedAt >= slot[w].claim.downloadDeadlineAt
                         THEN "expire" ELSE "load")
       ELSE Release(w) /\ UNCHANGED row
  /\ UNCHANGED <<now, queue, found, file, output>>

\* stopDownload.
Stop(w) == /\ row' = IF DownloadClaimWhere(row, slot[w].claim)
                       THEN StopDownload(row) ELSE row
           /\ Release(w)

ExpireAtStart(w) ==
  /\ slot[w].step = "expire"
  /\ Stop(w)
  /\ UNCHANGED <<now, queue, found, file, output>>

-----------------------------------------------------------------------------
(* recoverOrDownload. *)

\* loadVideoOutput.
LoadOutput(w) ==
  /\ slot[w].step = "load"
  /\ slot' = [slot EXCEPT ![w].content = output,
                ![w].step = IF output = "none" THEN "inspect" ELSE "recorded"]
  /\ UNCHANGED <<row, now, queue, found, file, output>>

\* inspectRecordedOutput: the file is compared with the row.
InspectRecorded(w) ==
  /\ slot[w].step = "recorded"
  /\ Goto(w, IF file = slot[w].content THEN "persist" ELSE "invalidate")
  /\ UNCHANGED <<row, now, queue, found, file, output>>

\* invalidateVideoOutput, under the lease.
Invalidate(w) ==
  /\ slot[w].step = "invalidate"
  /\ IF DownloadClaimWhere(row, slot[w].claim) /\ output # "none"
       THEN output' = "none" /\ Goto(w, "deleteInvalid")
       ELSE UNCHANGED output /\ Goto(w, "inspect")
  /\ UNCHANGED <<row, now, queue, found, file>>

\* inspectExistingFile: the file a dead slot left is taken over, a damaged one
\* is deleted next.
InspectFile(w) ==
  /\ slot[w].step = "inspect"
  /\ CASE file \in Contents -> GotoPersist(w, file)
       [] file = "damaged" -> Goto(w, "delete")
       [] file = "absent" -> Goto(w, "fetch")
  /\ UNCHANGED <<row, now, queue, found, file, output>>

\* The two deletions of a file found unusable, not under the lease; what fails
\* is ignored.
DeleteFile(w) ==
  /\ slot[w].step \in {"delete", "deleteInvalid"}
  /\ file' \in {"absent", file}
  /\ Goto(w, IF slot[w].step = "delete" THEN "fetch" ELSE "inspect")
  /\ UNCHANGED <<row, now, queue, found, output>>

\* downloadOutput and putAtomic: the validated candidate is renamed into place.
Fetch(w) ==
  /\ slot[w].step = "fetch"
  /\ \E content \in Contents :
       file' = content /\ GotoPersist(w, content)
  /\ UNCHANGED <<row, now, queue, found, output>>

\* classifyDownloadError, for the errors of the Provider, of the validation and
\* of the storage; whatever is not classified is taken as transient.
FetchErrors == DownloadErrors \cup
  {"DownloadValidationError", "StorageLimitError", "StorageTimeoutError", "other"}
RetryableFetch(error) ==
  IF error \in ProviderErrors THEN Retryable("DOWNLOAD", error)
  ELSE error \notin {"DownloadValidationError", "StorageLimitError"}

\* The download, its validation or the disk fails, the last even after the
\* rename.
FetchFails(w) ==
  /\ slot[w].step = "fetch"
  /\ \E error \in FetchErrors :
       /\ GotoFailed(w, RetryableFetch(error))
       /\ file' \in IF error = "other" THEN {file} \cup Contents ELSE {file}
  /\ UNCHANGED <<row, now, queue, found, output>>

\* The database or the disk fails at another step of the try block.
StepFails(w) ==
  /\ slot[w].step \in {"load", "recorded", "invalidate", "inspect", "persist"}
  /\ GotoFailed(w, TRUE)
  /\ UNCHANGED <<row, now, queue, found, file, output>>

\* persistVideoOutputAndComplete: output and row in one transaction, or an
\* exception that counts as transient.  The reference object is cleaned up next,
\* in the same try block: an error there finds a row that is over.
Persist(w) ==
  /\ slot[w].step = "persist"
  /\ IF DownloadClaimWhere(row, slot[w].claim)
       THEN /\ row' = PersistOutputAndComplete(row)
            /\ output' = slot[w].content
            /\ Release(w) \/ (now < FaultsUntil /\ GotoFailed(w, TRUE))
       ELSE GotoFailed(w, TRUE) /\ UNCHANGED <<row, output>>
  /\ UNCHANGED <<now, queue, found, file>>

-----------------------------------------------------------------------------
(* handleDownloadError. *)

\* Mutant: attempts are counted from zero.
RetriesOnceMore(w, delay) ==
  /\ slot[w].retryable
  /\ slot[w].claim.downloadAttempt < MaxAttempts
  /\ now + delay < slot[w].claim.downloadDeadlineAt

Retries(w, delay) ==
  /\ slot[w].retryable
  /\ slot[w].claim.downloadAttempt + 1 < MaxAttempts
  /\ now + delay < slot[w].claim.downloadDeadlineAt

HandleError(w) ==
  /\ slot[w].step = "failed"
  /\ \E delay \in Delays :
       CASE ~Retries(w, delay) -> Stop(w)
         [] Retries(w, delay) /\ DownloadClaimWhere(row, slot[w].claim) ->
              row' = ScheduleDownloadRetry(row, now + delay) /\ Goto(w, "schedule")
         [] OTHER -> Release(w) /\ UNCHANGED row
  /\ UNCHANGED <<now, queue, found, file, output>>

\* scheduleDownload after the commit: its failure is swallowed.
ScheduleJob(w) ==
  /\ slot[w].step = "schedule"
  /\ queue' \in {queue, Enqueued(slot[w].version + 1)}
  /\ Release(w)
  /\ UNCHANGED <<row, now, found, file, output>>

-----------------------------------------------------------------------------
(* Faults, the coordinator, the user, the clock. *)

\* The process dies, or a database call outside the try block throws.
Abort(w) ==
  /\ now < FaultsUntil
  /\ slot[w].step # "idle"
  /\ queue' \in {queue} \cup
                (IF slot[w].owner THEN {queue \cup {slot[w].version}} ELSE {})
  /\ Release(w)
  /\ UNCHANGED <<row, now, found, file, output>>

Stall(w) ==
  /\ now < FaultsUntil
  /\ slot[w].owner
  /\ queue' = queue \cup {slot[w].version}
  /\ slot' = [slot EXCEPT ![w].owner = FALSE]
  /\ UNCHANGED <<row, now, found, file, output>>

LoseJob ==
  /\ now < FaultsUntil
  /\ \E v \in queue : queue' = queue \ {v}
  /\ UNCHANGED <<row, now, found, slot, file, output>>

\* The stored file is lost or spoilt, but not between its check and its use.
SpoilFile ==
  /\ now < FaultsUntil
  /\ row.status \in SpoilsIn
  /\ \A w \in Workers : slot[w].step # "persist"
  /\ file \in Contents
  /\ file' \in {"absent", "damaged"}
  /\ UNCHANGED <<row, now, queue, found, slot, output>>

FindPending ==
  /\ found = 0
  /\ PendingDownload(row, now)
  /\ found' = row.downloadVersion
  /\ UNCHANGED <<row, now, queue, slot, file, output>>

EnqueueFound ==
  /\ found # 0
  /\ queue' = Enqueued(found)
  /\ found' = 0
  /\ UNCHANGED <<row, now, slot, file, output>>

UserCancel ==
  /\ CancelWhere(row)
  /\ row' = CancelTask(row)
  /\ UNCHANGED <<now, queue, found, slot, file, output>>

\* Before FaultsUntil a slot may be slow without limit.  From then on it is done
\* before its lease ends, which the code sizes for three timeouts and a margin.
Tick ==
  /\ now < MaxTime
  /\ \/ now < FaultsUntil
     \/ \A w \in Workers :
          slot[w].step # "idle" => now + 1 < slot[w].startedAt + LeaseLength
  /\ now' = now + 1
  /\ UNCHANGED <<row, queue, found, slot, file, output>>

-----------------------------------------------------------------------------
Advance(w) == \/ ReadForClaim(w) \/ TakeLease(w) \/ ExpireAtStart(w)
              \/ LoadOutput(w) \/ InspectRecorded(w) \/ Invalidate(w)
              \/ InspectFile(w) \/ DeleteFile(w) \/ Fetch(w) \/ FetchFails(w)
              \/ StepFails(w) \/ Persist(w) \/ HandleError(w) \/ ScheduleJob(w)

Next == \/ \E w \in Workers : Deliver(w) \/ Advance(w) \/ Abort(w) \/ Stall(w)
        \/ LoseJob \/ SpoilFile \/ FindPending \/ EnqueueFound \/ UserCancel \/ Tick

Spec == Init /\ [][Next]_vars

\* The clock runs, the worker serves its queue and the jobs it has started,
\* the coordinator's timer fires.
Fairness == /\ WF_vars(Tick)
            /\ \A w \in Workers : WF_vars(Deliver(w)) /\ WF_vars(Advance(w))
            /\ WF_vars(FindPending) /\ WF_vars(EnqueueFound)

FairSpec == Spec /\ Fairness
-----------------------------------------------------------------------------
TypeOK ==
  /\ row \in TaskRow
  /\ now \in Nat
  /\ queue \subseteq Nat
  /\ found \in Nat
  /\ slot \in [Workers -> Slot]
  /\ file \in File
  /\ output \in Output

InDownload == row.status = "PROCESSING" /\ row.nextDownloadAt # Never

\* The claim a slot holds belongs to its job; no claim of this version outlives
\* the lease in the row, and no two claims carry the same lease.
ClaimsAreRecorded ==
  \A w \in Workers : slot[w].step \notin {"idle", "started"} =>
    /\ slot[w].claim.downloadVersion = slot[w].version
    /\ slot[w].claim.leaseUntil = slot[w].startedAt + LeaseLength
    /\ slot[w].claim.downloadVersion <= row.downloadVersion

\* A lease is counted from a reading of the clock.
JobsAreRecent == \A w \in Workers : slot[w].startedAt <= now

LeaseIsLatest ==
  \A w \in Workers :
    /\ Claimed(w)
    /\ slot[w].claim.downloadVersion = row.downloadVersion
    /\ InDownload
    => slot[w].claim.leaseUntil <= row.downloadLeaseUntil

LeasesAreDistinct ==
  \A v, w \in Workers :
    /\ v # w /\ Claimed(v) /\ Claimed(w)
    /\ slot[v].claim.downloadVersion = slot[w].claim.downloadVersion
    => slot[v].claim.leaseUntil # slot[w].claim.leaseUntil

\* The VideoOutput row exists exactly when the task has succeeded: a crash
\* between the two never shows one without the other.
OutputIffSucceeded ==
  /\ output # "none" <=> row.status = "SUCCEEDED"
  /\ row.status = "SUCCEEDED" => ~row.downloadPending /\ row.cleanupReady

\* However often jobs are repeated, a task is tried and retried no more often
\* than the policy allows.
AttemptsAreBounded ==
  /\ row.downloadAttempt <= MaxAttempts
  /\ row.downloadVersion <= MaxAttempts

\* The version counts the attempts, and a claim carries the attempt of its
\* version.
AttemptsAreCounted ==
  InDownload =>
    /\ row.downloadVersion = row.downloadAttempt + 1
    /\ row.downloadAttempt < MaxAttempts
    /\ \A w \in Workers :
         /\ slot[w].step \notin {"idle", "started"}
         /\ slot[w].claim.downloadVersion = row.downloadVersion
         => slot[w].claim.downloadAttempt = row.downloadAttempt

\* The deadline is set, and a stopped download leaves no lease behind.
StopsAreClean ==
  /\ row.downloadDeadlineAt # Never
  /\ row.nextDownloadAt = Never => row.downloadLeaseUntil = Never

\* What a slot is about to record is a video.
HeldIsAVideo ==
  \A w \in Workers : slot[w].step \in {"recorded", "persist"} => slot[w].content # "none"

\* Unless the user gave the task up, a slot that may still touch the file holds
\* the row's lease or has outlived its own.
HoldersOrLate ==
  row.status \in {"PROCESSING", "SUCCEEDED"} =>
    \A w \in Workers : Claimed(w) /\ slot[w].step # "failed" =>
      slot[w].claim.leaseUntil <= now \/ DownloadClaimWhere(row, slot[w].claim)

\* The inductive invariant.
DownloadInv ==
  /\ TypeOK /\ ClaimsAreRecorded /\ JobsAreRecent
  /\ LeaseIsLatest /\ LeasesAreDistinct
  /\ OutputIffSucceeded /\ AttemptsAreCounted /\ AttemptsAreBounded
  /\ StopsAreClean /\ HeldIsAVideo /\ HoldersOrLate

\* At most one outstanding claim still matches the row.
OneValidClaim ==
  \A v, w \in Workers :
    Claimed(v) /\ Claimed(w) /\ DownloadClaimWhere(row, slot[v].claim)
               /\ DownloadClaimWhere(row, slot[w].claim) => v = w

\* What the coordinator finds, a slot can claim.
PendingIsClaimable ==
  PendingDownload(row, now) =>
    /\ DownloadReadable(row, row.providerTaskId, row.downloadVersion, now)
    /\ ClaimDownloadWhere(row, row.providerTaskId, row.downloadVersion, now)

\* The video of a task that has succeeded is there, and is the recorded one.
SucceededIsServable == row.status = "SUCCEEDED" => file = output

\* Once the holder of the lease has the file it will record, and after the task
\* has succeeded, only the disk or a slot that has outlived its lease changes
\* that file: no redelivery, retry or takeover by itself does.
Settled ==
  \/ row.status = "SUCCEEDED"
  \/ \E w \in Workers : slot[w].step = "persist" /\ DownloadClaimWhere(row, slot[w].claim)
KeptByTheLease ==
  [][Settled /\ file' # file =>
       \/ SpoilFile
       \/ \E w \in Workers : /\ slot'[w] # slot[w]
                             /\ Claimed(w) /\ slot[w].claim.leaseUntil <= now]_vars

\* The status, the identifier and the cleanup gate follow TaskLifecycle.
Lifecycle == INSTANCE TaskLifecycle WITH
  status <- row.status, providerTaskId <- row.providerTaskId,
  cleanupReady <- row.cleanupReady
LifecycleSteps == [][Lifecycle!Next]_<<row.status, row.providerTaskId, row.cleanupReady>>

\* Automatic downloading ends: with the video, or with a stop for the operator.
DownloadingEnds == InDownload ~> ~InDownload
=============================================================================
