--------------------------- MODULE Download_proofs ----------------------------
(***************************************************************************)
(* Proofs about Download, for every set of slots and of contents, lease    *)
(* length, set of delays, number of attempts, deadline and bound.          *)
(* DownloadInv is inductive; the properties of the module that TLC checks  *)
(* on two slots follow from it.                                            *)
(*                                                                         *)
(* The steps of the slots are of three kinds, and a lemma settles each:    *)
(*   SlotMoves    no column changes; the slot keeps its claim or gives it  *)
(*                up, whatever it does to the file                         *)
(*   RowIsWritten the slot's claim matched, and a result was written       *)
(*   TakeLease    the row's lease had run out                              *)
(***************************************************************************)
EXTENDS Download, TLAPS

-----------------------------------------------------------------------------
(* What each update of the row does, field by field: the updated row is well *)
(* formed, and no column but the ones the write names changes.  The proofs   *)
(* below cite these lemmas and leave the updates themselves unexpanded.      *)

\* The columns of a row that a download never writes.
SameElsewhere(new, r) ==
  /\ new.providerTaskId = r.providerTaskId
  /\ new.downloadDeadlineAt = r.downloadDeadlineAt

\* The row a download begins with.
LEMMA PendingFields ==
  ASSUME NEW id \in ProviderTaskIds, NEW time \in Nat, NEW poll \in Nat, NEW deadline \in Nat
  PROVE  LET new == MarkDownloadPending(AcceptSubmission(ClaimSubmission(QueuedRow), id, time, poll),
                                        time, deadline)
         IN  /\ new \in TaskRow
             /\ new.status = "PROCESSING"
             /\ new.downloadDeadlineAt = deadline
             /\ new.downloadLeaseUntil = Never
             /\ new.downloadVersion = 1
             /\ new.downloadAttempt = 0
  <1> DEFINE accepted == AcceptSubmission(ClaimSubmission(QueuedRow), id, time, poll)
  <1>1. accepted \in TaskRow /\ accepted.status = "PROCESSING"
    BY DEF AcceptSubmission, ClaimSubmission, QueuedRow, TaskRow, TaskStatus, FinalStatus,
           ProviderIdOrNull, Never
  <1> HIDE DEF accepted
  <1>2. LET new == MarkDownloadPending(accepted, time, deadline)
        IN  /\ new \in TaskRow
            /\ new.status = "PROCESSING"
            /\ new.downloadDeadlineAt = deadline
            /\ new.downloadLeaseUntil = Never
            /\ new.downloadVersion = 1
            /\ new.downloadAttempt = 0
    BY <1>1 DEF MarkDownloadPending, TaskRow, TaskStatus, FinalStatus, Never
  <1> QED  BY <1>2, Zenon DEF accepted

\* A claim writes the lease and nothing else.
LEMMA ClaimDownloadFields ==
  ASSUME NEW r \in TaskRow, NEW leaseUntil \in Nat
  PROVE  LET new == ClaimDownload(r, leaseUntil)
         IN  /\ new \in TaskRow /\ SameElsewhere(new, r)
             /\ new.status = r.status
             /\ new.downloadPending = r.downloadPending
             /\ new.nextDownloadAt = r.nextDownloadAt
             /\ new.downloadLeaseUntil = leaseUntil
             /\ new.downloadVersion = r.downloadVersion
             /\ new.downloadAttempt = r.downloadAttempt
             /\ new.cleanupReady = r.cleanupReady
  BY DEF ClaimDownload, SameElsewhere, TaskRow, TaskStatus, FinalStatus, Never

\* The end of the task, its output recorded.
LEMMA PersistFields ==
  ASSUME NEW r \in TaskRow
  PROVE  LET new == PersistOutputAndComplete(r)
         IN  /\ new \in TaskRow /\ SameElsewhere(new, r)
             /\ new.status = "SUCCEEDED"
             /\ new.downloadPending = FALSE
             /\ new.nextDownloadAt = Never
             /\ new.downloadLeaseUntil = Never
             /\ new.downloadVersion = r.downloadVersion
             /\ new.downloadAttempt = r.downloadAttempt
             /\ new.cleanupReady = TRUE
  BY DEF PersistOutputAndComplete, SameElsewhere, TaskRow, TaskStatus, FinalStatus, Never

\* The next attempt has the next version, and no lease.
LEMMA ScheduleDownloadRetryFields ==
  ASSUME NEW r \in TaskRow, NEW nextDownloadAt \in Nat
  PROVE  LET new == ScheduleDownloadRetry(r, nextDownloadAt)
         IN  /\ new \in TaskRow /\ SameElsewhere(new, r)
             /\ new.status = r.status
             /\ new.downloadPending = r.downloadPending
             /\ new.nextDownloadAt = nextDownloadAt
             /\ new.downloadLeaseUntil = Never
             /\ new.downloadVersion = r.downloadVersion + 1
             /\ new.downloadAttempt = r.downloadAttempt + 1
             /\ new.cleanupReady = r.cleanupReady
  <1> DEFINE v == r.downloadVersion + 1
             a == r.downloadAttempt + 1
             new == ScheduleDownloadRetry(r, nextDownloadAt)
  <1>1. v \in Nat /\ a \in Nat
    BY DEF TaskRow
  <1>2. new = [r EXCEPT !.downloadVersion = v, !.downloadAttempt = a,
                          !.nextDownloadAt = nextDownloadAt,
                          !.downloadLeaseUntil = Never]
    BY Zenon DEF ScheduleDownloadRetry
  <1> HIDE DEF v, a, new
  <1>3. new \in TaskRow
    BY <1>1, <1>2 DEF TaskRow, Never
  <1>4. /\ new.status = r.status
        /\ new.providerTaskId = r.providerTaskId
        /\ new.downloadPending = r.downloadPending
        /\ new.downloadDeadlineAt = r.downloadDeadlineAt
        /\ new.cleanupReady = r.cleanupReady
    BY <1>2 DEF TaskRow
  <1>5. /\ new.nextDownloadAt = nextDownloadAt
        /\ new.downloadLeaseUntil = Never
        /\ new.downloadVersion = v
        /\ new.downloadAttempt = a
    BY <1>2 DEF TaskRow
  <1> QED  BY <1>3, <1>4, <1>5, Zenon DEF SameElsewhere, v, a, new

\* Automatic downloading stops; the task stays where it is.
LEMMA StopDownloadFields ==
  ASSUME NEW r \in TaskRow
  PROVE  LET new == StopDownload(r)
         IN  /\ new \in TaskRow /\ SameElsewhere(new, r)
             /\ new.status = r.status
             /\ new.downloadPending = r.downloadPending
             /\ new.nextDownloadAt = Never
             /\ new.downloadLeaseUntil = Never
             /\ new.downloadVersion = r.downloadVersion
             /\ new.downloadAttempt = r.downloadAttempt + 1
             /\ new.cleanupReady = r.cleanupReady
  <1>1. r.downloadAttempt + 1 \in Nat
    BY DEF TaskRow
  <1>2. ASSUME NEW a \in Nat, NEW new,
               new = [r EXCEPT !.downloadAttempt = a, !.nextDownloadAt = Never,
                                 !.downloadLeaseUntil = Never]
        PROVE  /\ new \in TaskRow /\ SameElsewhere(new, r)
               /\ new.status = r.status
               /\ new.downloadPending = r.downloadPending
               /\ new.nextDownloadAt = Never
               /\ new.downloadLeaseUntil = Never
               /\ new.downloadVersion = r.downloadVersion
               /\ new.downloadAttempt = a
               /\ new.cleanupReady = r.cleanupReady
    BY <1>2 DEF SameElsewhere, TaskRow, Never
  <1> QED  BY <1>1, <1>2, Zenon DEF StopDownload

\* Cancelling leaves the download's columns.
LEMMA CancelDownloadFields ==
  ASSUME NEW r \in TaskRow
  PROVE  LET new == CancelTask(r)
         IN  /\ new \in TaskRow /\ SameElsewhere(new, r)
             /\ new.status = "CANCELLED"
             /\ new.downloadPending = r.downloadPending
             /\ new.nextDownloadAt = r.nextDownloadAt
             /\ new.downloadLeaseUntil = r.downloadLeaseUntil
             /\ new.downloadVersion = r.downloadVersion
             /\ new.downloadAttempt = r.downloadAttempt
             /\ new.cleanupReady = r.cleanupReady
  BY DEF CancelTask, SameElsewhere, TaskRow, TaskStatus, FinalStatus, Never
-----------------------------------------------------------------------------
(* Slots. *)

\* No other slot moves.
Others(w) == \A v \in Workers \ {w} : slot'[v] = slot[v]

\* The slot goes on with the claim it has read or taken.
KeepsItsClaim(w) ==
  /\ slot[w].step \notin {"idle", "started"}
  /\ slot'[w].version = slot[w].version
  /\ slot'[w].startedAt = slot[w].startedAt
  /\ slot'[w].claim = slot[w].claim

\* The slot has no claim: its job has ended, or has just been delivered.
HasNoClaim(w) == slot'[w].step \in {"idle", "started"} /\ slot'[w].startedAt <= now

LEMMA IdleSlotType == IdleSlot \in Slot /\ IdleSlot.step = "idle" /\ IdleSlot.startedAt = 0
  BY DEF IdleSlot, Slot, DownloadSteps, DownloadClaim, NoDownloadClaim, Output, Never,
         ProviderIdOrNull

\* The slot after the step that ends a job.
LEMMA ReleaseSlot ==
  ASSUME NEW w \in Workers, slot \in [Workers -> Slot], now \in Nat, Release(w)
  PROVE  slot' \in [Workers -> Slot] /\ slot'[w].step = "idle" /\ HasNoClaim(w) /\ Others(w)
  <1> HIDE DEF IdleSlot, Slot
  <1> QED  BY IdleSlotType DEF Release, Others, HasNoClaim

\* The slot after a step that moves its job on.
LEMMA MovedSlot ==
  ASSUME NEW w \in Workers, slot \in [Workers -> Slot], slot[w].step \notin {"idle", "started"},
         NEW step \in DownloadSteps, NEW content \in Output, NEW retryable \in BOOLEAN,
         NEW owner \in BOOLEAN,
         slot' = [slot EXCEPT ![w] = [slot[w] EXCEPT !.step = step, !.content = content,
                                        !.retryable = retryable, !.owner = owner]]
  PROVE  /\ slot' \in [Workers -> Slot]
         /\ slot'[w].step = step
         /\ slot'[w].content = content
         /\ KeepsItsClaim(w)
         /\ Others(w)
  <1> DEFINE moved == [slot[w] EXCEPT !.step = step, !.content = content,
                         !.retryable = retryable, !.owner = owner]
  <1>1. slot[w] \in Slot
    OBVIOUS
  <1>2. /\ moved \in Slot
        /\ moved.step = step /\ moved.content = content
        /\ moved.version = slot[w].version
        /\ moved.startedAt = slot[w].startedAt
        /\ moved.claim = slot[w].claim
    BY <1>1 DEF Slot
  <1> HIDE DEF moved
  <1>3. slot' = [slot EXCEPT ![w] = moved]
    BY DEF moved
  <1>4. slot' \in [Workers -> Slot] /\ slot'[w] = moved /\ Others(w)
    BY <1>2, <1>3 DEF Others
  <1> QED  BY <1>2, <1>4 DEF KeepsItsClaim

\* The slot after Goto, GotoPersist or GotoFailed.
LEMMA GotoSlot ==
  ASSUME NEW w \in Workers, slot \in [Workers -> Slot], slot[w].step \notin {"idle", "started"},
         NEW step \in DownloadSteps, Goto(w, step)
  PROVE  /\ slot' \in [Workers -> Slot]
         /\ slot'[w].step = step
         /\ slot'[w].content = slot[w].content
         /\ KeepsItsClaim(w)
         /\ Others(w)
  <1>1. slot[w] \in Slot
    OBVIOUS
  <1>2. slot[w].content \in Output /\ slot[w].retryable \in BOOLEAN /\ slot[w].owner \in BOOLEAN
    BY <1>1 DEF Slot
  <1>3. [slot[w] EXCEPT !.step = step] =
          [slot[w] EXCEPT !.step = step, !.content = slot[w].content,
                          !.retryable = slot[w].retryable, !.owner = slot[w].owner]
    BY <1>1 DEF Slot
  <1>4. slot' = [slot EXCEPT ![w] = [slot[w] EXCEPT !.step = step]]
    BY DEF Goto
  <1>5. slot' = [slot EXCEPT ![w] = [slot[w] EXCEPT !.step = step, !.content = slot[w].content,
                                       !.retryable = slot[w].retryable, !.owner = slot[w].owner]]
    BY <1>3, <1>4
  <1> HIDE DEF Slot
  <1> QED  BY <1>2, <1>5, MovedSlot

LEMMA GotoPersistSlot ==
  ASSUME NEW w \in Workers, slot \in [Workers -> Slot], slot[w].step \notin {"idle", "started"},
         NEW content \in Output, GotoPersist(w, content)
  PROVE  /\ slot' \in [Workers -> Slot]
         /\ slot'[w].step = "persist"
         /\ slot'[w].content = content
         /\ KeepsItsClaim(w)
         /\ Others(w)
  <1>1. slot[w] \in Slot
    OBVIOUS
  <1>2. slot[w].retryable \in BOOLEAN /\ slot[w].owner \in BOOLEAN
    BY <1>1 DEF Slot
  <1>3. [slot[w] EXCEPT !.step = "persist", !.content = content] =
          [slot[w] EXCEPT !.step = "persist", !.content = content,
                          !.retryable = slot[w].retryable, !.owner = slot[w].owner]
    BY <1>1 DEF Slot
  <1>4. slot' = [slot EXCEPT ![w] = [slot[w] EXCEPT !.step = "persist", !.content = content]]
    BY DEF GotoPersist
  <1>5. "persist" \in DownloadSteps
    BY DEF DownloadSteps
  <1>6. slot' = [slot EXCEPT ![w] = [slot[w] EXCEPT !.step = "persist", !.content = content,
                                       !.retryable = slot[w].retryable, !.owner = slot[w].owner]]
    BY <1>3, <1>4
  <1> HIDE DEF Slot
  <1> QED  BY <1>2, <1>5, <1>6, MovedSlot

LEMMA GotoFailedSlot ==
  ASSUME NEW w \in Workers, slot \in [Workers -> Slot], slot[w].step \notin {"idle", "started"},
         NEW retryable \in BOOLEAN, GotoFailed(w, retryable)
  PROVE  /\ slot' \in [Workers -> Slot]
         /\ slot'[w].step = "failed"
         /\ KeepsItsClaim(w)
         /\ Others(w)
  <1>1. slot[w] \in Slot
    OBVIOUS
  <1>2. slot[w].content \in Output /\ slot[w].owner \in BOOLEAN
    BY <1>1 DEF Slot
  <1>3. [slot[w] EXCEPT !.step = "failed", !.retryable = retryable] =
          [slot[w] EXCEPT !.step = "failed", !.content = slot[w].content,
                          !.retryable = retryable, !.owner = slot[w].owner]
    BY <1>1 DEF Slot
  <1>4. slot' = [slot EXCEPT ![w] = [slot[w] EXCEPT !.step = "failed", !.retryable = retryable]]
    BY DEF GotoFailed
  <1>5. "failed" \in DownloadSteps
    BY DEF DownloadSteps
  <1>6. slot' = [slot EXCEPT ![w] = [slot[w] EXCEPT !.step = "failed", !.content = slot[w].content,
                                       !.retryable = retryable, !.owner = slot[w].owner]]
    BY <1>3, <1>4
  <1> HIDE DEF Slot
  <1> QED  BY <1>2, <1>5, <1>6, MovedSlot

\* Enqueueing adds at most the version asked for.
LEMMA EnqueuedType ==
  ASSUME queue \subseteq Nat, NEW v \in Nat
  PROVE  Enqueued(v) \subseteq Nat
  BY DEF Enqueued

-----------------------------------------------------------------------------
(* The kinds of steps. *)

\* A slot that has no claim any more, or keeps the one it has and can only give
\* up what it may do with it.
StaysFenced(w) ==
  \/ HasNoClaim(w)
  \/ /\ KeepsItsClaim(w)
     /\ Claimed(w)' => Claimed(w)
     /\ slot[w].step = "failed" => slot'[w].step \in {"failed", "schedule"}

LEMMA SlotMoves ==
  ASSUME DownloadInv, NEW w \in Workers, Others(w), slot' \in [Workers -> Slot],
         StaysFenced(w),
         slot'[w].step \in {"recorded", "persist"} => slot'[w].content # "none",
         UNCHANGED <<row, output>>,
         now' \in Nat, now <= now', queue' \subseteq Nat, found' \in Nat, file' \in File
  PROVE  DownloadInv'
  <1> USE DEF DownloadInv, Others, StaysFenced, HasNoClaim, KeepsItsClaim
  <1>a. /\ now \in Nat
        /\ \A v \in Workers : slot[v].startedAt \in Nat /\ slot[v].claim.leaseUntil \in Nat
    BY DEF TypeOK, Slot, DownloadClaim
  <1>1. TypeOK'
    BY DEF TypeOK
  <1>b. \A v \in Workers : slot'[v].startedAt \in Nat
    BY DEF Slot
  <1>2. ClaimsAreRecorded' /\ JobsAreRecent'
    <2>1. ClaimsAreRecorded'
      BY DEF ClaimsAreRecorded
    <2>2. \A v \in Workers : slot'[v].startedAt <= now
      BY DEF JobsAreRecent
    <2>3. JobsAreRecent'
      BY <1>a, <1>b, <2>2 DEF JobsAreRecent
    <2> QED  BY <2>1, <2>3
  <1>3. LeaseIsLatest'
    BY DEF LeaseIsLatest, Claimed, InDownload
  <1>4. LeasesAreDistinct'
    BY DEF LeasesAreDistinct, Claimed
  <1>5. OutputIffSucceeded' /\ AttemptsAreBounded' /\ StopsAreClean'
    BY DEF OutputIffSucceeded, AttemptsAreBounded, StopsAreClean
  <1>6. AttemptsAreCounted'
    BY DEF AttemptsAreCounted, InDownload
  <1>7. HeldIsAVideo'
    BY DEF HeldIsAVideo
  <1>8. HoldersOrLate'
    <2> SUFFICES ASSUME row.status \in {"PROCESSING", "SUCCEEDED"}, NEW v \in Workers,
                        Claimed(v)', slot'[v].step # "failed"
                 PROVE  slot'[v].claim.leaseUntil <= now' \/ DownloadClaimWhere(row, slot'[v].claim)
      BY DEF HoldersOrLate
    <2>1. Claimed(v) /\ slot[v].step # "failed" /\ slot'[v].claim = slot[v].claim
      BY DEF Claimed
    <2>2. slot[v].claim.leaseUntil <= now \/ DownloadClaimWhere(row, slot[v].claim)
      BY <2>1 DEF HoldersOrLate
    <2> QED  BY <1>a, <2>1, <2>2
  <1> QED  BY <1>1, <1>2, <1>3, <1>4, <1>5, <1>6, <1>7, <1>8

\* A claim that matches is that of a download under way, and the only one.
LEMMA TheHolder ==
  ASSUME DownloadInv, NEW w \in Workers, Claimed(w), DownloadClaimWhere(row, slot[w].claim)
  PROVE  /\ InDownload
         /\ row.downloadVersion = row.downloadAttempt + 1
         /\ row.downloadAttempt = slot[w].claim.downloadAttempt
         /\ row.downloadAttempt < MaxAttempts
         /\ output = "none"
         /\ \A v \in Workers \ {w} : Claimed(v) =>
              /\ ~DownloadClaimWhere(row, slot[v].claim)
              /\ slot[v].step # "failed" => slot[v].claim.leaseUntil <= now
  <1> USE DEF DownloadInv
  <1>1. slot[w].startedAt \in Nat
    BY DEF TypeOK, Slot
  <1>2. slot[w].claim.leaseUntil = slot[w].startedAt + LeaseLength
    BY DEF ClaimsAreRecorded, Claimed
  <1>3. row.downloadLeaseUntil # Never
    BY <1>1, <1>2, DownloadAssumption DEF DownloadClaimWhere, Never
  <1>4. InDownload
    BY <1>3 DEF StopsAreClean, InDownload, DownloadClaimWhere
  <1>5. /\ row.downloadVersion = row.downloadAttempt + 1
        /\ row.downloadAttempt = slot[w].claim.downloadAttempt
        /\ row.downloadAttempt < MaxAttempts
    BY <1>4 DEF AttemptsAreCounted, Claimed, DownloadClaimWhere
  <1>6. output = "none" /\ row.status = "PROCESSING"
    BY DEF OutputIffSucceeded, DownloadClaimWhere
  <1>7. ASSUME NEW v \in Workers \ {w}, Claimed(v)
        PROVE  ~DownloadClaimWhere(row, slot[v].claim)
    BY <1>7, Zenon DEF LeasesAreDistinct, DownloadClaimWhere
  <1> QED  BY <1>4, <1>5, <1>6, <1>7 DEF HoldersOrLate

\* A result: the next attempt, or the end of downloading.
Written ==
  \/ /\ row'.downloadVersion = row.downloadVersion + 1
     /\ row'.downloadAttempt = row.downloadAttempt + 1
     /\ row.downloadAttempt + 1 < MaxAttempts
  \/ /\ row'.downloadVersion = row.downloadVersion
     /\ row'.downloadAttempt \in {row.downloadAttempt, row.downloadAttempt + 1}
     /\ ~InDownload'

LEMMA RowIsWritten ==
  ASSUME DownloadInv, NEW w \in Workers, Others(w), slot' \in [Workers -> Slot],
         Claimed(w), DownloadClaimWhere(row, slot[w].claim),
         HasNoClaim(w) \/ (KeepsItsClaim(w) /\ slot'[w].step \in {"schedule", "failed"}),
         row' \in TaskRow, Written, SameElsewhere(row', row),
         row'.nextDownloadAt = Never => row'.downloadLeaseUntil = Never,
         OutputIffSucceeded', output' \in Output,
         UNCHANGED <<now, queue, found, file>>
  PROVE  DownloadInv'
  <1> USE DEF DownloadInv, Others, HasNoClaim, KeepsItsClaim
  <1>0. /\ row.downloadVersion \in Nat /\ row.downloadAttempt \in Nat
        /\ row'.downloadVersion \in Nat /\ row'.downloadAttempt \in Nat
        /\ MaxAttempts \in Nat
    BY DownloadAssumption DEF TypeOK, TaskRow
  <1>a. \A v \in Workers : slot[v].claim.downloadVersion \in Nat
    BY DEF TypeOK, Slot, DownloadClaim
  <1>b. /\ row.downloadVersion = row.downloadAttempt + 1 /\ row.downloadAttempt < MaxAttempts
        /\ \A v \in Workers \ {w} : Claimed(v) /\ slot[v].step # "failed" =>
             slot[v].claim.leaseUntil <= now
    BY TheHolder
  <1>c. \A v \in Workers : slot'[v].step \notin {"idle", "started"} =>
          /\ slot[v].step \notin {"idle", "started"}
          /\ slot'[v].claim = slot[v].claim
          /\ slot'[v].startedAt = slot[v].startedAt
          /\ slot'[v].version = slot[v].version
    OBVIOUS
  <1>d. \A v \in Workers : slot[v].step \notin {"idle", "started"} =>
          slot[v].claim.downloadVersion <= row'.downloadVersion
    BY <1>0, <1>a DEF ClaimsAreRecorded, Written
  <1>e. ASSUME ~InDownload'
        PROVE  LeaseIsLatest' /\ AttemptsAreCounted'
    BY <1>e DEF LeaseIsLatest, AttemptsAreCounted
  <1>f. ASSUME row'.downloadVersion = row.downloadVersion + 1
        PROVE  LeaseIsLatest' /\ AttemptsAreCounted'
    <2>1. \A v \in Workers : slot'[v].step \notin {"idle", "started"} =>
            slot'[v].claim.downloadVersion # row'.downloadVersion
      BY <1>0, <1>a, <1>c, <1>f DEF ClaimsAreRecorded
    <2>2. LeaseIsLatest'
      BY <2>1 DEF LeaseIsLatest, Claimed
    <2>3. /\ row'.downloadVersion = row'.downloadAttempt + 1 /\ row'.downloadAttempt < MaxAttempts
      BY <1>0, <1>b, <1>f DEF Written
    <2>4. AttemptsAreCounted'
      BY <2>1, <2>3 DEF AttemptsAreCounted
    <2> QED  BY <2>2, <2>4
  <1>1. TypeOK'
    BY DEF TypeOK
  <1>2. ClaimsAreRecorded' /\ JobsAreRecent'
    <2>1. ClaimsAreRecorded'
      BY <1>c, <1>d DEF ClaimsAreRecorded
    <2>2. JobsAreRecent'
      BY DEF JobsAreRecent, TypeOK
    <2> QED  BY <2>1, <2>2
  <1>3. LeaseIsLatest' /\ AttemptsAreCounted'
    BY <1>e, <1>f DEF Written
  <1>4. LeasesAreDistinct'
    BY <1>c DEF LeasesAreDistinct, Claimed
  <1>5. AttemptsAreBounded'
    BY <1>0, <1>b DEF AttemptsAreBounded, Written
  <1>6. StopsAreClean'
    BY DEF StopsAreClean, SameElsewhere
  <1>7. HeldIsAVideo'
    BY DEF HeldIsAVideo
  <1>8. HoldersOrLate'
    <2> SUFFICES ASSUME NEW v \in Workers, Claimed(v)', slot'[v].step # "failed"
                 PROVE  slot'[v].claim.leaseUntil <= now
      BY DEF HoldersOrLate
    <2>1. v # w
      BY DEF Claimed
    <2> QED  BY <1>b, <2>1 DEF Claimed
  <1> QED  BY <1>1, <1>2, <1>3, <1>4, <1>5, <1>6, <1>7, <1>8

-----------------------------------------------------------------------------
(* One lemma per action of a slot. *)

\* Giving the claim up without a write.
LEMMA ReleaseKeeps ==
  ASSUME DownloadInv, NEW w \in Workers, Release(w),
         UNCHANGED <<row, now, found, file, output>>, queue' \subseteq Nat
  PROVE  DownloadInv'
  <1>1. /\ slot' \in [Workers -> Slot] /\ slot'[w].step = "idle"
        /\ HasNoClaim(w) /\ Others(w)
    BY ReleaseSlot DEF DownloadInv, TypeOK
  <1>2. now' \in Nat /\ now <= now' /\ found' \in Nat /\ file' \in File
    BY DEF DownloadInv, TypeOK
  <1> QED  BY <1>1, <1>2, SlotMoves DEF StaysFenced

LEMMA DeliverKeeps ==
  ASSUME DownloadInv, NEW w \in Workers, Deliver(w)
  PROVE  DownloadInv'
  <1>1. PICK v \in queue :
          /\ queue' = queue \ {v}
          /\ slot' = [slot EXCEPT ![w] = [IdleSlot EXCEPT !.step = "started",
                        !.version = v, !.startedAt = now, !.owner = TRUE]]
    BY DEF Deliver
  <1>2. /\ v \in Nat /\ now \in Nat /\ slot \in [Workers -> Slot] /\ queue \subseteq Nat
        /\ found \in Nat /\ file \in File
    BY DEF DownloadInv, TypeOK
  <1> DEFINE started == [IdleSlot EXCEPT !.step = "started", !.version = v,
                           !.startedAt = now, !.owner = TRUE]
  <1>3. started \in Slot /\ started.step = "started" /\ started.startedAt = now
    BY <1>2 DEF IdleSlot, Slot, DownloadSteps, DownloadClaim, NoDownloadClaim, Output,
                Never, ProviderIdOrNull
  <1> HIDE DEF started
  <1>4. slot' = [slot EXCEPT ![w] = started]
    BY <1>1, Zenon DEF started
  <1>5. /\ slot' \in [Workers -> Slot] /\ slot'[w].step = "started"
        /\ HasNoClaim(w) /\ Others(w)
    BY <1>2, <1>3, <1>4 DEF Others, HasNoClaim
  <1>6. /\ UNCHANGED <<row, output>> /\ now' \in Nat /\ now <= now'
        /\ queue' \subseteq Nat /\ found' \in Nat /\ file' \in File
    BY <1>1, <1>2 DEF Deliver
  <1> QED  BY <1>5, <1>6, SlotMoves DEF StaysFenced

\* The claim that is read carries the attempt of the row's version.
LEMMA ReadForClaimKeeps ==
  ASSUME DownloadInv, NEW w \in Workers, ReadForClaim(w)
  PROVE  DownloadInv'
  <1> DEFINE Readable == DownloadReadable(row, row.providerTaskId, slot[w].version,
                                          slot[w].startedAt)
  <1>0. /\ slot \in [Workers -> Slot] /\ row \in TaskRow /\ LeaseLength \in Nat
        /\ queue \subseteq Nat /\ now \in Nat /\ found \in Nat /\ file \in File
    BY DownloadAssumption DEF DownloadInv, TypeOK
  <1>1. CASE ~Readable
    BY <1>0, <1>1, ReleaseKeeps DEF ReadForClaim
  <1>2. CASE Readable
    <2> DEFINE c == [providerTaskId |-> row.providerTaskId,
                     downloadVersion |-> slot[w].version,
                     downloadAttempt |-> row.downloadAttempt,
                     downloadDeadlineAt |-> row.downloadDeadlineAt,
                     leaseUntil |-> slot[w].startedAt + LeaseLength]
               read == [slot[w] EXCEPT !.step = "read", !.claim = c]
    <2>1. slot' = [slot EXCEPT ![w] = read]
      BY <1>2 DEF ReadForClaim
    <2>2. slot[w].version \in Nat /\ slot[w].startedAt \in Nat
      BY <1>0 DEF Slot
    <2>3. slot[w].startedAt + LeaseLength \in Nat
      BY <1>0, <2>2
    <2>4. /\ row.providerTaskId \in ProviderIdOrNull /\ row.downloadDeadlineAt \in Nat
          /\ row.downloadAttempt \in Nat
      BY <1>0 DEF TaskRow
    <2>5. c \in DownloadClaim
      BY <2>2, <2>3, <2>4 DEF DownloadClaim
    <2>6. /\ c.downloadVersion = slot[w].version
          /\ c.leaseUntil = slot[w].startedAt + LeaseLength
          /\ c.downloadAttempt = row.downloadAttempt
      OBVIOUS
    <2> HIDE DEF c
    <2>7. slot[w] \in Slot
      BY <1>0
    <2>8. /\ read \in Slot /\ read.step = "read" /\ read.claim = c
          /\ read.version = slot[w].version
          /\ read.startedAt = slot[w].startedAt
      BY <2>5, <2>7 DEF Slot, DownloadSteps
    <2> HIDE DEF read
    <2>9. /\ slot' \in [Workers -> Slot] /\ slot'[w] = read /\ Others(w)
      BY <1>0, <2>1, <2>8 DEF Others
    <2>10. /\ slot[w].step = "started"
           /\ UNCHANGED <<row, now, queue, found, file, output>>
      BY DEF ReadForClaim
    <2>11. /\ slot[w].startedAt <= now /\ slot[w].version = row.downloadVersion
      BY <1>2, <2>10 DEF DownloadInv, JobsAreRecent, DownloadReadable
    <2>12. TypeOK'
      BY <1>0, <2>9, <2>10 DEF DownloadInv, TypeOK
    <2>13. ClaimsAreRecorded' /\ JobsAreRecent'
      <3>1. JobsAreRecent'
        BY <2>8, <2>9, <2>10, <2>11 DEF DownloadInv, JobsAreRecent, Others
      <3>2. ASSUME NEW v \in Workers, slot'[v].step \notin {"idle", "started"}
            PROVE  /\ slot'[v].claim.downloadVersion = slot'[v].version
                   /\ slot'[v].claim.leaseUntil = slot'[v].startedAt + LeaseLength
                   /\ slot'[v].claim.downloadVersion <= row'.downloadVersion
        <4>1. CASE v = w
          BY <4>1, <2>2, <2>6, <2>8, <2>9, <2>10, <2>11
        <4>2. CASE v # w
          BY <3>2, <4>2, <2>9, <2>10 DEF DownloadInv, ClaimsAreRecorded, Others
        <4> QED  BY <4>1, <4>2
      <3> QED  BY <3>1, <3>2 DEF ClaimsAreRecorded
    <2>14. \A v \in Workers : Claimed(v)' => Claimed(v) /\ slot'[v] = slot[v]
      BY <2>8, <2>9 DEF Claimed, Others
    <2>15. LeaseIsLatest' /\ LeasesAreDistinct' /\ HoldersOrLate'
      BY <2>14, <2>10 DEF DownloadInv, LeaseIsLatest, LeasesAreDistinct, HoldersOrLate,
                          InDownload
    <2>16. OutputIffSucceeded' /\ AttemptsAreBounded' /\ StopsAreClean'
      BY <2>10 DEF DownloadInv, OutputIffSucceeded, AttemptsAreBounded, StopsAreClean
    <2>17. AttemptsAreCounted'
      BY <2>6, <2>8, <2>9, <2>10 DEF DownloadInv, AttemptsAreCounted, InDownload, Others
    <2>18. HeldIsAVideo'
      BY <2>8, <2>9 DEF DownloadInv, HeldIsAVideo, Others
    <2> QED  BY <2>12, <2>13, <2>15, <2>16, <2>17, <2>18 DEF DownloadInv
  <1> QED  BY <1>1, <1>2

\* The compare-and-set that takes the lease: the last one has run out, so every
\* other claim of this version has, too.
LEMMA TakeLeaseKeeps ==
  ASSUME DownloadInv, NEW w \in Workers, TakeLease(w)
  PROVE  DownloadInv'
  <1> DEFINE Free == ClaimDownloadWhere(row, slot[w].claim.providerTaskId, slot[w].version,
                                        slot[w].startedAt)
  <1>0. /\ slot \in [Workers -> Slot] /\ row \in TaskRow /\ LeaseLength \in Nat \ {0}
        /\ queue \subseteq Nat /\ now \in Nat /\ slot[w].step = "read"
        /\ UNCHANGED <<now, queue, found, file, output>>
    BY DownloadAssumption DEF DownloadInv, TypeOK, TakeLease
  <1>1. CASE ~Free
    BY <1>0, <1>1, ReleaseKeeps DEF TakeLease
  <1>2. CASE Free
    <2> DEFINE next == IF slot[w].startedAt >= slot[w].claim.downloadDeadlineAt
                         THEN "expire" ELSE "load"
               lease == slot[w].claim.leaseUntil
    <2>1. row' = ClaimDownload(row, lease) /\ Goto(w, next)
      BY <1>2 DEF TakeLease
    <2>2. next \in DownloadSteps /\ next \in {"expire", "load"}
      BY DEF DownloadSteps
    <2> HIDE DEF next
    <2>3. /\ slot' \in [Workers -> Slot] /\ slot'[w].step \in {"expire", "load"}
          /\ KeepsItsClaim(w) /\ Others(w)
      BY <1>0, <2>1, <2>2, GotoSlot
    <2>4. /\ \A v \in Workers : /\ slot[v].startedAt \in Nat
                                /\ slot[v].claim.leaseUntil \in Nat
          /\ row.downloadLeaseUntil \in Nat
      BY <1>0 DEF Slot, DownloadClaim, TaskRow
    <2>5. /\ lease = slot[w].startedAt + LeaseLength
          /\ slot[w].claim.downloadVersion = slot[w].version
          /\ slot[w].startedAt <= now
      BY <1>0 DEF DownloadInv, ClaimsAreRecorded, JobsAreRecent
    <2>6. /\ row' \in TaskRow /\ SameElsewhere(row', row)
          /\ row'.status = row.status
          /\ row'.downloadPending = row.downloadPending
          /\ row'.nextDownloadAt = row.nextDownloadAt
          /\ row'.downloadLeaseUntil = lease
          /\ row'.downloadVersion = row.downloadVersion
          /\ row'.downloadAttempt = row.downloadAttempt
      BY <1>0, <2>1, <2>4, ClaimDownloadFields
    <2>7. /\ row.status = "PROCESSING" /\ row.downloadPending
          /\ row.providerTaskId = slot[w].claim.providerTaskId
          /\ row.downloadVersion = slot[w].claim.downloadVersion
          /\ row.nextDownloadAt # Never
          /\ row.downloadLeaseUntil <= slot[w].startedAt
      BY <1>2, <2>5 DEF ClaimDownloadWhere, Due
    <2>8. InDownload
      BY <2>7 DEF InDownload
    <2> HIDE DEF lease
    <2>9. /\ row.downloadLeaseUntil < lease /\ row.downloadLeaseUntil <= now
      BY <1>0, <2>4, <2>5, <2>7
    <2>10. \A v \in Workers \ {w} : Claimed(v)' <=> Claimed(v)
      BY <2>3 DEF Others, Claimed
    <2>11. ASSUME NEW v \in Workers \ {w}, Claimed(v),
                  slot[v].claim.downloadVersion = row.downloadVersion
           PROVE  slot[v].claim.leaseUntil < lease
      <3>1. slot[v].claim.leaseUntil <= row.downloadLeaseUntil
        BY <2>8, <2>11 DEF DownloadInv, LeaseIsLatest
      <3> QED  BY <2>4, <2>9, <3>1, <1>0, <2>5
    <2>12. TypeOK'
      BY <1>0, <2>3, <2>6 DEF DownloadInv, TypeOK
    <2>13. ClaimsAreRecorded' /\ JobsAreRecent'
      BY <1>0, <2>3, <2>6 DEF DownloadInv, ClaimsAreRecorded, JobsAreRecent, KeepsItsClaim, Others
    <2>14. slot'[w].claim.leaseUntil = lease
      BY <2>3 DEF KeepsItsClaim, lease
    <2>15. LeaseIsLatest'
      <3>1. ASSUME NEW v \in Workers, Claimed(v)',
                   slot'[v].claim.downloadVersion = row'.downloadVersion
            PROVE  slot'[v].claim.leaseUntil <= row'.downloadLeaseUntil
        <4>1. CASE v = w
          BY <4>1, <1>0, <2>4, <2>5, <2>6, <2>14
        <4>2. CASE v # w
          BY <4>2, <3>1, <1>0, <2>3, <2>4, <2>5, <2>6, <2>10, <2>11 DEF Others
        <4> QED  BY <4>1, <4>2
      <3> QED  BY <3>1 DEF LeaseIsLatest
    <2>16. LeasesAreDistinct'
      <3>1. \A v \in Workers \ {w} :
              /\ Claimed(v)' /\ slot'[v].claim.downloadVersion = slot'[w].claim.downloadVersion
              => slot'[v].claim.leaseUntil # slot'[w].claim.leaseUntil
        BY <1>0, <2>3, <2>4, <2>5, <2>7, <2>10, <2>11, <2>14 DEF Others, KeepsItsClaim
      <3> QED  BY <3>1, <2>3, <2>10 DEF DownloadInv, LeasesAreDistinct, Others
    <2>17. OutputIffSucceeded' /\ AttemptsAreBounded' /\ StopsAreClean'
      BY <1>0, <2>6, <2>7 DEF DownloadInv, OutputIffSucceeded, AttemptsAreBounded, StopsAreClean,
                              SameElsewhere
    <2>18. AttemptsAreCounted'
      BY <1>0, <2>3, <2>6 DEF DownloadInv, AttemptsAreCounted, InDownload, Others, KeepsItsClaim
    <2>19. HeldIsAVideo'
      BY <2>3 DEF DownloadInv, HeldIsAVideo, Others
    <2>20. HoldersOrLate'
      <3>1. DownloadClaimWhere(row', slot'[w].claim)
        BY <2>3, <2>6, <2>7, <2>14 DEF DownloadClaimWhere, SameElsewhere, KeepsItsClaim
      <3>2. ASSUME NEW v \in Workers \ {w}, Claimed(v), slot[v].step # "failed"
            PROVE  slot[v].claim.leaseUntil <= now
        BY <3>2, <2>7, <2>9 DEF DownloadInv, HoldersOrLate, DownloadClaimWhere
      <3> QED  BY <3>1, <3>2, <1>0, <2>3, <2>10 DEF HoldersOrLate, Others
    <2> QED  BY <2>12, <2>13, <2>15, <2>16, <2>17, <2>18, <2>19, <2>20 DEF DownloadInv
  <1> QED  BY <1>1, <1>2

\* stopDownload, and the processor's answer to a claim taken too late.
LEMMA StopKeeps ==
  ASSUME DownloadInv, NEW w \in Workers, Claimed(w), Stop(w),
         UNCHANGED <<now, queue, found, file, output>>
  PROVE  DownloadInv'
  <1>0. slot \in [Workers -> Slot] /\ row \in TaskRow /\ queue \subseteq Nat /\ now \in Nat
        /\ output \in Output
    BY DEF DownloadInv, TypeOK
  <1>1. CASE ~DownloadClaimWhere(row, slot[w].claim)
    BY <1>0, <1>1, ReleaseKeeps DEF Stop
  <1>2. CASE DownloadClaimWhere(row, slot[w].claim)
    <2>1. row' = StopDownload(row) /\ Release(w)
      BY <1>2 DEF Stop
    <2>2. slot' \in [Workers -> Slot] /\ HasNoClaim(w) /\ Others(w)
      BY <1>0, <2>1, ReleaseSlot
    <2>3. /\ row' \in TaskRow /\ SameElsewhere(row', row)
          /\ row'.status = row.status
          /\ row'.nextDownloadAt = Never
          /\ row'.downloadLeaseUntil = Never
          /\ row'.downloadVersion = row.downloadVersion
          /\ row'.downloadAttempt = row.downloadAttempt + 1
      BY <1>0, <2>1, StopDownloadFields
    <2>4. Written
      BY <2>3 DEF Written, InDownload
    <2>5. OutputIffSucceeded'
      BY <1>2, <2>3, TheHolder DEF OutputIffSucceeded, DownloadClaimWhere
    <2> QED  BY <1>0, <1>2, <2>2, <2>3, <2>4, <2>5, RowIsWritten
  <1> QED  BY <1>1, <1>2

\* A step of the download itself: whatever becomes of the file, the row and the
\* output stay.
LEMMA WorkKeeps ==
  ASSUME DownloadInv, NEW w \in Workers, Claimed(w), slot[w].step # "failed",
         slot' \in [Workers -> Slot], KeepsItsClaim(w), Others(w),
         slot'[w].step \in {"recorded", "persist"} => slot'[w].content # "none",
         UNCHANGED <<row, now, queue, found, output>>, file' \in File
  PROVE  DownloadInv'
  <1>1. now' \in Nat /\ now <= now' /\ queue' \subseteq Nat /\ found' \in Nat
    BY DEF DownloadInv, TypeOK
  <1> QED  BY <1>1, SlotMoves DEF StaysFenced

\* loadVideoOutput: only an output that is there is compared with its file.
LEMMA LoadOutputKeeps ==
  ASSUME DownloadInv, NEW w \in Workers, LoadOutput(w)
  PROVE  DownloadInv'
  <1> DEFINE next == IF output = "none" THEN "inspect" ELSE "recorded"
             loaded == [slot[w] EXCEPT !.step = next, !.content = output,
                          !.retryable = slot[w].retryable, !.owner = slot[w].owner]
  <1>0. /\ slot \in [Workers -> Slot] /\ output \in Output /\ file \in File
        /\ slot[w].step = "load" /\ UNCHANGED <<row, now, queue, found, file, output>>
    BY DEF DownloadInv, TypeOK, LoadOutput
  <1>1. slot' = [slot EXCEPT ![w] = loaded]
    BY <1>0 DEF LoadOutput, Slot
  <1>2. next \in DownloadSteps /\ (next = "recorded" => output # "none") /\ next # "persist"
    BY DEF DownloadSteps
  <1>3. slot[w].retryable \in BOOLEAN /\ slot[w].owner \in BOOLEAN
    BY <1>0 DEF Slot
  <1> HIDE DEF next
  <1>4. /\ slot' \in [Workers -> Slot] /\ slot'[w].step = next /\ slot'[w].content = output
        /\ KeepsItsClaim(w) /\ Others(w)
    BY <1>0, <1>1, <1>2, <1>3, MovedSlot
  <1> QED  BY <1>0, <1>2, <1>4, WorkKeeps DEF Claimed

\* inspectRecordedOutput.
LEMMA InspectRecordedKeeps ==
  ASSUME DownloadInv, NEW w \in Workers, InspectRecorded(w)
  PROVE  DownloadInv'
  <1> DEFINE next == IF file = slot[w].content THEN "persist" ELSE "invalidate"
  <1>0. /\ slot \in [Workers -> Slot] /\ file \in File /\ slot[w].step = "recorded"
        /\ Goto(w, next) /\ UNCHANGED <<row, now, queue, found, file, output>>
    BY DEF DownloadInv, TypeOK, InspectRecorded
  <1>1. next \in DownloadSteps
    BY DEF DownloadSteps
  <1> HIDE DEF next
  <1>2. /\ slot' \in [Workers -> Slot] /\ slot'[w].content = slot[w].content
        /\ KeepsItsClaim(w) /\ Others(w)
    BY <1>0, <1>1, GotoSlot
  <1>3. slot[w].content # "none"
    BY <1>0 DEF DownloadInv, HeldIsAVideo
  <1> QED  BY <1>0, <1>2, <1>3, WorkKeeps DEF Claimed

\* invalidateVideoOutput never finds an output to remove: the one who may remove
\* it has not recorded it, and whoever has recorded it has ended the task.
LEMMA InvalidateKeeps ==
  ASSUME DownloadInv, NEW w \in Workers, Invalidate(w)
  PROVE  DownloadInv'
  <1>0. /\ slot \in [Workers -> Slot] /\ file \in File /\ slot[w].step = "invalidate"
        /\ UNCHANGED <<row, now, queue, found, file>>
    BY DEF DownloadInv, TypeOK, Invalidate
  <1>1. ~(DownloadClaimWhere(row, slot[w].claim) /\ output # "none")
    BY <1>0, TheHolder DEF Claimed
  <1>2. UNCHANGED output /\ Goto(w, "inspect")
    BY <1>1 DEF Invalidate
  <1>3. "inspect" \in DownloadSteps
    BY DEF DownloadSteps
  <1>4. /\ slot' \in [Workers -> Slot] /\ slot'[w].step = "inspect"
        /\ KeepsItsClaim(w) /\ Others(w)
    BY <1>0, <1>2, <1>3, GotoSlot
  <1> QED  BY <1>0, <1>2, <1>4, WorkKeeps DEF Claimed

\* inspectExistingFile.
LEMMA InspectFileKeeps ==
  ASSUME DownloadInv, NEW w \in Workers, InspectFile(w)
  PROVE  DownloadInv'
  <1>0. /\ slot \in [Workers -> Slot] /\ file \in File /\ slot[w].step = "inspect"
        /\ UNCHANGED <<row, now, queue, found, file, output>>
    BY DEF DownloadInv, TypeOK, InspectFile
  <1>1. CASE file \in Contents
    <2>1. GotoPersist(w, file) /\ file \in Output /\ file # "none"
      BY <1>1, DownloadAssumption DEF InspectFile, Output
    <2>2. /\ slot' \in [Workers -> Slot] /\ slot'[w].content = file
          /\ KeepsItsClaim(w) /\ Others(w)
      BY <1>0, <2>1, GotoPersistSlot
    <2> QED  BY <1>0, <2>1, <2>2, WorkKeeps DEF Claimed
  <1>2. CASE file \notin Contents
    <2>1. PICK step \in {"delete", "fetch"} : Goto(w, step)
      BY <1>0, <1>2 DEF InspectFile, File
    <2>2. step \in DownloadSteps
      BY DEF DownloadSteps
    <2>3. /\ slot' \in [Workers -> Slot] /\ slot'[w].step = step
          /\ KeepsItsClaim(w) /\ Others(w)
      BY <1>0, <2>1, <2>2, GotoSlot
    <2> QED  BY <1>0, <2>3, WorkKeeps DEF Claimed
  <1> QED  BY <1>1, <1>2

\* The deletions, whether or not the slot still holds the lease.
LEMMA DeleteFileKeeps ==
  ASSUME DownloadInv, NEW w \in Workers, DeleteFile(w)
  PROVE  DownloadInv'
  <1> DEFINE next == IF slot[w].step = "delete" THEN "fetch" ELSE "inspect"
  <1>0. /\ slot \in [Workers -> Slot] /\ file' \in File
        /\ slot[w].step \in {"delete", "deleteInvalid"}
        /\ Goto(w, next) /\ UNCHANGED <<row, now, queue, found, output>>
    BY DEF DownloadInv, TypeOK, DeleteFile, File
  <1>1. next \in DownloadSteps /\ next \in {"fetch", "inspect"}
    BY DEF DownloadSteps
  <1> HIDE DEF next
  <1>2. /\ slot' \in [Workers -> Slot] /\ slot'[w].step = next
        /\ KeepsItsClaim(w) /\ Others(w)
    BY <1>0, <1>1, GotoSlot
  <1> QED  BY <1>0, <1>1, <1>2, WorkKeeps DEF Claimed

\* downloadOutput and putAtomic, whether or not the slot still holds the lease.
LEMMA FetchKeeps ==
  ASSUME DownloadInv, NEW w \in Workers, Fetch(w)
  PROVE  DownloadInv'
  <1>0. /\ slot \in [Workers -> Slot] /\ slot[w].step = "fetch"
        /\ UNCHANGED <<row, now, queue, found, output>>
    BY DEF DownloadInv, TypeOK, Fetch
  <1>1. PICK content \in Contents : file' = content /\ GotoPersist(w, content)
    BY DEF Fetch
  <1>2. content \in Output /\ content \in File /\ content # "none"
    BY DownloadAssumption DEF Output, File
  <1>3. /\ slot' \in [Workers -> Slot] /\ slot'[w].content = content
        /\ KeepsItsClaim(w) /\ Others(w)
    BY <1>0, <1>1, <1>2, GotoPersistSlot
  <1> QED  BY <1>0, <1>1, <1>2, <1>3, WorkKeeps DEF Claimed

\* A step that fails hands its error to handleDownloadError.
LEMMA FetchFailsKeeps ==
  ASSUME DownloadInv, NEW w \in Workers, FetchFails(w)
  PROVE  DownloadInv'
  <1>0. /\ slot \in [Workers -> Slot] /\ file \in File /\ slot[w].step = "fetch"
        /\ UNCHANGED <<row, now, queue, found, output>>
    BY DEF DownloadInv, TypeOK, FetchFails
  <1>1. PICK error \in FetchErrors :
          /\ GotoFailed(w, RetryableFetch(error))
          /\ file' \in IF error = "other" THEN {file} \cup Contents ELSE {file}
    BY DEF FetchFails
  <1>2. RetryableFetch(error) \in BOOLEAN
    BY DEF RetryableFetch, Retryable
  <1>3. file' \in File
    BY <1>0, <1>1 DEF File
  <1>4. /\ slot' \in [Workers -> Slot] /\ slot'[w].step = "failed"
        /\ KeepsItsClaim(w) /\ Others(w)
    BY <1>0, <1>1, <1>2, GotoFailedSlot
  <1> QED  BY <1>0, <1>3, <1>4, WorkKeeps DEF Claimed

LEMMA StepFailsKeeps ==
  ASSUME DownloadInv, NEW w \in Workers, StepFails(w)
  PROVE  DownloadInv'
  <1>0. /\ slot \in [Workers -> Slot] /\ file \in File
        /\ slot[w].step \in {"load", "recorded", "invalidate", "inspect", "persist"}
        /\ GotoFailed(w, TRUE) /\ UNCHANGED <<row, now, queue, found, file, output>>
    BY DEF DownloadInv, TypeOK, StepFails
  <1>1. /\ slot' \in [Workers -> Slot] /\ slot'[w].step = "failed"
        /\ KeepsItsClaim(w) /\ Others(w)
    BY <1>0, GotoFailedSlot
  <1> QED  BY <1>0, <1>1, WorkKeeps DEF Claimed

\* persistVideoOutputAndComplete: what is recorded is a video, and the task ends
\* with it.
LEMMA PersistKeeps ==
  ASSUME DownloadInv, NEW w \in Workers, Persist(w)
  PROVE  DownloadInv'
  <1>0. /\ slot \in [Workers -> Slot] /\ row \in TaskRow /\ now \in Nat /\ file \in File
        /\ slot[w].step = "persist" /\ Claimed(w)
        /\ UNCHANGED <<now, queue, found, file>>
    BY DEF DownloadInv, TypeOK, Persist, Claimed
  <1>1. GotoFailed(w, TRUE) => /\ slot' \in [Workers -> Slot] /\ slot'[w].step = "failed"
                               /\ KeepsItsClaim(w) /\ Others(w)
    BY <1>0, GotoFailedSlot
  <1>2. CASE ~DownloadClaimWhere(row, slot[w].claim)
    <2>1. GotoFailed(w, TRUE) /\ UNCHANGED <<row, output>>
      BY <1>2 DEF Persist
    <2> QED  BY <1>0, <1>1, <2>1, WorkKeeps
  <1>3. CASE DownloadClaimWhere(row, slot[w].claim)
    <2>1. /\ row' = PersistOutputAndComplete(row) /\ output' = slot[w].content
          /\ Release(w) \/ GotoFailed(w, TRUE)
      BY <1>3 DEF Persist
    <2>2. /\ slot' \in [Workers -> Slot] /\ Others(w)
          /\ HasNoClaim(w) \/ (KeepsItsClaim(w) /\ slot'[w].step \in {"schedule", "failed"})
      BY <1>0, <1>1, <2>1, ReleaseSlot
    <2>3. /\ row' \in TaskRow /\ SameElsewhere(row', row)
          /\ row'.status = "SUCCEEDED" /\ row'.downloadPending = FALSE
          /\ row'.nextDownloadAt = Never
          /\ row'.downloadLeaseUntil = Never
          /\ row'.downloadVersion = row.downloadVersion
          /\ row'.downloadAttempt = row.downloadAttempt
          /\ row'.cleanupReady = TRUE
      BY <1>0, <2>1, PersistFields
    <2>4. Written
      BY <2>3 DEF Written, InDownload
    <2>5. output' \in Output /\ output' # "none"
      BY <1>0, <2>1 DEF DownloadInv, HeldIsAVideo, Slot
    <2>6. OutputIffSucceeded'
      BY <2>3, <2>5 DEF OutputIffSucceeded
    <2> QED  BY <1>0, <1>3, <2>2, <2>3, <2>4, <2>5, <2>6, RowIsWritten
  <1> QED  BY <1>2, <1>3

\* handleDownloadError: a retry while attempts are left, or the stop.
LEMMA HandleErrorKeeps ==
  ASSUME DownloadInv, NEW w \in Workers, HandleError(w)
  PROVE  DownloadInv'
  <1>0. /\ slot \in [Workers -> Slot] /\ row \in TaskRow /\ now \in Nat /\ queue \subseteq Nat
        /\ output \in Output /\ slot[w].step = "failed" /\ Claimed(w)
        /\ UNCHANGED <<now, queue, found, file, output>>
    BY DEF DownloadInv, TypeOK, HandleError, Claimed
  <1>1. PICK delay \in Delays :
          \/ Stop(w)
          \/ /\ Retries(w, delay) /\ DownloadClaimWhere(row, slot[w].claim)
             /\ row' = ScheduleDownloadRetry(row, now + delay) /\ Goto(w, "schedule")
          \/ Release(w) /\ UNCHANGED row
    BY DEF HandleError
  <1>2. CASE Stop(w)
    BY <1>0, <1>2, StopKeeps
  <1>3. CASE Release(w) /\ UNCHANGED row
    BY <1>0, <1>3, ReleaseKeeps
  <1>4. CASE /\ Retries(w, delay) /\ DownloadClaimWhere(row, slot[w].claim)
             /\ row' = ScheduleDownloadRetry(row, now + delay) /\ Goto(w, "schedule")
    <2> DEFINE at == now + delay
    <2>1. at \in Nat /\ at # Never
      BY <1>0, DownloadAssumption DEF Never
    <2>2. row' = ScheduleDownloadRetry(row, at)
      BY <1>4
    <2> HIDE DEF at
    <2>3. /\ row' \in TaskRow /\ SameElsewhere(row', row)
          /\ row'.status = row.status
          /\ row'.nextDownloadAt = at
          /\ row'.downloadLeaseUntil = Never
          /\ row'.downloadVersion = row.downloadVersion + 1
          /\ row'.downloadAttempt = row.downloadAttempt + 1
      BY <1>0, <2>1, <2>2, ScheduleDownloadRetryFields
    <2>4. "schedule" \in DownloadSteps
      BY DEF DownloadSteps
    <2>5. /\ slot' \in [Workers -> Slot] /\ slot'[w].step = "schedule"
          /\ KeepsItsClaim(w) /\ Others(w)
      BY <1>0, <1>4, <2>4, GotoSlot
    <2>6. row.downloadAttempt + 1 < MaxAttempts
      BY <1>0, <1>4, TheHolder DEF Retries
    <2>7. Written
      BY <2>3, <2>6 DEF Written
    <2>8. OutputIffSucceeded'
      BY <1>0, <1>4, <2>3, TheHolder DEF OutputIffSucceeded, DownloadClaimWhere
    <2> QED  BY <1>0, <1>4, <2>1, <2>3, <2>5, <2>7, <2>8, RowIsWritten
  <1> QED  BY <1>1, <1>2, <1>3, <1>4

\* The job of the next attempt.
LEMMA ScheduleJobKeeps ==
  ASSUME DownloadInv, NEW w \in Workers, ScheduleJob(w)
  PROVE  DownloadInv'
  <1>1. slot[w].version + 1 \in Nat /\ queue \subseteq Nat
    BY DEF DownloadInv, TypeOK, Slot
  <1> QED  BY <1>1, EnqueuedType, ReleaseKeeps DEF ScheduleJob

\* A process that dies gives its claim up without a write.
LEMMA AbortKeeps ==
  ASSUME DownloadInv, NEW w \in Workers, Abort(w)
  PROVE  DownloadInv'
  <1>1. slot[w].version \in Nat /\ queue \subseteq Nat
    BY DEF DownloadInv, TypeOK, Slot
  <1> QED  BY <1>1, ReleaseKeeps DEF Abort

\* A slot that loses the queue's lock goes on as before.
LEMMA StallKeeps ==
  ASSUME DownloadInv, NEW w \in Workers, Stall(w)
  PROVE  DownloadInv'
  <1>0. /\ slot \in [Workers -> Slot] /\ now \in Nat /\ queue \subseteq Nat /\ found \in Nat
        /\ file \in File
    BY DEF DownloadInv, TypeOK
  <1> DEFINE stalled == [slot[w] EXCEPT !.owner = FALSE]
  <1>1. /\ stalled \in Slot
        /\ stalled.step = slot[w].step /\ stalled.content = slot[w].content
        /\ stalled.version = slot[w].version
        /\ stalled.startedAt = slot[w].startedAt
        /\ stalled.claim = slot[w].claim
    BY <1>0 DEF Slot
  <1>2. slot' = [slot EXCEPT ![w] = stalled]
    BY DEF Stall
  <1> HIDE DEF stalled
  <1>3. slot' \in [Workers -> Slot] /\ slot'[w] = stalled /\ Others(w)
    BY <1>0, <1>1, <1>2 DEF Others
  <1>4. queue' \subseteq Nat /\ UNCHANGED <<row, now, found, file, output>>
    BY <1>0 DEF Stall, Slot
  <1>5. slot[w].startedAt <= now
    BY DEF DownloadInv, JobsAreRecent
  <1>6. StaysFenced(w)
    BY <1>1, <1>3, <1>5 DEF StaysFenced, HasNoClaim, KeepsItsClaim, Claimed
  <1>7. slot'[w].step \in {"recorded", "persist"} => slot'[w].content # "none"
    BY <1>1, <1>3 DEF DownloadInv, HeldIsAVideo
  <1> QED  BY <1>0, <1>3, <1>4, <1>6, <1>7, SlotMoves

-----------------------------------------------------------------------------
(* Everyone else. *)

\* The queue, the coordinator, the clock and the disk touch neither the row nor
\* a slot nor the output.
LEMMA OthersKeep ==
  ASSUME DownloadInv, UNCHANGED <<row, slot, output>>,
         now' \in Nat, now <= now', queue' \subseteq Nat, found' \in Nat, file' \in File
  PROVE  DownloadInv'
  <1>1. now \in Nat /\ \A w \in Workers : /\ slot[w].startedAt \in Nat
                                        /\ slot[w].claim.leaseUntil \in Nat
    BY DEF DownloadInv, TypeOK, Slot, DownloadClaim
  <1>2. TypeOK'
    BY DEF DownloadInv, TypeOK
  <1>3. /\ ClaimsAreRecorded' /\ LeaseIsLatest' /\ LeasesAreDistinct'
        /\ OutputIffSucceeded' /\ AttemptsAreCounted' /\ AttemptsAreBounded'
        /\ StopsAreClean' /\ HeldIsAVideo'
    BY DEF DownloadInv, ClaimsAreRecorded, LeaseIsLatest, LeasesAreDistinct,
           OutputIffSucceeded, AttemptsAreCounted, AttemptsAreBounded, StopsAreClean,
           HeldIsAVideo, Claimed, InDownload
  <1>4. JobsAreRecent'
    BY <1>1 DEF DownloadInv, JobsAreRecent
  <1>5. HoldersOrLate'
    <2> SUFFICES ASSUME row.status \in {"PROCESSING", "SUCCEEDED"}, NEW w \in Workers,
                        Claimed(w), slot[w].step # "failed"
                 PROVE  slot[w].claim.leaseUntil <= now' \/ DownloadClaimWhere(row, slot[w].claim)
      BY DEF HoldersOrLate, Claimed
    <2>1. slot[w].claim.leaseUntil <= now \/ DownloadClaimWhere(row, slot[w].claim)
      BY DEF DownloadInv, HoldersOrLate
    <2> QED  BY <1>1, <2>1
  <1> QED  BY <1>2, <1>3, <1>4, <1>5 DEF DownloadInv

\* A cancelled task has no output, and is no longer downloaded.
LEMMA UserCancelKeeps ==
  ASSUME DownloadInv, UserCancel
  PROVE  DownloadInv'
  <1>0. row \in TaskRow
    BY DEF DownloadInv, TypeOK
  <1>1. /\ row' \in TaskRow /\ SameElsewhere(row', row)
        /\ row'.status = "CANCELLED"
        /\ row'.nextDownloadAt = row.nextDownloadAt
        /\ row'.downloadLeaseUntil = row.downloadLeaseUntil
        /\ row'.downloadVersion = row.downloadVersion
        /\ row'.downloadAttempt = row.downloadAttempt
    BY <1>0, CancelDownloadFields DEF UserCancel
  <1>2. row.status # "SUCCEEDED"
    BY DEF UserCancel, CancelWhere, CancellableStatus
  <1>3. UNCHANGED <<now, queue, found, slot, file, output>>
    BY DEF UserCancel
  <1>4. ~InDownload'
    BY <1>1 DEF InDownload
  <1>5. TypeOK'
    BY <1>1, <1>3 DEF DownloadInv, TypeOK
  <1>6. LeaseIsLatest' /\ AttemptsAreCounted' /\ HoldersOrLate'
    BY <1>1, <1>4 DEF LeaseIsLatest, AttemptsAreCounted, HoldersOrLate
  <1>7. ClaimsAreRecorded' /\ JobsAreRecent' /\ LeasesAreDistinct' /\ HeldIsAVideo'
    BY <1>1, <1>3 DEF DownloadInv, ClaimsAreRecorded, JobsAreRecent, LeasesAreDistinct,
                      HeldIsAVideo, Claimed
  <1>8. OutputIffSucceeded' /\ AttemptsAreBounded' /\ StopsAreClean'
    BY <1>1, <1>2, <1>3 DEF DownloadInv, OutputIffSucceeded, AttemptsAreBounded,
                            StopsAreClean, SameElsewhere
  <1> QED  BY <1>5, <1>6, <1>7, <1>8 DEF DownloadInv

-----------------------------------------------------------------------------
(* The invariant. *)

LEMMA InitHolds == Init => DownloadInv
  <1> SUFFICES ASSUME Init PROVE DownloadInv
    OBVIOUS
  <1> DEFINE deadline == 1 + MaxDuration
  <1>1. deadline \in Nat /\ deadline # Never /\ 1 \in Nat
    BY DownloadAssumption DEF Never
  <1>2. PICK id \in ProviderTaskIds :
          row = MarkDownloadPending(AcceptSubmission(ClaimSubmission(QueuedRow), id, 1, deadline),
                                    1, deadline)
    BY DEF Init
  <1> HIDE DEF deadline
  <1>3. /\ row \in TaskRow /\ row.status = "PROCESSING"
        /\ row.downloadDeadlineAt = deadline /\ row.downloadLeaseUntil = Never
        /\ row.downloadVersion = 1 /\ row.downloadAttempt = 0
    BY <1>1, <1>2, PendingFields
  <1>4. /\ now = 1 /\ queue \in {{}, {1}} /\ found = 0 /\ file = "absent" /\ output = "none"
        /\ slot = [w \in Workers |-> IdleSlot]
    BY DEF Init
  <1> HIDE DEF IdleSlot, Slot
  <1>5. /\ slot \in [Workers -> Slot]
        /\ \A w \in Workers : slot[w].step = "idle" /\ slot[w].startedAt = 0
    BY <1>4, IdleSlotType
  <1>6. TypeOK
    BY <1>3, <1>4, <1>5 DEF TypeOK, File, Output
  <1>7. /\ ClaimsAreRecorded /\ LeaseIsLatest /\ LeasesAreDistinct /\ HeldIsAVideo
        /\ HoldersOrLate
    BY <1>5 DEF ClaimsAreRecorded, LeaseIsLatest, LeasesAreDistinct, HeldIsAVideo,
                HoldersOrLate, Claimed
  <1>8. JobsAreRecent
    BY <1>4, <1>5 DEF JobsAreRecent
  <1>9. AttemptsAreCounted /\ AttemptsAreBounded
    BY <1>3, <1>5, DownloadAssumption DEF AttemptsAreCounted, AttemptsAreBounded
  <1>10. OutputIffSucceeded /\ StopsAreClean
    BY <1>1, <1>3, <1>4 DEF OutputIffSucceeded, StopsAreClean
  <1> QED  BY <1>6, <1>7, <1>8, <1>9, <1>10 DEF DownloadInv

LEMMA StepKeeps == DownloadInv /\ [Next]_vars => DownloadInv'
  <1> SUFFICES ASSUME DownloadInv, [Next]_vars PROVE DownloadInv'
    OBVIOUS
  <1>0. /\ now \in Nat /\ queue \subseteq Nat /\ found \in Nat /\ file \in File
        /\ row.downloadVersion \in Nat
    BY DEF DownloadInv, TypeOK, TaskRow
  <1>1. ASSUME NEW w \in Workers, Advance(w) PROVE DownloadInv'
    <2>1. CASE ReadForClaim(w)     BY <2>1, ReadForClaimKeeps
    <2>2. CASE TakeLease(w)        BY <2>2, TakeLeaseKeeps
    <2>3. CASE ExpireAtStart(w)    BY <2>3, StopKeeps DEF ExpireAtStart, Claimed
    <2>4. CASE LoadOutput(w)       BY <2>4, LoadOutputKeeps
    <2>5. CASE InspectRecorded(w)  BY <2>5, InspectRecordedKeeps
    <2>6. CASE Invalidate(w)       BY <2>6, InvalidateKeeps
    <2>7. CASE InspectFile(w)      BY <2>7, InspectFileKeeps
    <2>8. CASE DeleteFile(w)       BY <2>8, DeleteFileKeeps
    <2>9. CASE Fetch(w)            BY <2>9, FetchKeeps
    <2>10. CASE FetchFails(w)      BY <2>10, FetchFailsKeeps
    <2>11. CASE StepFails(w)       BY <2>11, StepFailsKeeps
    <2>12. CASE Persist(w)         BY <2>12, PersistKeeps
    <2>13. CASE HandleError(w)     BY <2>13, HandleErrorKeeps
    <2>14. CASE ScheduleJob(w)     BY <2>14, ScheduleJobKeeps
    <2> QED  BY <1>1, <2>1, <2>2, <2>3, <2>4, <2>5, <2>6, <2>7, <2>8, <2>9, <2>10,
                <2>11, <2>12, <2>13, <2>14 DEF Advance
  <1>2. ASSUME NEW w \in Workers, Deliver(w) \/ Abort(w) \/ Stall(w) PROVE DownloadInv'
    BY <1>2, DeliverKeeps, AbortKeeps, StallKeeps
  <1>3. CASE LoseJob
    BY <1>0, <1>3, OthersKeep DEF LoseJob
  <1>4. CASE SpoilFile
    BY <1>0, <1>4, OthersKeep DEF SpoilFile, File
  <1>5. CASE FindPending
    BY <1>0, <1>5, OthersKeep DEF FindPending
  <1>6. CASE EnqueueFound
    BY <1>0, <1>6, EnqueuedType, OthersKeep DEF EnqueueFound
  <1>7. CASE UserCancel
    BY <1>7, UserCancelKeeps
  <1>8. CASE Tick
    BY <1>0, <1>8, OthersKeep DEF Tick
  <1>9. CASE UNCHANGED vars
    BY <1>0, <1>9, OthersKeep DEF vars
  <1> QED  BY <1>1, <1>2, <1>3, <1>4, <1>5, <1>6, <1>7, <1>8, <1>9 DEF Next

\* The claims outstanding, the row they compete for and the recorded output stay
\* in the relation DownloadInv describes, in every execution of the download
\* processor, the coordinator, the queue and the cancel route.
THEOREM DownloadInvariant == Spec => []DownloadInv
  BY InitHolds, StepKeeps, PTL DEF Spec

-----------------------------------------------------------------------------
(* What follows from it. *)

\* claimDownload and downloadClaimWhere fence the slots off each other: no two
\* outstanding claims match the row.
THEOREM OneClaimIsValid == Spec => []OneValidClaim
  <1>1. DownloadInv => OneValidClaim
    BY TheHolder DEF OneValidClaim
  <1> QED  BY <1>1, DownloadInvariant, PTL

\* However jobs are lost, repeated or overtaken, handleDownloadError counts every
\* retry: a task is tried at most maxAttempts times.
THEOREM AttemptsStayBounded == Spec => []AttemptsAreBounded
  <1>1. DownloadInv => AttemptsAreBounded
    BY DEF DownloadInv
  <1> QED  BY <1>1, DownloadInvariant, PTL

\* Whatever findPendingDownloads returns, claimDownload accepts at that moment.
THEOREM PendingDownloadsAreClaimable == Spec => []PendingIsClaimable
  <1>1. DownloadInv => PendingIsClaimable
    BY DEF DownloadInv, StopsAreClean, PendingIsClaimable, PendingDownload,
           DownloadReadable, ClaimDownloadWhere
  <1> QED  BY <1>1, DownloadInvariant, PTL

\* Who changes a file that is to be recorded, or is recorded: the disk, or a
\* slot that works on the file and has outlived its lease.
LEMMA FileChanges ==
  ASSUME DownloadInv, Next, Settled, file' # file, ~SpoilFile
  PROVE  \E w \in Workers : /\ slot'[w] # slot[w] /\ slot[w].step # "failed"
                            /\ Claimed(w) /\ slot[w].claim.leaseUntil <= now
  <1>1. PICK w \in Workers : DeleteFile(w) \/ Fetch(w) \/ FetchFails(w)
    BY DEF Next, Advance, Deliver, ReadForClaim, TakeLease, ExpireAtStart, LoadOutput,
           InspectRecorded, Invalidate, InspectFile, StepFails, Persist, HandleError,
           ScheduleJob, Abort, Stall, LoseJob, FindPending, EnqueueFound, UserCancel, Tick
  <1>2. /\ slot[w].step \in {"delete", "deleteInvalid", "fetch"} /\ Claimed(w)
        /\ slot \in [Workers -> Slot]
    BY <1>1 DEF DeleteFile, Fetch, FetchFails, Claimed, DownloadInv, TypeOK
  <1>3. slot'[w].step # slot[w].step
    BY <1>1, <1>2 DEF DeleteFile, Fetch, FetchFails, Goto, GotoPersist, GotoFailed, Slot
  <1>4. row.status \in {"PROCESSING", "SUCCEEDED"}
    BY DEF Settled, DownloadClaimWhere
  <1>5. ~DownloadClaimWhere(row, slot[w].claim)
    <2> SUFFICES ASSUME DownloadClaimWhere(row, slot[w].claim) PROVE FALSE
      OBVIOUS
    <2>1. PICK v \in Workers : slot[v].step = "persist" /\ DownloadClaimWhere(row, slot[v].claim)
      BY DEF Settled, DownloadClaimWhere
    <2>2. v # w /\ Claimed(v)
      BY <1>2, <2>1 DEF Claimed
    <2> QED  BY <1>2, <2>1, <2>2, TheHolder
  <1>6. slot[w].claim.leaseUntil <= now
    BY <1>2, <1>4, <1>5 DEF DownloadInv, HoldersOrLate
  <1> QED  BY <1>2, <1>3, <1>6

\* Once the holder of the lease has the file it will record, and after the task
\* has succeeded, a slot that changes the file has outlived its own lease.
THEOREM LeaseKeepsTheFile == Spec => KeptByTheLease
  <1> DEFINE Kept == Settled /\ file' # file =>
               \/ SpoilFile
               \/ \E w \in Workers : /\ slot'[w] # slot[w]
                                     /\ Claimed(w) /\ slot[w].claim.leaseUntil <= now
  <1>1. DownloadInv /\ Next => Kept
    BY FileChanges
  <1>2. DownloadInv /\ [Next]_vars => [Kept]_vars
    BY <1>1, Zenon
  <1> QED  BY <1>2, DownloadInvariant, PTL DEF Spec, KeptByTheLease

\* The steps that write one of the columns TaskLifecycle is about.
LEMMA RowWrites ==
  ASSUME DownloadInv, Next
  PROVE  \/ UNCHANGED <<row.status, row.providerTaskId, row.cleanupReady>>
         \/ /\ CancelWhere(row) /\ row'.status = "CANCELLED"
            /\ UNCHANGED <<row.providerTaskId, row.cleanupReady>>
         \/ \E w \in Workers :
              /\ Persist(w) /\ DownloadClaimWhere(row, slot[w].claim)
              /\ row'.status = "SUCCEEDED" /\ row'.providerTaskId = row.providerTaskId
              /\ row'.cleanupReady = TRUE
  <1> DEFINE Same == UNCHANGED <<row.status, row.providerTaskId, row.cleanupReady>>
  <1>0. row \in TaskRow /\ slot \in [Workers -> Slot] /\ now \in Nat
    BY DEF DownloadInv, TypeOK
  <1>1. CASE UserCancel
    <2>1. row' = CancelTask(row) /\ CancelWhere(row)
      BY <1>1 DEF UserCancel
    <2> QED  BY <1>0, <2>1, CancelDownloadFields DEF SameElsewhere
  <1>2. ASSUME NEW w \in Workers, row' = ClaimDownload(row, slot[w].claim.leaseUntil)
        PROVE  Same
    <2>1. slot[w].claim.leaseUntil \in Nat
      BY <1>0 DEF Slot, DownloadClaim
    <2> QED  BY <1>0, <1>2, <2>1, ClaimDownloadFields DEF SameElsewhere
  <1>3. ASSUME NEW w \in Workers, Stop(w)
        PROVE  Same
    BY <1>0, <1>3, StopDownloadFields DEF Stop, SameElsewhere
  <1>4. ASSUME NEW delay \in Delays, row' = ScheduleDownloadRetry(row, now + delay)
        PROVE  Same
    <2>1. now + delay \in Nat
      BY <1>0, DownloadAssumption
    <2> QED  BY <1>0, <1>4, <2>1, ScheduleDownloadRetryFields DEF SameElsewhere
  <1>5. ASSUME NEW w \in Workers, Persist(w), DownloadClaimWhere(row, slot[w].claim)
        PROVE  /\ row'.status = "SUCCEEDED" /\ row'.providerTaskId = row.providerTaskId
               /\ row'.cleanupReady = TRUE
    <2>1. row' = PersistOutputAndComplete(row)
      BY <1>5 DEF Persist
    <2> QED  BY <1>0, <2>1, PersistFields DEF SameElsewhere
  <1>6. ASSUME NEW w \in Workers, Advance(w)
        PROVE  Same \/ (Persist(w) /\ DownloadClaimWhere(row, slot[w].claim))
    <2>1. CASE TakeLease(w)      BY <1>2, <2>1 DEF TakeLease
    <2>2. CASE ExpireAtStart(w)  BY <1>3, <2>2 DEF ExpireAtStart
    <2>3. CASE Persist(w)        BY <2>3 DEF Persist
    <2>4. CASE HandleError(w)    BY <1>3, <1>4, <2>4 DEF HandleError
    <2> QED  BY <1>6, <2>1, <2>2, <2>3, <2>4
             DEF Advance, ReadForClaim, LoadOutput, InspectRecorded, Invalidate, InspectFile,
                 DeleteFile, Fetch, FetchFails, StepFails, ScheduleJob
  <1> QED  BY <1>1, <1>5, <1>6 DEF Next, Deliver, Abort, Stall, LoseJob, SpoilFile,
                                   FindPending, EnqueueFound, Tick

\* Downloading moves the status, the Provider's identifier and the cleanup gate
\* only along the steps of TaskLifecycle.
THEOREM FollowsLifecycle == Spec => LifecycleSteps
  <1>1. ASSUME DownloadInv, Next
        PROVE  \/ Lifecycle!Next
               \/ UNCHANGED <<row.status, row.providerTaskId, row.cleanupReady>>
    BY <1>1, RowWrites
       DEF CancelWhere, CancellableStatus, DownloadClaimWhere, Lifecycle!Cancel,
           Lifecycle!Finish, Lifecycle!Final, Lifecycle!Next
  <1>2. DownloadInv /\ [Next]_vars =>
          [Lifecycle!Next]_<<row.status, row.providerTaskId, row.cleanupReady>>
    BY <1>1 DEF vars
  <1> QED  BY <1>2, DownloadInvariant, PTL DEF Spec, LifecycleSteps

-----------------------------------------------------------------------------
(* What the lease is for. *)

\* Whoever works on the file is done before its lease ends.
Punctual ==
  \A w \in Workers :
    Claimed(w) /\ slot[w].step # "failed" => now < slot[w].claim.leaseUntil

\* What the holder of the lease is about to record is what is stored.
RecordsTheFile ==
  \A w \in Workers :
    slot[w].step = "persist" /\ DownloadClaimWhere(row, slot[w].claim)
      => file = slot[w].content

\* A slot that comes to record a video has it in place.
LEMMA PersistArrives ==
  ASSUME DownloadInv, Next, NEW w \in Workers, slot'[w].step = "persist"
  PROVE  \/ /\ slot[w].step = "persist"
            /\ slot'[w].claim = slot[w].claim /\ slot'[w].content = slot[w].content
         \/ file' = slot'[w].content
  <1> DEFINE Stays == /\ slot[w].step = "persist" /\ slot'[w].claim = slot[w].claim
                      /\ slot'[w].content = slot[w].content
  <1>0. slot \in [Workers -> Slot]
    BY DEF DownloadInv, TypeOK
  <1>1. CASE UNCHANGED slot
    BY <1>1
  <1>2. ASSUME NEW v \in Workers, Release(v) PROVE Stays
    BY <1>0, <1>2 DEF Release, IdleSlot
  <1>3. ASSUME NEW v \in Workers, NEW step \in DownloadSteps \ {"persist"}, Goto(v, step)
        PROVE  Stays
    BY <1>0, <1>3 DEF Goto, Slot
  <1>4. ASSUME NEW v \in Workers, NEW retryable \in BOOLEAN, GotoFailed(v, retryable)
        PROVE  Stays
    BY <1>0, <1>4 DEF GotoFailed, Slot
  <1>5. ASSUME NEW v \in Workers, NEW content \in Contents, GotoPersist(v, content),
               file' = content
        PROVE  Stays \/ file' = slot'[w].content
    BY <1>0, <1>5 DEF GotoPersist, Slot
  <1>6. ASSUME NEW v \in Workers,
               \/ Deliver(v) \/ ReadForClaim(v) \/ LoadOutput(v) \/ Stall(v)
        PROVE  Stays
    <2>1. CASE Deliver(v)       BY <1>0, <2>1 DEF Deliver, IdleSlot, Slot
    <2>2. CASE ReadForClaim(v)  BY <1>0, <1>2, <2>2 DEF ReadForClaim, Slot
    <2>3. CASE LoadOutput(v)    BY <1>0, <2>3 DEF LoadOutput, Slot
    <2>4. CASE Stall(v)         BY <1>0, <2>4 DEF Stall, Slot
    <2> QED  BY <1>6, <2>1, <2>2, <2>3, <2>4
  <1>7. ASSUME NEW v \in Workers, InspectRecorded(v)
        PROVE  Stays \/ file' = slot'[w].content
    BY <1>0, <1>7 DEF InspectRecorded, Goto, Slot
  <1>8. ASSUME NEW v \in Workers, InspectFile(v) \/ Fetch(v)
        PROVE  Stays \/ file' = slot'[w].content
    BY <1>3, <1>5, <1>8 DEF InspectFile, Fetch, DownloadSteps, DownloadInv, TypeOK, File
  <1>9. ASSUME NEW v \in Workers, FetchFails(v) \/ StepFails(v) \/ Persist(v)
        PROVE  Stays
    <2>1. \A error : RetryableFetch(error) \in BOOLEAN
      BY DEF RetryableFetch, Retryable
    <2> QED  BY <1>2, <1>4, <1>9, <2>1 DEF FetchFails, StepFails, Persist
  <1>10. ASSUME NEW v \in Workers,
                \/ TakeLease(v) \/ ExpireAtStart(v) \/ Invalidate(v) \/ DeleteFile(v)
                \/ HandleError(v) \/ ScheduleJob(v) \/ Abort(v)
         PROVE  Stays
    BY <1>2, <1>3, <1>10 DEF TakeLease, ExpireAtStart, Invalidate, DeleteFile, HandleError,
                             ScheduleJob, Abort, Stop, DownloadSteps
  <1> QED  BY <1>1, <1>6, <1>7, <1>8, <1>9, <1>10
           DEF Next, Advance, LoseJob, SpoilFile, FindPending, EnqueueFound, UserCancel, Tick

LEMMA ServableKept ==
  ASSUME "SUCCEEDED" \notin SpoilsIn,
         DownloadInv, Punctual, SucceededIsServable, RecordsTheFile, [Next]_vars
  PROVE  SucceededIsServable' /\ RecordsTheFile'
  <1>0. CASE UNCHANGED vars
    BY <1>0 DEF vars, SucceededIsServable, RecordsTheFile, DownloadClaimWhere
  <1> SUFFICES ASSUME Next PROVE SucceededIsServable' /\ RecordsTheFile'
    BY <1>0
  <1>1. slot \in [Workers -> Slot] /\ now \in Nat
    BY DEF DownloadInv, TypeOK
  <1>2. Settled => file' = file
    <2> SUFFICES ASSUME Settled, file' # file PROVE FALSE
      OBVIOUS
    <2>1. ~SpoilFile
      BY DEF Settled, SpoilFile
    <2>2. PICK w \in Workers : /\ slot[w].step # "failed" /\ Claimed(w)
                               /\ slot[w].claim.leaseUntil <= now
      BY <2>1, FileChanges
    <2>3. slot[w].claim.leaseUntil \in Nat
      BY <1>1 DEF Slot, DownloadClaim
    <2> QED  BY <1>1, <2>2, <2>3 DEF Punctual
  <1>3. row.status = "SUCCEEDED" => output' = output
    BY DEF Next, Advance, Deliver, ReadForClaim, TakeLease, ExpireAtStart, LoadOutput,
           InspectRecorded, Invalidate, InspectFile, DeleteFile, Fetch, FetchFails,
           StepFails, Persist, HandleError, ScheduleJob, Abort, Stall, LoseJob,
           SpoilFile, FindPending, EnqueueFound, UserCancel, Tick, DownloadClaimWhere
  <1>4. SucceededIsServable'
    <2> SUFFICES ASSUME row'.status = "SUCCEEDED" PROVE file' = output'
      BY DEF SucceededIsServable
    <2>1. CASE row.status = "SUCCEEDED"
      BY <1>2, <1>3, <2>1 DEF Settled, SucceededIsServable
    <2>2. CASE row.status # "SUCCEEDED"
      <3>1. PICK w \in Workers : Persist(w) /\ DownloadClaimWhere(row, slot[w].claim)
        BY <2>2, RowWrites
      <3> QED  BY <3>1 DEF Persist, RecordsTheFile
    <2> QED  BY <2>1, <2>2
  <1>5. RecordsTheFile'
    <2> SUFFICES ASSUME NEW w \in Workers, slot'[w].step = "persist",
                        DownloadClaimWhere(row', slot'[w].claim)
                 PROVE  file' = slot'[w].content
      BY DEF RecordsTheFile
    <2>1. CASE slot[w].step = "persist" /\ slot'[w].claim = slot[w].claim
                 /\ slot'[w].content = slot[w].content
      <3>1. row.status = "PROCESSING"
        BY RowWrites DEF DownloadClaimWhere
      <3>2. Claimed(w) /\ slot[w].step # "failed" /\ slot[w].claim.leaseUntil \in Nat
        BY <1>1, <2>1 DEF Claimed, Slot, DownloadClaim
      <3>3. DownloadClaimWhere(row, slot[w].claim)
        BY <1>1, <3>1, <3>2 DEF DownloadInv, HoldersOrLate, Punctual
      <3>4. file' = file
        BY <1>2, <2>1, <3>3 DEF Settled
      <3> QED  BY <2>1, <3>3, <3>4 DEF RecordsTheFile
    <2> QED  BY <2>1, PersistArrives
  <1> QED  BY <1>4, <1>5

\* The video of a task that has succeeded stays the recorded one, whatever is
\* redelivered, retried or taken over, as long as no job works on the file after
\* its lease has ended and the disk keeps what was recorded.
THEOREM PunctualSlotsServe ==
  ASSUME "SUCCEEDED" \notin SpoilsIn
  PROVE  Spec /\ []Punctual => []SucceededIsServable
  <1>1. Init => SucceededIsServable /\ RecordsTheFile
    <2> SUFFICES ASSUME Init PROVE SucceededIsServable /\ RecordsTheFile
      OBVIOUS
    <2>1. DownloadInv
      BY InitHolds
    <2>2. row.status # "SUCCEEDED"
      BY <2>1 DEF Init, DownloadInv, OutputIffSucceeded
    <2> QED  BY <2>2 DEF Init, SucceededIsServable, RecordsTheFile, IdleSlot
  <1>2. DownloadInv /\ Punctual /\ (SucceededIsServable /\ RecordsTheFile) /\ [Next]_vars
          => (SucceededIsServable /\ RecordsTheFile)'
    BY ServableKept
  <1> QED  BY <1>1, <1>2, DownloadInvariant, PTL DEF Spec
=============
