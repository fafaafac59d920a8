--------------------------- MODULE Polling_proofs ---------------------------
(***************************************************************************)
(* Proofs about Polling, for every set of slots, lease length, set of      *)
(* delays, deadline and bound.  PollingInv is inductive; the properties of *)
(* the module that TLC checks on two slots follow from it.                 *)
(*                                                                         *)
(* Every slot step is of one of three kinds, and a lemma settles each:     *)
(*   QuietSlot    the slot gives its claim up (or had none); no row change *)
(*   MovedSlot    the slot moves on with its claim; no row change          *)
(*   WrittenRow   the slot's claim matched, and its result was written     *)
(***************************************************************************)
EXTENDS Polling, TLAPS

-----------------------------------------------------------------------------
(* What each update of the row does, field by field: the updated row is well *)
(* formed, and no column but the ones the write names changes.  The proofs   *)
(* below cite these lemmas and leave the updates themselves unexpanded.      *)

\* A claim writes the lease and nothing else.
LEMMA ClaimPollFields ==
  ASSUME NEW r \in TaskRow, NEW leaseUntil \in Nat
  PROVE  LET new == ClaimPoll(r, leaseUntil)
         IN  /\ new \in TaskRow
             /\ new.status = r.status
             /\ new.providerTaskId = r.providerTaskId
             /\ new.nextPollAt = r.nextPollAt
             /\ new.pollDeadlineAt = r.pollDeadlineAt
             /\ new.pollLeaseUntil = leaseUntil
             /\ new.pollVersion = r.pollVersion
             /\ new.downloadPending = r.downloadPending
             /\ new.cleanupReady = r.cleanupReady
  BY DEF ClaimPoll, TaskRow, TaskStatus, FinalStatus, Never

\* The next poll gets the next version, and no lease.
LEMMA ScheduleNextPollFields ==
  ASSUME NEW r \in TaskRow, NEW nextPollAt \in Nat
  PROVE  LET new == ScheduleNextPoll(r, nextPollAt)
         IN  /\ new \in TaskRow
             /\ new.status = r.status
             /\ new.providerTaskId = r.providerTaskId
             /\ new.nextPollAt = nextPollAt
             /\ new.pollDeadlineAt = r.pollDeadlineAt
             /\ new.pollLeaseUntil = Never
             /\ new.pollVersion = r.pollVersion + 1
             /\ new.downloadPending = r.downloadPending
             /\ new.cleanupReady = r.cleanupReady
  <1>1. r.pollVersion \in Nat
    BY DEF TaskRow
  <1>2. r.pollVersion + 1 \in Nat
    BY <1>1
  <1>3. ASSUME NEW v \in Nat, NEW new,
               new = [r EXCEPT !.pollVersion = v, !.nextPollAt = nextPollAt,
                                 !.pollLeaseUntil = Never]
        PROVE  /\ new \in TaskRow
               /\ new.status = r.status
               /\ new.providerTaskId = r.providerTaskId
               /\ new.nextPollAt = nextPollAt
               /\ new.pollDeadlineAt = r.pollDeadlineAt
               /\ new.pollLeaseUntil = Never
               /\ new.pollVersion = v
               /\ new.downloadPending = r.downloadPending
               /\ new.cleanupReady = r.cleanupReady
    BY <1>3 DEF TaskRow, Never
  <1> QED  BY <1>2, <1>3, Zenon DEF ScheduleNextPoll

\* The output is ready: polling is over, the status stays.
LEMMA MarkDownloadPendingFields ==
  ASSUME NEW r \in TaskRow, NEW time \in Nat, NEW deadline \in Nat
  PROVE  LET new == MarkDownloadPending(r, time, deadline)
         IN  /\ new \in TaskRow
             /\ new.status = r.status
             /\ new.providerTaskId = r.providerTaskId
             /\ new.nextPollAt = Never
             /\ new.pollDeadlineAt = r.pollDeadlineAt
             /\ new.pollLeaseUntil = Never
             /\ new.pollVersion = r.pollVersion
             /\ new.downloadPending = TRUE
             /\ new.cleanupReady = r.cleanupReady
  BY DEF MarkDownloadPending, TaskRow, TaskStatus, FinalStatus, Never

\* The Provider ended the task: the object is released with the same write.
LEMMA MarkProviderEndedFields ==
  ASSUME NEW r \in TaskRow, NEW status \in FinalStatus
  PROVE  LET new == MarkProviderEnded(r, status)
         IN  /\ new \in TaskRow
             /\ new.status = status
             /\ new.providerTaskId = r.providerTaskId
             /\ new.nextPollAt = Never
             /\ new.pollDeadlineAt = r.pollDeadlineAt
             /\ new.pollLeaseUntil = Never
             /\ new.pollVersion = r.pollVersion
             /\ new.downloadPending = r.downloadPending
             /\ new.cleanupReady = TRUE
  BY DEF MarkProviderEnded, TaskRow, TaskStatus, FinalStatus, Never

\* Polling stops; the task stays where it is.
LEMMA StopPollingFields ==
  ASSUME NEW r \in TaskRow
  PROVE  LET new == StopPollingForManualReview(r)
         IN  /\ new \in TaskRow
             /\ new.status = r.status
             /\ new.providerTaskId = r.providerTaskId
             /\ new.nextPollAt = Never
             /\ new.pollDeadlineAt = r.pollDeadlineAt
             /\ new.pollLeaseUntil = Never
             /\ new.pollVersion = r.pollVersion
             /\ new.downloadPending = r.downloadPending
             /\ new.cleanupReady = r.cleanupReady
  BY DEF StopPollingForManualReview, TaskRow, TaskStatus, FinalStatus, Never

\* The local deadline passed: the object is kept.
LEMMA ExpireLocalPollFields ==
  ASSUME NEW r \in TaskRow
  PROVE  LET new == ExpireLocalPoll(r)
         IN  /\ new \in TaskRow
             /\ new.status = "RECONCILIATION_REQUIRED"
             /\ new.providerTaskId = r.providerTaskId
             /\ new.nextPollAt = Never
             /\ new.pollDeadlineAt = r.pollDeadlineAt
             /\ new.pollLeaseUntil = Never
             /\ new.pollVersion = r.pollVersion
             /\ new.downloadPending = r.downloadPending
             /\ new.cleanupReady = FALSE
  BY DEF ExpireLocalPoll, TaskRow, TaskStatus, FinalStatus, Never

\* Cancelling writes the status alone.
LEMMA CancelTaskFields ==
  ASSUME NEW r \in TaskRow
  PROVE  LET new == CancelTask(r)
         IN  /\ new \in TaskRow
             /\ new.status = "CANCELLED"
             /\ new.providerTaskId = r.providerTaskId
             /\ new.nextPollAt = r.nextPollAt
             /\ new.pollDeadlineAt = r.pollDeadlineAt
             /\ new.pollLeaseUntil = r.pollLeaseUntil
             /\ new.pollVersion = r.pollVersion
             /\ new.downloadPending = r.downloadPending
             /\ new.cleanupReady = r.cleanupReady
  BY DEF CancelTask, TaskRow, TaskStatus, FinalStatus, Never

-----------------------------------------------------------------------------
(* Slots. *)

\* The slot after the step that ends a job.
LEMMA ReleaseSlot ==
  ASSUME NEW w \in Workers, slot \in [Workers -> Slot], Release(w)
  PROVE  /\ slot' \in [Workers -> Slot]
         /\ slot'[w].step = "idle"
         /\ ~slot'[w].owner
         /\ \A v \in Workers \ {w} : slot'[v] = slot[v]
  <1>1. IdleSlot \in Slot
    BY DEF IdleSlot, Slot, PollSteps, PollClaim, NoPollClaim, Answer, Never,
           ProviderIdOrNull
  <1>2. IdleSlot.step = "idle" /\ ~IdleSlot.owner
    BY DEF IdleSlot
  <1> HIDE DEF IdleSlot, Slot
  <1> QED  BY <1>1, <1>2 DEF Release

\* The slot after a step that moves its job to another await.
LEMMA GotoSlot ==
  ASSUME NEW w \in Workers, slot \in [Workers -> Slot],
         NEW step \in PollSteps, Goto(w, step)
  PROVE  /\ slot' \in [Workers -> Slot]
         /\ slot'[w].step = step
         /\ slot'[w].version = slot[w].version
         /\ slot'[w].startedAt = slot[w].startedAt
         /\ slot'[w].claim = slot[w].claim
         /\ slot'[w].answer = slot[w].answer
         /\ \A v \in Workers \ {w} : slot'[v] = slot[v]
  <1>1. [slot[w] EXCEPT !.step = step] \in Slot
    BY DEF Slot
  <1>2. slot' = [slot EXCEPT ![w] = [slot[w] EXCEPT !.step = step]]
    BY DEF Goto
  <1>3. slot'[w] = [slot[w] EXCEPT !.step = step]
    BY <1>2
  <1>4. /\ slot' \in [Workers -> Slot]
        /\ \A v \in Workers \ {w} : slot'[v] = slot[v]
    BY <1>1, <1>2
  <1>5. slot[w] \in Slot
    OBVIOUS
  <1> QED  BY <1>3, <1>4, <1>5 DEF Slot

\* Enqueueing adds at most the version asked for.
LEMMA EnqueuedType ==
  ASSUME queue \subseteq Nat, NEW v \in Nat
  PROVE  Enqueued(v) \subseteq Nat
  BY DEF Enqueued

-----------------------------------------------------------------------------
(* The three kinds of slot steps. *)

\* No other slot moves.
Others(w) == \A v \in Workers \ {w} : slot'[v] = slot[v]

\* The slot has no claim afterwards and nothing was written.
LEMMA QuietSlot ==
  ASSUME PollingInv, NEW w \in Workers, Others(w),
         slot' \in [Workers -> Slot], slot'[w].step \in {"idle", "started"},
         UNCHANGED <<row, remote, usage>>,
         now' \in Nat, queue' \subseteq Nat, found' \in Nat
  PROVE  PollingInv'
  <1> USE DEF PollingInv, Others
  <1>1. TypeOK'
    BY DEF TypeOK
  <1>2. ClaimsAreRecorded'
    BY DEF ClaimsAreRecorded
  <1>3. LeaseIsLatest'
    BY DEF LeaseIsLatest, Claimed, InPolling
  <1>4. LeasesAreDistinct'
    BY DEF LeasesAreDistinct, Claimed
  <1>5. RowIsPolled' /\ UsageWithOutput' /\ EndMatchesRemote'
    BY DEF RowIsPolled, UsageWithOutput, EndMatchesRemote
  <1>6. AnswersAreFinal'
    BY DEF AnswersAreFinal
  <1> QED  BY <1>1, <1>2, <1>3, <1>4, <1>5, <1>6

\* The slot keeps the claim it had, and a final answer it holds is true.
LEMMA MovedSlot ==
  ASSUME PollingInv, NEW w \in Workers, Others(w),
         slot' \in [Workers -> Slot],
         slot[w].step \notin {"idle", "started"},
         slot'[w].version = slot[w].version,
         slot'[w].startedAt = slot[w].startedAt,
         slot'[w].claim = slot[w].claim,
         Claimed(w)' => Claimed(w),
         slot'[w].step = "answered" /\ slot'[w].answer \in RemoteEnd
           => remote = slot'[w].answer,
         UNCHANGED <<row, remote, usage>>,
         now' \in Nat, queue' \subseteq Nat, found' \in Nat
  PROVE  PollingInv'
  <1> USE DEF PollingInv, Others
  <1>1. TypeOK'
    BY DEF TypeOK
  <1>2. ClaimsAreRecorded'
    BY DEF ClaimsAreRecorded
  <1>3. LeaseIsLatest'
    BY DEF LeaseIsLatest, Claimed, InPolling
  <1>4. LeasesAreDistinct'
    BY DEF LeasesAreDistinct, Claimed
  <1>5. RowIsPolled' /\ UsageWithOutput' /\ EndMatchesRemote'
    BY DEF RowIsPolled, UsageWithOutput, EndMatchesRemote
  <1>6. AnswersAreFinal'
    BY DEF AnswersAreFinal
  <1> QED  BY <1>1, <1>2, <1>3, <1>4, <1>5, <1>6

\* The result was written: either the version advanced, or the row cannot be
\* claimed any more.  What the row says of the Provider is left to the caller.
LEMMA WrittenRow ==
  ASSUME PollingInv, NEW w \in Workers, Others(w),
         slot' \in [Workers -> Slot],
         slot[w].step \notin {"idle", "started"},
         \/ slot'[w].step = "idle"
         \/ /\ slot'[w].step \in {"schedule", "failed"} /\ Claimed(w)
            /\ slot'[w].version = slot[w].version
            /\ slot'[w].startedAt = slot[w].startedAt
            /\ slot'[w].claim = slot[w].claim,
         row' \in TaskRow,
         row'.providerTaskId = row.providerTaskId,
         row'.pollDeadlineAt = row.pollDeadlineAt,
         \/ row'.pollVersion = row.pollVersion + 1
         \/ row'.pollVersion = row.pollVersion /\ ~InPolling',
         EndMatchesRemote', UsageWithOutput', usage' \in Nat,
         UNCHANGED <<now, remote, queue, found>>
  PROVE  PollingInv'
  <1> USE DEF PollingInv, Others
  <1>0. row.pollVersion \in Nat
    BY DEF TypeOK, TaskRow
  <1>a. \A v \in Workers : slot[v].claim.pollVersion \in Nat
    BY DEF TypeOK, Slot, PollClaim
  <1>1. TypeOK'
    BY DEF TypeOK
  <1>2. ClaimsAreRecorded'
    <2>1. \A v \in Workers : slot[v].step \notin {"idle", "started"} =>
            slot[v].claim.pollVersion <= row'.pollVersion
      BY <1>0, <1>a DEF ClaimsAreRecorded
    <2> QED  BY <2>1 DEF ClaimsAreRecorded
  <1>3. LeaseIsLatest'
    <2>1. CASE ~InPolling'
      BY <2>1 DEF LeaseIsLatest
    <2>2. CASE row'.pollVersion = row.pollVersion + 1
      <3>1. \A v \in Workers : Claimed(v) => slot[v].claim.pollVersion # row'.pollVersion
        BY <1>0, <1>a, <2>2 DEF ClaimsAreRecorded, Claimed
      <3>2. \A v \in Workers : Claimed(v)' => Claimed(v) /\ slot'[v].claim = slot[v].claim
        BY DEF Claimed
      <3> QED  BY <3>1, <3>2 DEF LeaseIsLatest
    <2> QED  BY <2>1, <2>2
  <1>4. LeasesAreDistinct'
    BY DEF LeasesAreDistinct, Claimed
  <1>5. RowIsPolled'
    BY <1>0 DEF RowIsPolled
  <1>6. AnswersAreFinal'
    BY DEF AnswersAreFinal
  <1> QED  BY <1>1, <1>2, <1>3, <1>4, <1>5, <1>6

-----------------------------------------------------------------------------
(* One lemma per action of a slot. *)

LEMMA DeliverKeeps ==
  ASSUME PollingInv, NEW w \in Workers, Deliver(w)
  PROVE  PollingInv'
  <1>1. PICK v \in queue :
          /\ queue' = queue \ {v}
          /\ slot' = [slot EXCEPT ![w] = [IdleSlot EXCEPT !.step = "started",
                        !.version = v, !.startedAt = now, !.owner = TRUE]]
    BY DEF Deliver
  <1>2. v \in Nat /\ now \in Nat /\ slot \in [Workers -> Slot]
    BY DEF PollingInv, TypeOK
  <1> DEFINE started == [IdleSlot EXCEPT !.step = "started", !.version = v,
                           !.startedAt = now, !.owner = TRUE]
  <1>3. started \in Slot /\ started.step = "started"
    BY <1>2 DEF IdleSlot, Slot, PollSteps, PollClaim, NoPollClaim, Answer,
                Never, ProviderIdOrNull
  <1> HIDE DEF started
  <1>4. slot' = [slot EXCEPT ![w] = started]
    BY <1>1, Zenon DEF started
  <1>5. /\ slot' \in [Workers -> Slot] /\ slot'[w].step = "started"
        /\ Others(w)
    BY <1>2, <1>3, <1>4 DEF Others
  <1>6. /\ UNCHANGED <<row, remote, usage>>
        /\ now' \in Nat /\ queue' \subseteq Nat /\ found' \in Nat
    BY <1>1 DEF Deliver, PollingInv, TypeOK
  <1> QED  BY <1>5, <1>6, QuietSlot

\* Giving the claim up without a write.
LEMMA ReleaseKeeps ==
  ASSUME PollingInv, NEW w \in Workers, Release(w),
         UNCHANGED <<row, now, found, remote, usage>>, queue' \subseteq Nat
  PROVE  PollingInv'
  <1>1. /\ slot' \in [Workers -> Slot] /\ slot'[w].step = "idle" /\ Others(w)
    BY ReleaseSlot DEF PollingInv, TypeOK, Others
  <1>2. now' \in Nat /\ found' \in Nat
    BY DEF PollingInv, TypeOK
  <1> QED  BY <1>1, <1>2, QuietSlot

LEMMA ReadForClaimKeeps ==
  ASSUME PollingInv, NEW w \in Workers, ReadForClaim(w)
  PROVE  PollingInv'
  <1>0. /\ slot \in [Workers -> Slot] /\ row \in TaskRow /\ LeaseLength \in Nat
        /\ queue \subseteq Nat /\ now \in Nat /\ found \in Nat
    BY PollingAssumption DEF PollingInv, TypeOK
  <1>1. CASE ~PollReadable(row, slot[w].version, slot[w].startedAt)
    BY <1>0, <1>1, ReleaseKeeps DEF ReadForClaim
  <1>2. CASE PollReadable(row, slot[w].version, slot[w].startedAt)
    <2> DEFINE c == [providerTaskId |-> row.providerTaskId,
                     pollVersion |-> slot[w].version,
                     pollDeadlineAt |-> row.pollDeadlineAt,
                     leaseUntil |-> slot[w].startedAt + LeaseLength]
               read == [slot[w] EXCEPT !.step = "read", !.claim = c]
    <2>1. slot' = [slot EXCEPT ![w] = read]
      BY <1>2 DEF ReadForClaim
    <2>2. slot[w].version \in Nat /\ slot[w].startedAt \in Nat
      BY <1>0 DEF Slot
    <2>3. slot[w].startedAt + LeaseLength \in Nat
      BY <1>0, <2>2
    <2>4. row.providerTaskId \in ProviderIdOrNull /\ row.pollDeadlineAt \in Nat
      BY <1>0 DEF TaskRow
    <2>5. c \in PollClaim
      BY <2>2, <2>3, <2>4 DEF PollClaim
    <2> HIDE DEF c
    <2>6. slot[w] \in Slot
      BY <1>0
    <2>7. /\ read \in Slot /\ read.step = "read" /\ read.claim = c
          /\ read.version = slot[w].version
          /\ read.startedAt = slot[w].startedAt
      BY <2>5, <2>6 DEF Slot, PollSteps
    <2> HIDE DEF read
    <2>8. /\ slot' \in [Workers -> Slot] /\ slot'[w] = read /\ Others(w)
      BY <1>0, <2>1, <2>7 DEF Others
    <2>9. /\ c.pollVersion = slot[w].version
          /\ c.leaseUntil = slot[w].startedAt + LeaseLength
      BY DEF c
    <2>10. c.pollVersion <= row.pollVersion
      BY <2>2, <2>9, <1>2 DEF PollReadable
    <2>11. UNCHANGED <<row, now, queue, found, remote, usage>>
      BY DEF ReadForClaim
    <2>12. TypeOK'
      BY <1>0, <2>8, <2>11 DEF PollingInv, TypeOK
    <2>13. ClaimsAreRecorded'
      <3> SUFFICES ASSUME NEW v \in Workers, slot'[v].step \notin {"idle", "started"}
                   PROVE  /\ slot'[v].claim.pollVersion = slot'[v].version
                          /\ slot'[v].claim.leaseUntil = slot'[v].startedAt + LeaseLength
                          /\ slot'[v].claim.pollVersion <= row'.pollVersion
        BY DEF ClaimsAreRecorded
      <3>1. CASE v = w
        BY <3>1, <2>7, <2>8, <2>9, <2>10, <2>11
      <3>2. CASE v # w
        BY <3>2, <2>8, <2>11 DEF PollingInv, ClaimsAreRecorded, Others
      <3> QED  BY <3>1, <3>2
    <2>14. \A v \in Workers : Claimed(v)' => Claimed(v) /\ slot'[v] = slot[v]
      BY <2>7, <2>8 DEF Claimed, Others
    <2>15. LeaseIsLatest' /\ LeasesAreDistinct'
      BY <2>14, <2>11 DEF PollingInv, LeaseIsLatest, LeasesAreDistinct, InPolling
    <2>16. RowIsPolled' /\ UsageWithOutput' /\ EndMatchesRemote'
      BY <2>11 DEF PollingInv, RowIsPolled, UsageWithOutput, EndMatchesRemote
    <2>17. AnswersAreFinal'
      BY <2>7, <2>8, <2>11 DEF PollingInv, AnswersAreFinal, Others
    <2> QED  BY <2>12, <2>13, <2>15, <2>16, <2>17 DEF PollingInv
  <1> QED  BY <1>1, <1>2

\* Taking the lease: the row's old lease has run out, so it is older than the
\* new one, and every claim still out there is older than the row's old lease.
LEMMA TakeLeaseKeeps ==
  ASSUME PollingInv, NEW w \in Workers, TakeLease(w)
  PROVE  PollingInv'
  <1> DEFINE c == slot[w].claim
             Free == ClaimPollWhere(row, c.providerTaskId, slot[w].version,
                                    slot[w].startedAt)
  <1>0. /\ slot \in [Workers -> Slot] /\ row \in TaskRow
        /\ queue \subseteq Nat /\ now \in Nat /\ found \in Nat
    BY DEF PollingInv, TypeOK
  <1>1. CASE ~Free
    BY <1>0, <1>1, ReleaseKeeps DEF TakeLease
  <1>2. CASE Free
    <2>0. slot[w].step = "read" /\ UNCHANGED <<now, queue, found, remote, usage>>
      BY DEF TakeLease
    <2>1. /\ row' = ClaimPoll(row, c.leaseUntil)
          /\ Goto(w, IF slot[w].startedAt >= c.pollDeadlineAt THEN "expire" ELSE "query")
      BY <1>2 DEF TakeLease
    <2>2. c \in PollClaim /\ slot[w].startedAt \in Nat /\ c.leaseUntil \in Nat
      BY <1>0 DEF Slot, PollClaim
    <2>3. /\ row' \in TaskRow
          /\ row'.status = row.status
          /\ row'.providerTaskId = row.providerTaskId
          /\ row'.nextPollAt = row.nextPollAt
          /\ row'.pollDeadlineAt = row.pollDeadlineAt
          /\ row'.pollLeaseUntil = c.leaseUntil
          /\ row'.pollVersion = row.pollVersion
          /\ row'.downloadPending = row.downloadPending
          /\ row'.cleanupReady = row.cleanupReady
      BY <1>0, <2>1, <2>2, ClaimPollFields
    <2>4. PICK step \in {"expire", "query"} : Goto(w, step)
      BY <2>1
    <2>5. /\ slot' \in [Workers -> Slot] /\ slot'[w].step = step
          /\ slot'[w].version = slot[w].version
          /\ slot'[w].startedAt = slot[w].startedAt
          /\ slot'[w].claim = c /\ Others(w)
      BY <1>0, <2>4, GotoSlot DEF PollSteps, Others
    <2>6. /\ c.pollVersion = slot[w].version
          /\ c.leaseUntil = slot[w].startedAt + LeaseLength
      BY <2>0 DEF PollingInv, ClaimsAreRecorded
    <2>7. /\ row.pollVersion = slot[w].version /\ row.status = "PROCESSING"
          /\ row.pollLeaseUntil <= slot[w].startedAt
          /\ InPolling /\ ~row.downloadPending
      BY <1>2 DEF ClaimPollWhere, InPolling, Due
    <2>8. row.pollLeaseUntil \in Nat /\ row.pollLeaseUntil < c.leaseUntil
      <3>1. row.pollLeaseUntil \in Nat
        BY <1>0 DEF TaskRow
      <3> QED  BY <3>1, <2>2, <2>6, <2>7, PollingAssumption
    <2>9. ASSUME NEW v \in Workers \ {w}, Claimed(v),
                 slot[v].claim.pollVersion = row.pollVersion
          PROVE  slot[v].claim.leaseUntil < c.leaseUntil
      <3>1. slot[v].claim.leaseUntil <= row.pollLeaseUntil
        BY <2>7, <2>9 DEF PollingInv, LeaseIsLatest
      <3>2. slot[v].claim.leaseUntil \in Nat
        BY <1>0 DEF Slot, PollClaim
      <3> QED  BY <2>2, <2>8, <3>1, <3>2
    <2>10. \A v \in Workers \ {w} : Claimed(v)' <=> Claimed(v)
      BY <2>5 DEF Claimed, Others
    <2>11. TypeOK'
      BY <1>0, <2>0, <2>3, <2>5 DEF PollingInv, TypeOK
    <2>12. ClaimsAreRecorded'
      BY <2>0, <2>3, <2>5 DEF PollingInv, ClaimsAreRecorded, Others
    <2>13. LeaseIsLatest'
      <3> SUFFICES ASSUME NEW v \in Workers, Claimed(v)',
                          slot'[v].claim.pollVersion = row'.pollVersion
                   PROVE  slot'[v].claim.leaseUntil <= row'.pollLeaseUntil
        BY DEF LeaseIsLatest
      <3>1. CASE v = w
        BY <3>1, <2>2, <2>3, <2>5
      <3>2. CASE v # w
        <4>1. slot'[v] = slot[v] /\ Claimed(v)
          BY <3>2, <2>5, <2>10 DEF Others
        <4>2. slot[v].claim.leaseUntil < c.leaseUntil
          BY <3>2, <4>1, <2>3, <2>9
        <4>3. slot[v].claim.leaseUntil \in Nat
          BY <1>0 DEF Slot, PollClaim
        <4> QED  BY <4>1, <4>2, <4>3, <2>2, <2>3
      <3> QED  BY <3>1, <3>2
    <2>14. LeasesAreDistinct'
      <3> SUFFICES ASSUME NEW u \in Workers, NEW v \in Workers, u # v,
                          Claimed(u)', Claimed(v)',
                          slot'[u].claim.pollVersion = slot'[v].claim.pollVersion
                   PROVE  slot'[u].claim.leaseUntil # slot'[v].claim.leaseUntil
        BY DEF LeasesAreDistinct
      <3>a. \A x \in Workers : slot[x].claim.leaseUntil \in Nat
        BY <1>0 DEF Slot, PollClaim
      <3>1. CASE u # w /\ v # w
        BY <3>1, <2>5, <2>10 DEF PollingInv, LeasesAreDistinct, Others
      <3>2. CASE u = w
        <4>1. slot'[v] = slot[v] /\ Claimed(v)
          BY <3>2, <2>5, <2>10 DEF Others
        <4>2. slot[v].claim.leaseUntil < c.leaseUntil
          BY <3>2, <4>1, <2>5, <2>6, <2>7, <2>9
        <4> QED  BY <3>2, <3>a, <4>1, <4>2, <2>2, <2>5
      <3>3. CASE v = w
        <4>1. slot'[u] = slot[u] /\ Claimed(u)
          BY <3>3, <2>5, <2>10 DEF Others
        <4>2. slot[u].claim.leaseUntil < c.leaseUntil
          BY <3>3, <4>1, <2>5, <2>6, <2>7, <2>9
        <4> QED  BY <3>3, <3>a, <4>1, <4>2, <2>2, <2>5
      <3> QED  BY <3>1, <3>2, <3>3
    <2>15. RowIsPolled' /\ UsageWithOutput' /\ EndMatchesRemote'
      BY <2>0, <2>3 DEF PollingInv, RowIsPolled, UsageWithOutput, EndMatchesRemote
    <2>16. AnswersAreFinal'
      BY <2>0, <2>4, <2>5 DEF PollingInv, AnswersAreFinal, Others
    <2> QED  BY <2>11, <2>12, <2>13, <2>14, <2>15, <2>16 DEF PollingInv
  <1> QED  BY <1>1, <1>2

\* ExpireLocalPoll under a matching claim, wherever the processor calls it.
LEMMA ExpireKeeps ==
  ASSUME PollingInv, NEW w \in Workers, Claimed(w), Release(w),
         row' = IF PollClaimWhere(row, slot[w].claim) THEN ExpireLocalPoll(row) ELSE row,
         UNCHANGED <<now, queue, found, remote, usage>>
  PROVE  PollingInv'
  <1>0. slot \in [Workers -> Slot] /\ row \in TaskRow /\ queue \subseteq Nat /\ usage \in Nat
    BY DEF PollingInv, TypeOK
  <1>1. CASE ~PollClaimWhere(row, slot[w].claim)
    BY <1>0, <1>1, ReleaseKeeps
  <1>2. CASE PollClaimWhere(row, slot[w].claim)
    <2>1. /\ row' \in TaskRow
          /\ row'.status = "RECONCILIATION_REQUIRED"
          /\ row'.providerTaskId = row.providerTaskId
          /\ row'.pollDeadlineAt = row.pollDeadlineAt
          /\ row'.pollVersion = row.pollVersion
          /\ row'.downloadPending = row.downloadPending
          /\ row'.cleanupReady = FALSE
      BY <1>0, <1>2, ExpireLocalPollFields
    <2>2. /\ slot' \in [Workers -> Slot] /\ slot'[w].step = "idle" /\ Others(w)
      BY <1>0, ReleaseSlot DEF Others
    <2>3. EndMatchesRemote' /\ UsageWithOutput' /\ ~InPolling'
      BY <2>1 DEF PollingInv, EndMatchesRemote, UsageWithOutput, InPolling
    <2> QED  BY <1>0, <2>1, <2>2, <2>3, WrittenRow DEF Claimed
  <1> QED  BY <1>1, <1>2

\* ScheduleNextPoll under a matching claim, wherever the processor calls it.
LEMMA ScheduleNextKeeps ==
  ASSUME PollingInv, NEW w \in Workers, Claimed(w), NEW t \in Nat, ScheduleNext(w, t),
         UNCHANGED <<now, queue, found, remote, usage>>
  PROVE  PollingInv'
  <1>0. slot \in [Workers -> Slot] /\ row \in TaskRow /\ queue \subseteq Nat /\ usage \in Nat
    BY DEF PollingInv, TypeOK
  <1>1. CASE ~PollClaimWhere(row, slot[w].claim)
    BY <1>0, <1>1, ReleaseKeeps DEF ScheduleNext
  <1>2. CASE PollClaimWhere(row, slot[w].claim)
    <2>0. row' = ScheduleNextPoll(row, t) /\ Goto(w, "schedule")
      BY <1>2 DEF ScheduleNext
    <2>1. /\ row' \in TaskRow
          /\ row'.status = row.status
          /\ row'.providerTaskId = row.providerTaskId
          /\ row'.pollDeadlineAt = row.pollDeadlineAt
          /\ row'.pollVersion = row.pollVersion + 1
          /\ row'.downloadPending = row.downloadPending
          /\ row'.cleanupReady = row.cleanupReady
      BY <1>0, <2>0, ScheduleNextPollFields
    <2>2. /\ slot' \in [Workers -> Slot] /\ slot'[w].step = "schedule" /\ Others(w)
          /\ slot'[w].version = slot[w].version
          /\ slot'[w].startedAt = slot[w].startedAt
          /\ slot'[w].claim = slot[w].claim
      BY <1>0, <2>0, GotoSlot DEF Others, PollSteps
    <2>3. EndMatchesRemote' /\ UsageWithOutput'
      BY <2>1 DEF PollingInv, EndMatchesRemote, UsageWithOutput
    <2> QED  BY <1>0, <2>1, <2>2, <2>3, WrittenRow DEF Claimed
  <1> QED  BY <1>1, <1>2

LEMMA ExpireAtStartKeeps ==
  ASSUME PollingInv, NEW w \in Workers, ExpireAtStart(w)
  PROVE  PollingInv'
  BY ExpireKeeps DEF ExpireAtStart, Claimed

LEMMA QueryKeeps ==
  ASSUME PollingInv, NEW w \in Workers, Query(w)
  PROVE  PollingInv'
  <1>0. /\ slot \in [Workers -> Slot] /\ slot[w] \in Slot /\ remote \in RemoteStatus
        /\ queue \subseteq Nat /\ now \in Nat /\ found \in Nat
    BY DEF PollingInv, TypeOK
  <1>1. PICK a \in Answers(remote) :
          slot' = [slot EXCEPT ![w].answer = a,
                     ![w].step = IF a \in {"RETRYABLE", "UNCLASSIFIED"}
                                   THEN "failed" ELSE "answered"]
    BY DEF Query
  <1> DEFINE step == IF a \in {"RETRYABLE", "UNCLASSIFIED"} THEN "failed" ELSE "answered"
             asked == [slot[w] EXCEPT !.answer = a, !.step = step]
  <1>2. a \in Answer /\ (a \in RemoteEnd => a = remote)
    BY <1>0 DEF Answers, Answer, RemoteStatus, RemoteEnd
  <1>3. slot' = [slot EXCEPT ![w] = asked]
    BY <1>1
  <1>4. /\ asked \in Slot /\ asked.step \in {"failed", "answered"} /\ asked.answer = a
        /\ asked.version = slot[w].version
        /\ asked.startedAt = slot[w].startedAt
        /\ asked.claim = slot[w].claim
    BY <1>0, <1>2 DEF Slot, PollSteps
  <1> HIDE DEF asked
  <1>5. slot' \in [Workers -> Slot] /\ slot'[w] = asked /\ Others(w)
    BY <1>0, <1>3, <1>4 DEF Others
  <1>6. slot[w].step = "query" /\ UNCHANGED <<row, now, queue, found, remote, usage>>
    BY DEF Query
  <1>7. slot[w].step \notin {"idle", "started"} /\ Claimed(w)
    BY <1>6 DEF Claimed
  <1>8. slot'[w].step = "answered" /\ slot'[w].answer \in RemoteEnd
          => remote = slot'[w].answer
    BY <1>2, <1>4, <1>5
  <1>9. now' \in Nat /\ queue' \subseteq Nat /\ found' \in Nat
    BY <1>0, <1>6
  <1> QED  BY <1>4, <1>5, <1>6, <1>7, <1>8, <1>9, MovedSlot

LEMMA SnapshotProcessingKeeps ==
  ASSUME PollingInv, NEW w \in Workers, SnapshotProcessing(w)
  PROVE  PollingInv'
  <1>1. PICK d \in Delays : ScheduleNext(w, now + d)
    BY DEF SnapshotProcessing
  <1>2. now + d \in Nat
    BY PollingAssumption DEF PollingInv, TypeOK
  <1>3. Claimed(w) /\ UNCHANGED <<now, queue, found, remote, usage>>
    BY DEF SnapshotProcessing, Claimed
  <1> QED  BY <1>1, <1>2, <1>3, ScheduleNextKeeps

\* A claim that still matches finds no output recorded, so usage is still 0.
LEMMA SnapshotSucceededKeeps ==
  ASSUME PollingInv, NEW w \in Workers, SnapshotSucceeded(w)
  PROVE  PollingInv'
  <1>0. /\ slot \in [Workers -> Slot] /\ row \in TaskRow /\ queue \subseteq Nat
        /\ now \in Nat /\ MaxDuration \in Nat
    BY PollingAssumption DEF PollingInv, TypeOK
  <1>a. /\ slot[w].step = "answered" /\ slot[w].answer = "SUCCEEDED"
        /\ Release(w) /\ UNCHANGED <<now, queue, found, remote>>
    BY DEF SnapshotSucceeded
  <1>1. CASE ~PollClaimWhere(row, slot[w].claim)
    <2>1. UNCHANGED <<row, usage>>
      BY <1>1 DEF SnapshotSucceeded
    <2> QED  BY <1>0, <1>a, <2>1, ReleaseKeeps
  <1>2. CASE PollClaimWhere(row, slot[w].claim)
    <2>0. row' = MarkDownloadPending(row, now, now + MaxDuration) /\ usage' = usage + 1
      BY <1>2 DEF SnapshotSucceeded
    <2>a. now + MaxDuration \in Nat
      BY <1>0
    <2>1. /\ row' \in TaskRow
          /\ row'.status = row.status
          /\ row'.providerTaskId = row.providerTaskId
          /\ row'.nextPollAt = Never
          /\ row'.pollDeadlineAt = row.pollDeadlineAt
          /\ row'.pollVersion = row.pollVersion
          /\ row'.downloadPending = TRUE
          /\ row'.cleanupReady = row.cleanupReady
      BY <1>0, <2>0, <2>a, MarkDownloadPendingFields, ZenonT(60)
    <2>2. /\ slot' \in [Workers -> Slot] /\ slot'[w].step = "idle" /\ Others(w)
      BY <1>0, <1>a, ReleaseSlot DEF Others
    <2>3. remote = "SUCCEEDED"
      BY <1>a DEF PollingInv, AnswersAreFinal, RemoteEnd
    <2>4. ~row.downloadPending
      BY <1>2 DEF PollClaimWhere
    <2>5. usage = 0
      BY <2>4 DEF PollingInv, UsageWithOutput
    <2>6. EndMatchesRemote'
      BY <1>a, <2>1, <2>3 DEF PollingInv, EndMatchesRemote
    <2>7. usage' = 1
      BY <2>0, <2>5
    <2>8. UsageWithOutput' /\ usage' \in Nat /\ ~InPolling'
      BY <2>1, <2>7 DEF UsageWithOutput, InPolling
    <2> QED  BY <1>a, <2>1, <2>2, <2>6, <2>8, WrittenRow
  <1> QED  BY <1>1, <1>2

\* An error in the try block leaves the slot its claim.
LEMMA BreaksSlot ==
  ASSUME NEW w \in Workers, slot \in [Workers -> Slot], Breaks(w)
  PROVE  /\ slot' \in [Workers -> Slot] /\ Others(w)
         /\ slot'[w].step = "failed"
         /\ slot'[w].version = slot[w].version
         /\ slot'[w].startedAt = slot[w].startedAt
         /\ slot'[w].claim = slot[w].claim
  <1> DEFINE broken == [slot[w] EXCEPT !.step = "failed", !.answer = "DATABASE"]
  <1>1. slot' = [slot EXCEPT ![w] = broken]
    BY DEF Breaks
  <1>2. /\ broken \in Slot /\ broken.step = "failed"
        /\ broken.version = slot[w].version
        /\ broken.startedAt = slot[w].startedAt
        /\ broken.claim = slot[w].claim
    BY DEF Slot, PollSteps, Answer
  <1> HIDE DEF broken
  <1>3. slot' \in [Workers -> Slot] /\ slot'[w] = broken /\ Others(w)
    BY <1>1, <1>2 DEF Others
  <1> QED  BY <1>2, <1>3

\* The snapshot's status is what the Provider still says: AnswersAreFinal.
LEMMA SnapshotEndedKeeps ==
  ASSUME PollingInv, NEW w \in Workers, SnapshotEnded(w)
  PROVE  PollingInv'
  <1>0. /\ slot \in [Workers -> Slot] /\ row \in TaskRow /\ queue \subseteq Nat
        /\ usage \in Nat
    BY DEF PollingInv, TypeOK
  <1>a. /\ slot[w].step = "answered" /\ slot[w].answer \in RemoteEnd \ {"SUCCEEDED"}
        /\ UNCHANGED <<now, queue, found, remote, usage>>
    BY DEF SnapshotEnded
  <1>1. CASE ~PollClaimWhere(row, slot[w].claim)
    <2>1. UNCHANGED row /\ Release(w)
      BY <1>1 DEF SnapshotEnded
    <2> QED  BY <1>0, <1>a, <2>1, ReleaseKeeps
  <1>2. CASE PollClaimWhere(row, slot[w].claim)
    <2>0. row' = MarkProviderEnded(row, slot[w].answer) /\ (Release(w) \/ Breaks(w))
      BY <1>2 DEF SnapshotEnded
    <2>a. slot[w].answer \in FinalStatus
      BY <1>a DEF RemoteEnd, FinalStatus
    <2>1. /\ row' \in TaskRow
          /\ row'.status = slot[w].answer
          /\ row'.providerTaskId = row.providerTaskId
          /\ row'.nextPollAt = Never
          /\ row'.pollDeadlineAt = row.pollDeadlineAt
          /\ row'.pollVersion = row.pollVersion
          /\ row'.downloadPending = row.downloadPending
          /\ row'.cleanupReady = TRUE
      BY <1>0, <2>0, <2>a, MarkProviderEndedFields
    <2>2. remote = slot[w].answer
      BY <1>a DEF PollingInv, AnswersAreFinal
    <2>3. EndMatchesRemote' /\ UsageWithOutput' /\ ~InPolling'
      BY <1>a, <2>1, <2>2 DEF PollingInv, EndMatchesRemote, UsageWithOutput, InPolling
    <2>4. CASE Release(w)
      <3>1. /\ slot' \in [Workers -> Slot] /\ slot'[w].step = "idle" /\ Others(w)
        BY <1>0, <2>4, ReleaseSlot DEF Others
      <3> QED  BY <1>0, <1>a, <2>1, <2>3, <3>1, WrittenRow
    <2>5. CASE Breaks(w)
      <3>1. /\ slot' \in [Workers -> Slot] /\ slot'[w].step = "failed" /\ Others(w)
            /\ slot'[w].version = slot[w].version
            /\ slot'[w].startedAt = slot[w].startedAt
            /\ slot'[w].claim = slot[w].claim
        BY <1>0, <2>5, BreaksSlot
      <3>2. Claimed(w) /\ slot[w].step \notin {"idle", "started"}
        BY <1>a DEF Claimed
      <3> QED  BY <1>0, <1>a, <2>1, <2>3, <3>1, <3>2, WrittenRow
    <2> QED  BY <2>0, <2>4, <2>5
  <1> QED  BY <1>1, <1>2

LEMMA SnapshotWriteFailsKeeps ==
  ASSUME PollingInv, NEW w \in Workers, SnapshotWriteFails(w)
  PROVE  PollingInv'
  <1>0. /\ slot \in [Workers -> Slot] /\ queue \subseteq Nat /\ now \in Nat
        /\ found \in Nat
    BY DEF PollingInv, TypeOK
  <1>a. /\ slot[w].step = "answered" /\ UNCHANGED <<row, now, queue, found, remote, usage>>
        /\ Breaks(w)
    BY DEF SnapshotWriteFails
  <1>1. /\ slot' \in [Workers -> Slot] /\ slot'[w].step = "failed" /\ Others(w)
        /\ slot'[w].version = slot[w].version
        /\ slot'[w].startedAt = slot[w].startedAt
        /\ slot'[w].claim = slot[w].claim
    BY <1>0, <1>a, BreaksSlot
  <1>2. slot[w].step \notin {"idle", "started"} /\ Claimed(w) /\ slot'[w].step # "answered"
    BY <1>a, <1>1 DEF Claimed
  <1>3. now' \in Nat /\ queue' \subseteq Nat /\ found' \in Nat
    BY <1>0, <1>a
  <1> QED  BY <1>a, <1>1, <1>2, <1>3, MovedSlot

LEMMA RetryableErrorKeeps ==
  ASSUME PollingInv, NEW w \in Workers, RetryableError(w)
  PROVE  PollingInv'
  <1>1. PICK d \in Delays :
          IF now + d >= slot[w].claim.pollDeadlineAt
            THEN /\ row' = IF PollClaimWhere(row, slot[w].claim)
                             THEN ExpireLocalPoll(row) ELSE row
                 /\ Release(w)
            ELSE ScheduleNext(w, now + d)
    BY DEF RetryableError
  <1>2. now + d \in Nat
    BY PollingAssumption DEF PollingInv, TypeOK
  <1>3. Claimed(w) /\ UNCHANGED <<now, queue, found, remote, usage>>
    BY DEF RetryableError, Claimed
  <1>4. CASE now + d >= slot[w].claim.pollDeadlineAt
    BY <1>1, <1>3, <1>4, ExpireKeeps
  <1>5. CASE ~(now + d >= slot[w].claim.pollDeadlineAt)
    <2>1. ScheduleNext(w, now + d)
      BY <1>1, <1>5
    <2> QED  BY <1>2, <1>3, <2>1, ScheduleNextKeeps
  <1> QED  BY <1>4, <1>5

LEMMA UnclassifiedErrorKeeps ==
  ASSUME PollingInv, NEW w \in Workers, UnclassifiedError(w)
  PROVE  PollingInv'
  <1>0. /\ slot \in [Workers -> Slot] /\ row \in TaskRow /\ queue \subseteq Nat
        /\ usage \in Nat
    BY DEF PollingInv, TypeOK
  <1>a. /\ slot[w].step = "failed" /\ Release(w)
        /\ UNCHANGED <<now, queue, found, remote, usage>>
    BY DEF UnclassifiedError
  <1>1. CASE ~PollClaimWhere(row, slot[w].claim)
    <2>1. UNCHANGED row
      BY <1>1 DEF UnclassifiedError
    <2> QED  BY <1>0, <1>a, <2>1, ReleaseKeeps
  <1>2. CASE PollClaimWhere(row, slot[w].claim)
    <2>0. row' = StopPollingForManualReview(row)
      BY <1>2 DEF UnclassifiedError
    <2>1. /\ row' \in TaskRow
          /\ row'.status = row.status
          /\ row'.providerTaskId = row.providerTaskId
          /\ row'.nextPollAt = Never
          /\ row'.pollDeadlineAt = row.pollDeadlineAt
          /\ row'.pollVersion = row.pollVersion
          /\ row'.downloadPending = row.downloadPending
          /\ row'.cleanupReady = row.cleanupReady
      BY <1>0, <2>0, StopPollingFields
    <2>2. /\ slot' \in [Workers -> Slot] /\ slot'[w].step = "idle" /\ Others(w)
      BY <1>0, <1>a, ReleaseSlot DEF Others
    <2>3. EndMatchesRemote' /\ UsageWithOutput' /\ ~InPolling'
      BY <1>a, <2>1 DEF PollingInv, EndMatchesRemote, UsageWithOutput, InPolling
    <2> QED  BY <1>0, <1>a, <2>1, <2>2, <2>3, WrittenRow
  <1> QED  BY <1>1, <1>2

LEMMA ScheduleJobKeeps ==
  ASSUME PollingInv, NEW w \in Workers, ScheduleJob(w)
  PROVE  PollingInv'
  <1>1. queue \subseteq Nat /\ slot[w].version + 1 \in Nat
    BY DEF PollingInv, TypeOK, Slot
  <1>2. queue' \subseteq Nat
    BY <1>1, EnqueuedType DEF ScheduleJob
  <1> QED  BY <1>2, ReleaseKeeps DEF ScheduleJob

LEMMA AbortKeeps ==
  ASSUME PollingInv, NEW w \in Workers, Abort(w)
  PROVE  PollingInv'
  <1>1. queue \subseteq Nat /\ slot[w].version \in Nat
    BY DEF PollingInv, TypeOK, Slot
  <1>2. queue' \subseteq Nat
    BY <1>1 DEF Abort
  <1> QED  BY <1>2, ReleaseKeeps DEF Abort

LEMMA StallKeeps ==
  ASSUME PollingInv, NEW w \in Workers, Stall(w)
  PROVE  PollingInv'
  <1>0. /\ slot \in [Workers -> Slot] /\ slot[w] \in Slot /\ slot[w].version \in Nat
        /\ queue \subseteq Nat /\ now \in Nat /\ found \in Nat
    BY DEF PollingInv, TypeOK, Slot
  <1>a. /\ UNCHANGED <<row, now, found, remote, usage>>
        /\ queue' = queue \cup {slot[w].version}
        /\ slot' = [slot EXCEPT ![w].owner = FALSE]
    BY DEF Stall
  <1> DEFINE lost == [slot[w] EXCEPT !.owner = FALSE]
  <1>1. slot' = [slot EXCEPT ![w] = lost]
    BY <1>a
  <1>2. /\ lost \in Slot /\ lost.step = slot[w].step /\ lost.answer = slot[w].answer
        /\ lost.version = slot[w].version
        /\ lost.startedAt = slot[w].startedAt
        /\ lost.claim = slot[w].claim
    BY <1>0 DEF Slot
  <1> HIDE DEF lost
  <1>3. slot' \in [Workers -> Slot] /\ slot'[w] = lost /\ Others(w)
    BY <1>0, <1>1, <1>2 DEF Others
  <1>4. now' \in Nat /\ queue' \subseteq Nat /\ found' \in Nat
    BY <1>0, <1>a
  <1>5. CASE slot[w].step \in {"idle", "started"}
    BY <1>a, <1>2, <1>3, <1>4, <1>5, QuietSlot
  <1>6. CASE slot[w].step \notin {"idle", "started"}
    <2>1. Claimed(w)' => Claimed(w)
      BY <1>2, <1>3 DEF Claimed
    <2>2. slot'[w].step = "answered" /\ slot'[w].answer \in RemoteEnd
            => remote = slot'[w].answer
      BY <1>2, <1>3 DEF PollingInv, AnswersAreFinal
    <2> QED  BY <1>a, <1>2, <1>3, <1>4, <1>6, <2>1, <2>2, MovedSlot
  <1> QED  BY <1>5, <1>6

-----------------------------------------------------------------------------
(* The steps of everybody else. *)

\* Queue, coordinator and clock touch neither the row nor a slot.
LEMMA QueueAndClockKeep ==
  ASSUME PollingInv, UNCHANGED <<row, slot, remote, usage>>,
         now' \in Nat, queue' \subseteq Nat, found' \in Nat
  PROVE  PollingInv'
  BY DEF PollingInv, TypeOK, ClaimsAreRecorded, LeaseIsLatest, LeasesAreDistinct,
         RowIsPolled, AnswersAreFinal, UsageWithOutput, EndMatchesRemote,
         Claimed, InPolling

\* A row that can be cancelled has not been released: its status would be the
\* Provider's, and the Provider's task has ended in none of these.
LEMMA UserCancelKeeps ==
  ASSUME PollingInv, UserCancel
  PROVE  PollingInv'
  <1>0. row \in TaskRow /\ remote \in RemoteStatus
    BY DEF PollingInv, TypeOK
  <1>1. /\ row' \in TaskRow
        /\ row'.status = "CANCELLED"
        /\ row'.providerTaskId = row.providerTaskId
        /\ row'.pollDeadlineAt = row.pollDeadlineAt
        /\ row'.pollVersion = row.pollVersion
        /\ row'.downloadPending = row.downloadPending
        /\ row'.cleanupReady = row.cleanupReady
    BY <1>0, CancelTaskFields DEF UserCancel
  <1>2. ~row.cleanupReady
    BY <1>0 DEF UserCancel, CancelWhere, CancellableStatus, PollingInv,
                EndMatchesRemote, RemoteStatus, RemoteEnd
  <1>3. UNCHANGED <<now, queue, found, slot, remote, usage>>
    BY DEF UserCancel
  <1>4. EndMatchesRemote' /\ UsageWithOutput' /\ RowIsPolled' /\ ~InPolling'
    BY <1>1, <1>2, <1>3 DEF PollingInv, EndMatchesRemote, UsageWithOutput,
                            RowIsPolled, InPolling
  <1>5. TypeOK'
    BY <1>1, <1>3 DEF PollingInv, TypeOK
  <1>6. ClaimsAreRecorded' /\ LeasesAreDistinct' /\ AnswersAreFinal'
    BY <1>1, <1>3 DEF PollingInv, ClaimsAreRecorded, LeasesAreDistinct,
                      AnswersAreFinal, Claimed
  <1>7. LeaseIsLatest'
    BY <1>4 DEF LeaseIsLatest
  <1> QED  BY <1>4, <1>5, <1>6, <1>7 DEF PollingInv

\* Before it ends, the Provider's task has given no final answer.
LEMMA RemoteEndsKeeps ==
  ASSUME PollingInv, RemoteEnds
  PROVE  PollingInv'
  <1>1. /\ remote = "RUNNING" /\ remote' \in RemoteEnd
        /\ UNCHANGED <<row, now, queue, found, slot, usage>>
    BY DEF RemoteEnds
  <1>2. "RUNNING" \notin TaskStatus /\ "RUNNING" \notin RemoteEnd
    BY DEF TaskStatus, RemoteEnd
  <1>3. row.status \in TaskStatus
    BY DEF PollingInv, TypeOK, TaskRow
  <1>4. EndMatchesRemote'
    BY <1>1, <1>2, <1>3 DEF PollingInv, EndMatchesRemote
  <1>5. AnswersAreFinal'
    BY <1>1, <1>2 DEF PollingInv, AnswersAreFinal
  <1>6. TypeOK'
    BY <1>1 DEF PollingInv, TypeOK, RemoteStatus
  <1>7. /\ ClaimsAreRecorded' /\ LeaseIsLatest' /\ LeasesAreDistinct'
        /\ RowIsPolled' /\ UsageWithOutput'
    BY <1>1 DEF PollingInv, ClaimsAreRecorded, LeaseIsLatest, LeasesAreDistinct,
                RowIsPolled, UsageWithOutput, Claimed, InPolling
  <1> QED  BY <1>4, <1>5, <1>6, <1>7 DEF PollingInv

-----------------------------------------------------------------------------
(* The invariant. *)

\* The row acceptSubmission leaves.
Accepted(id, t, deadline) ==
  AcceptSubmission(ClaimSubmission(QueuedRow), id, t, deadline)

LEMMA AcceptedRow ==
  ASSUME NEW id \in ProviderTaskIds, NEW t \in Nat, NEW deadline \in Nat
  PROVE  /\ Accepted(id, t, deadline) \in TaskRow
         /\ Accepted(id, t, deadline).status = "PROCESSING"
         /\ Accepted(id, t, deadline).providerTaskId = id
         /\ Accepted(id, t, deadline).pollDeadlineAt = deadline
         /\ Accepted(id, t, deadline).pollVersion = 1
         /\ Accepted(id, t, deadline).downloadPending = FALSE
         /\ Accepted(id, t, deadline).cleanupReady = FALSE
  BY DEF Accepted, AcceptSubmission, ClaimSubmission, QueuedRow, TaskRow,
         TaskStatus, FinalStatus, ProviderIdOrNull, Never

LEMMA InitHolds == Init => PollingInv
  <1> SUFFICES ASSUME Init PROVE PollingInv
    OBVIOUS
  <1>1. PICK id \in ProviderTaskIds, d \in Delays :
          row = AcceptSubmission(ClaimSubmission(QueuedRow), id, 1 + d, 1 + MaxDuration)
    BY DEF Init
  <1>2. 1 + d \in Nat /\ 1 + MaxDuration \in Nat /\ 1 + MaxDuration # Never
    BY PollingAssumption DEF Never
  <1>3. /\ row \in TaskRow /\ row.status = "PROCESSING" /\ row.providerTaskId = id
        /\ row.pollDeadlineAt = 1 + MaxDuration /\ row.pollVersion = 1
        /\ row.downloadPending = FALSE /\ row.cleanupReady = FALSE
    <2> DEFINE t == 1 + d  deadline == 1 + MaxDuration  new == Accepted(id, t, deadline)
    <2>1. row = new
      BY <1>1 DEF Accepted
    <2>2. t \in Nat /\ deadline \in Nat
      BY <1>2
    <2>3. deadline = 1 + MaxDuration
      OBVIOUS
    <2> HIDE DEF t, deadline
    <2>4. new \in TaskRow /\ new.status = "PROCESSING" /\ new.providerTaskId = id
      BY <2>2, AcceptedRow, ZenonT(60)
    <2>5. new.pollDeadlineAt = deadline /\ new.pollVersion = 1
      BY <2>2, AcceptedRow, ZenonT(60)
    <2>6. new.downloadPending = FALSE /\ new.cleanupReady = FALSE
      BY <2>2, AcceptedRow, ZenonT(60)
    <2> HIDE DEF new
    <2> QED  BY <2>1, <2>3, <2>4, <2>5, <2>6
  <1>4. /\ now = 1 /\ queue \in {{}, {1}} /\ found = 0 /\ usage = 0
        /\ remote = "RUNNING" /\ slot = [w \in Workers |-> IdleSlot]
    BY DEF Init
  <1>5. IdleSlot \in Slot /\ IdleSlot.step = "idle"
    BY DEF IdleSlot, Slot, PollSteps, PollClaim, NoPollClaim, Answer, Never,
           ProviderIdOrNull
  <1> HIDE DEF IdleSlot, Slot
  <1>6. slot \in [Workers -> Slot] /\ \A w \in Workers : slot[w].step = "idle"
    BY <1>4, <1>5
  <1>7. TypeOK
    BY <1>3, <1>4, <1>6 DEF TypeOK, RemoteStatus
  <1>8. ClaimsAreRecorded /\ LeaseIsLatest /\ LeasesAreDistinct /\ AnswersAreFinal
    BY <1>6 DEF ClaimsAreRecorded, LeaseIsLatest, LeasesAreDistinct,
                AnswersAreFinal, Claimed
  <1>9. RowIsPolled
    BY <1>2, <1>3, NoIdAssumption DEF RowIsPolled
  <1>10. UsageWithOutput /\ EndMatchesRemote
    BY <1>3, <1>4 DEF UsageWithOutput, EndMatchesRemote
  <1> QED  BY <1>7, <1>8, <1>9, <1>10 DEF PollingInv

LEMMA StepKeeps == PollingInv /\ [Next]_vars => PollingInv'
  <1> SUFFICES ASSUME PollingInv, [Next]_vars PROVE PollingInv'
    OBVIOUS
  <1>0. /\ now \in Nat /\ queue \subseteq Nat /\ found \in Nat
        /\ row \in TaskRow /\ slot \in [Workers -> Slot]
    BY DEF PollingInv, TypeOK
  <1>1. ASSUME NEW w \in Workers, Deliver(w) PROVE PollingInv'
    BY <1>1, DeliverKeeps
  <1>2. ASSUME NEW w \in Workers, Advance(w) PROVE PollingInv'
    <2>1. CASE ReadForClaim(w)        BY <2>1, ReadForClaimKeeps
    <2>2. CASE TakeLease(w)           BY <2>2, TakeLeaseKeeps
    <2>3. CASE ExpireAtStart(w)       BY <2>3, ExpireAtStartKeeps
    <2>4. CASE Query(w)               BY <2>4, QueryKeeps
    <2>5. CASE SnapshotProcessing(w)  BY <2>5, SnapshotProcessingKeeps
    <2>6. CASE SnapshotSucceeded(w)   BY <2>6, SnapshotSucceededKeeps
    <2>7. CASE SnapshotEnded(w)       BY <2>7, SnapshotEndedKeeps
    <2>8. CASE RetryableError(w)      BY <2>8, RetryableErrorKeeps
    <2>9. CASE UnclassifiedError(w)   BY <2>9, UnclassifiedErrorKeeps
    <2>10. CASE ScheduleJob(w)        BY <2>10, ScheduleJobKeeps
    <2> QED  BY <1>2, <2>1, <2>2, <2>3, <2>4, <2>5, <2>6, <2>7, <2>8, <2>9, <2>10
             DEF Advance
  <1>3. ASSUME NEW w \in Workers, Fault(w) PROVE PollingInv'
    BY <1>3, SnapshotWriteFailsKeeps, AbortKeeps, StallKeeps DEF Fault
  <1>4. CASE LoseJob
    BY <1>0, <1>4, QueueAndClockKeep DEF LoseJob
  <1>5. CASE FindRecoverable
    <2>1. row.pollVersion \in Nat
      BY <1>0 DEF TaskRow
    <2> QED  BY <1>0, <1>5, <2>1, QueueAndClockKeep DEF FindRecoverable
  <1>6. CASE EnqueueFound
    BY <1>0, <1>6, EnqueuedType, QueueAndClockKeep DEF EnqueueFound
  <1>7. CASE UserCancel
    BY <1>7, UserCancelKeeps
  <1>8. CASE RemoteEnds
    BY <1>8, RemoteEndsKeeps
  <1>9. CASE Tick
    <2>1. now' \in Nat
      BY <1>0, <1>9 DEF Tick
    <2> QED  BY <1>0, <1>9, <2>1, QueueAndClockKeep DEF Tick
  <1>10. CASE UNCHANGED vars
    BY <1>0, <1>10, QueueAndClockKeep DEF vars
  <1> QED  BY <1>1, <1>2, <1>3, <1>4, <1>5, <1>6, <1>7, <1>8, <1>9, <1>10 DEF Next

\* The claims outstanding, the row they compete for and the Provider's task
\* stay in the relation PollingInv describes, in every execution of the poll
\* processor, the coordinator, the queue and the cancel route.
THEOREM PollingInvariant == Spec => []PollingInv
  BY InitHolds, StepKeeps, PTL DEF Spec

-----------------------------------------------------------------------------
(* What follows from it. *)

\* claimPoll and pollClaimWhere fence the slots off each other: no two
\* outstanding claims match the row.
THEOREM OneClaimIsValid == Spec => []OneValidClaim
  <1>1. PollingInv => OneValidClaim
    BY ZenonT(60) DEF PollingInv, LeasesAreDistinct, OneValidClaim, PollClaimWhere
  <1> QED  BY <1>1, PollingInvariant, PTL

\* markDownloadPending writes the usage records of a task at most once.
THEOREM UsageIsRecordedOnce == Spec => []UsageRecordedOnce
  <1>1. PollingInv => UsageRecordedOnce
    BY DEF PollingInv, TypeOK, UsageWithOutput, UsageRecordedOnce
  <1> QED  BY <1>1, PollingInvariant, PTL

\* A row never announces an end, or releases the reference object, that the
\* Provider's task did not reach.
THEOREM EndsMatchRemote == Spec => []EndMatchesRemote
  <1>1. PollingInv => EndMatchesRemote
    BY DEF PollingInv
  <1> QED  BY <1>1, PollingInvariant, PTL

\* Whatever findRecoverablePolls returns, claimPoll accepts at that moment.
THEOREM RecoverablePollsAreClaimable == Spec => []RecoverableIsClaimable
  <1>1. PollingInv => RecoverableIsClaimable
    BY DEF PollingInv, RowIsPolled, RecoverableIsClaimable, RecoverablePoll,
           PollReadable, ClaimPollWhere
  <1> QED  BY <1>1, PollingInvariant, PTL

-----------------------------------------------------------------------------
(* What a single step may write. *)

\* The five results a poll job can write.
Results(r) == {ExpireLocalPoll(r), StopPollingForManualReview(r),
               MarkDownloadPending(r, now, now + MaxDuration)}
              \cup {ScheduleNextPoll(r, t) : t \in Nat}
              \cup {MarkProviderEnded(r, s) : s \in RemoteEnd \ {"SUCCEEDED"}}

Leases(w) == /\ ~Claimed(w) /\ Others(w)
             /\ row.status = "PROCESSING"
             /\ row' = ClaimPoll(row, slot[w].claim.leaseUntil)

Writes(w) == /\ Claimed(w) /\ Others(w)
             /\ PollClaimWhere(row, slot[w].claim)
             /\ row' \in Results(row)

\* A step that changes the row takes a lease, writes the result of a claim
\* that matches, or cancels.
LEMMA RowWrites ==
  ASSUME PollingInv, Next, row' # row
  PROVE  UserCancel \/ \E w \in Workers : Leases(w) \/ Writes(w)
  <1>0. /\ slot \in [Workers -> Slot] /\ now \in Nat
        /\ \A d \in Delays : now + d \in Nat
    BY PollingAssumption DEF PollingInv, TypeOK
  <1>1. \A w \in Workers : Release(w) => Others(w)
    BY DEF Release, Others
  <1>2. ASSUME NEW w \in Workers, Advance(w)
        PROVE  Leases(w) \/ Writes(w)
    <2>1. CASE TakeLease(w)
      <3>1. ClaimPollWhere(row, slot[w].claim.providerTaskId, slot[w].version,
                           slot[w].startedAt)
        BY <2>1 DEF TakeLease
      <3>2. /\ slot[w].step = "read"
            /\ row' = ClaimPoll(row, slot[w].claim.leaseUntil)
            /\ Goto(w, IF slot[w].startedAt >= slot[w].claim.pollDeadlineAt
                         THEN "expire" ELSE "query")
        BY <2>1, <3>1 DEF TakeLease
      <3>3. Others(w) /\ ~Claimed(w)
        BY <3>2 DEF Goto, Others, Claimed
      <3> QED  BY <3>1, <3>2, <3>3 DEF Leases, ClaimPollWhere
    <2>2. CASE ExpireAtStart(w)
      BY <1>1, <2>2 DEF ExpireAtStart, Writes, Claimed, Results
    <2>3. ASSUME NEW d \in Delays, ScheduleNext(w, now + d), Claimed(w)
          PROVE  Writes(w)
      <3>1. /\ PollClaimWhere(row, slot[w].claim)
            /\ row' = ScheduleNextPoll(row, now + d) /\ Goto(w, "schedule")
        BY <2>3 DEF ScheduleNext
      <3>2. row' \in Results(row)
        BY <1>0, <3>1 DEF Results
      <3>3. Others(w)
        BY <3>1 DEF Goto, Others
      <3> QED  BY <2>3, <3>1, <3>2, <3>3 DEF Writes
    <2>4. CASE SnapshotProcessing(w)
      BY <2>3, <2>4 DEF SnapshotProcessing, Claimed
    <2>5. CASE SnapshotSucceeded(w)
      BY <1>1, <2>5 DEF SnapshotSucceeded, Writes, Claimed, Results
    <2>6. CASE SnapshotEnded(w)
      <3>1. /\ PollClaimWhere(row, slot[w].claim)
            /\ row' = MarkProviderEnded(row, slot[w].answer)
            /\ slot[w].answer \in RemoteEnd \ {"SUCCEEDED"}
            /\ Claimed(w)
        BY <2>6 DEF SnapshotEnded, Claimed
      <3>2. Release(w) \/ Breaks(w)
        BY <2>6 DEF SnapshotEnded
      <3>3. Others(w)
        BY <1>0, <1>1, <3>2, BreaksSlot
      <3>4. row' \in Results(row)
        BY <3>1 DEF Results
      <3> QED  BY <3>1, <3>3, <3>4 DEF Writes
    <2>7. CASE RetryableError(w)
      <3>1. PICK d \in Delays :
              IF now + d >= slot[w].claim.pollDeadlineAt
                THEN /\ row' = IF PollClaimWhere(row, slot[w].claim)
                                 THEN ExpireLocalPoll(row) ELSE row
                     /\ Release(w)
                ELSE ScheduleNext(w, now + d)
        BY <2>7 DEF RetryableError
      <3>2. Claimed(w)
        BY <2>7 DEF RetryableError, Claimed
      <3>3. CASE now + d >= slot[w].claim.pollDeadlineAt
        BY <1>1, <3>1, <3>2, <3>3 DEF Writes, Results
      <3>4. CASE ~(now + d >= slot[w].claim.pollDeadlineAt)
        BY <2>3, <3>1, <3>2, <3>4
      <3> QED  BY <3>3, <3>4
    <2>8. CASE UnclassifiedError(w)
      BY <1>1, <2>8 DEF UnclassifiedError, Writes, Claimed, Results
    <2> QED  BY <1>2, <2>1, <2>2, <2>4, <2>5, <2>6, <2>7, <2>8
             DEF Advance, ReadForClaim, Query, ScheduleJob
  <1> QED  BY <1>2 DEF Next, Deliver, Fault, SnapshotWriteFails, Abort, Stall,
                       LoseJob, FindRecoverable, EnqueueFound, RemoteEnds, Tick

\* No late result, late claim or cancellation touches a row whose status is
\* final: every update of the row compares the status again.
THEOREM FinalStaysFinal == Spec => FinalIsFinal
  <1>1. ASSUME PollingInv, [Next]_vars, row.status \in FinalStatus
        PROVE  row' = row
    <2>1. row.status # "PROCESSING" /\ ~CancelWhere(row)
      BY <1>1 DEF FinalStatus, CancelWhere, CancellableStatus
    <2>2. CASE UNCHANGED vars
      BY <2>2 DEF vars
    <2>3. CASE Next
      BY <1>1, <2>1, <2>3, RowWrites DEF UserCancel, Leases, Writes, PollClaimWhere
    <2> QED  BY <1>1, <2>2, <2>3
  <1>2. PollingInv /\ [Next]_vars => [row.status \in FinalStatus => row' = row]_vars
    BY <1>1
  <1> QED  BY <1>2, PollingInvariant, PTL DEF Spec, FinalIsFinal

\* A poll job that writes under its claim held the row's lease, of
\* the row's version, when it wrote.
THEOREM ResultsNeedTheLease == Spec => ResultNeedsLease
  <1> DEFINE Fenced == \A w \in Workers :
               Claimed(w) /\ slot'[w] # slot[w] /\ row' # row =>
                 /\ row.pollLeaseUntil = slot[w].startedAt + LeaseLength
                 /\ row.pollVersion = slot[w].version
  <1>1. ASSUME PollingInv, [Next]_vars, NEW w \in Workers,
               Claimed(w), slot'[w] # slot[w], row' # row
        PROVE  /\ row.pollLeaseUntil = slot[w].startedAt + LeaseLength
               /\ row.pollVersion = slot[w].version
    <2>1. Next
      BY <1>1 DEF vars
    <2>2. ~UNCHANGED slot
      BY <1>1 DEF Claimed
    <2>3. PICK v \in Workers : Leases(v) \/ Writes(v)
      BY <1>1, <2>1, <2>2, RowWrites DEF UserCancel
    <2>4. v = w
      BY <1>1, <2>3 DEF Leases, Writes, Others, Claimed
    <2>5. PollClaimWhere(row, slot[w].claim)
      BY <1>1, <2>3, <2>4 DEF Leases, Writes
    <2>6. /\ slot[w].claim.pollVersion = slot[w].version
          /\ slot[w].claim.leaseUntil = slot[w].startedAt + LeaseLength
      BY <1>1 DEF PollingInv, ClaimsAreRecorded, Claimed
    <2> QED  BY <2>5, <2>6 DEF PollClaimWhere
  <1>2. PollingInv /\ [Next]_vars => [Fenced]_vars
    BY <1>1
  <1> QED  BY <1>2, PollingInvariant, PTL DEF Spec, ResultNeedsLease

\* Polling moves the status, the Provider's identifier and the cleanup gate
\* only along the steps of TaskLifecycle.
THEOREM FollowsLifecycle == Spec => LifecycleSteps
  <1>1. ASSUME PollingInv, Next, row' # row
        PROVE  Lifecycle!Next \/ UNCHANGED <<row.status, row.providerTaskId, row.cleanupReady>>
    <2>0. row \in TaskRow /\ slot \in [Workers -> Slot] /\ now \in Nat /\ now + MaxDuration \in Nat
      BY <1>1, PollingAssumption DEF PollingInv, TypeOK
    <2>1. CASE UserCancel
      <3>1. /\ row'.status = "CANCELLED" /\ row'.providerTaskId = row.providerTaskId
            /\ row'.cleanupReady = row.cleanupReady
        BY <2>0, <2>1, CancelTaskFields DEF UserCancel
      <3> QED  BY <2>1, <3>1 DEF UserCancel, CancelWhere, CancellableStatus,
                                 Lifecycle!Cancel, Lifecycle!Next
    <2>2. ASSUME NEW w \in Workers, Leases(w)
          PROVE  UNCHANGED <<row.status, row.providerTaskId, row.cleanupReady>>
      <3>1. slot[w].claim.leaseUntil \in Nat
        BY <2>0 DEF Slot, PollClaim
      <3> QED  BY <2>0, <2>2, <3>1, ClaimPollFields DEF Leases
    <2>3. ASSUME NEW w \in Workers, Writes(w)
          PROVE  Lifecycle!Next \/ UNCHANGED <<row.status, row.providerTaskId, row.cleanupReady>>
      <3>0. row.status = "PROCESSING"
        BY <2>3 DEF Writes, PollClaimWhere
      <3>1. CASE row' = ExpireLocalPoll(row)
        <4>1. /\ row'.status = "RECONCILIATION_REQUIRED"
              /\ row'.providerTaskId = row.providerTaskId /\ row'.cleanupReady = FALSE
          BY <2>0, <3>1, ExpireLocalPollFields
        <4> QED  BY <3>0, <4>1 DEF Lifecycle!LoseTrack, Lifecycle!Next
      <3>2. CASE row' = StopPollingForManualReview(row)
        BY <2>0, <3>2, StopPollingFields
      <3>3. CASE row' = MarkDownloadPending(row, now, now + MaxDuration)
        BY <2>0, <3>3, MarkDownloadPendingFields
      <3>4. ASSUME NEW t \in Nat, row' = ScheduleNextPoll(row, t)
            PROVE  UNCHANGED <<row.status, row.providerTaskId, row.cleanupReady>>
        BY <2>0, <3>4, ScheduleNextPollFields
      <3>5. ASSUME NEW s \in RemoteEnd \ {"SUCCEEDED"}, row' = MarkProviderEnded(row, s)
            PROVE  Lifecycle!Next
        <4>1. s \in FinalStatus /\ s \in Lifecycle!Final
          BY DEF RemoteEnd, FinalStatus, Lifecycle!Final
        <4>2. /\ row'.status = s /\ row'.providerTaskId = row.providerTaskId
              /\ row'.cleanupReady = TRUE
          BY <2>0, <3>5, <4>1, MarkProviderEndedFields
        <4> QED  BY <3>0, <4>1, <4>2 DEF Lifecycle!Finish, Lifecycle!Next
      <3> QED  BY <2>3, <3>1, <3>2, <3>3, <3>4, <3>5 DEF Writes, Results
    <2> QED  BY <1>1, <2>1, <2>2, <2>3, RowWrites
  <1>2. PollingInv /\ [Next]_vars =>
          [Lifecycle!Next]_<<row.status, row.providerTaskId, row.cleanupReady>>
    BY <1>1 DEF vars
  <1> QED  BY <1>2, PollingInvariant, PTL DEF Spec, LifecycleSteps
=============================================================================
