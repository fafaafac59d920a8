------------------------------- MODULE Polling -------------------------------
(***************************************************************************)
(* The life of an accepted task until its output is ready or its polling   *)
(* ends: the poll processor of task-processor.ts run by the worker's two   *)
(* job slots, the claim and result updates of TaskStore, the BullMQ queue  *)
(* with its deterministic job ids, the coordinator of poll-coordinator.ts, *)
(* the cancel route and the Provider's own progress.                       *)
(*                                                                         *)
(* One task is modelled: rows share nothing but the slots and the          *)
(* coordinator's batches.  A slot is the sequence of awaits of one job:    *)
(* between any two of them every other actor may run, the process may die, *)
(* and BullMQ may hand the same job to the other slot.                     *)
(***************************************************************************)
EXTENDS TaskStore, BridgeClient

CONSTANTS Workers,        \* job slots (concurrency of the queue worker)
          LeaseLength,    \* requestTimeoutMs + 1000, in clock units
          Delays,         \* values of jitteredDelay and of the error backoff
          MaxDuration,    \* policy.maxDurationMs
          FaultsUntil,    \* bound: faults happen, and slots dawdle, before it
          MaxTime         \* bound: the clock stops here

ASSUME PollingAssumption ==
  /\ LeaseLength \in Nat \ {0}
  /\ Delays \subseteq Nat \ {0}
  /\ MaxDuration \in Nat
  /\ FaultsUntil \in Nat
  /\ MaxTime \in Nat

VARIABLES row,       \* the VideoTask row
          now,       \* the clock every `new Date()` reads
          queue,     \* poll versions waiting or delayed in Redis
          found,     \* the version the coordinator has read and not enqueued, or 0
          slot,      \* slot[w]: the job slot w runs and how far it is
          remote,    \* the Provider's own state of the task
          usage      \* number of times usage records were written

vars == <<row, now, queue, found, slot, remote, usage>>

RemoteEnd == {"SUCCEEDED", "FAILED", "CANCELLED", "EXPIRED"}
RemoteStatus == {"RUNNING"} \cup RemoteEnd

\* What getTask yields: a snapshot's status, or a retryable error, or an
\* error the processor does not retry (a succeeded task without a video is one).
Answers(status) ==
  {IF status = "RUNNING" THEN "PROCESSING" ELSE status} \cup
  {IF Retryable("GET", error) THEN "RETRYABLE" ELSE "UNCLASSIFIED" : error \in QueryErrors}
Answer == {"none", "PROCESSING", "RETRYABLE", "UNCLASSIFIED", "DATABASE"} \cup RemoteEnd

PollSteps == {"idle", "started", "read", "expire", "query", "answered",
              "failed", "schedule"}
Slot == [step: PollSteps, version: Nat, startedAt: Nat, owner: BOOLEAN,
         claim: PollClaim, answer: Answer]
IdleSlot == [step |-> "idle", version |-> 0, startedAt |-> 0, owner |-> FALSE,
             claim |-> NoPollClaim, answer |-> "none"]

\* The slot has taken a claim and will still write a result under it.
Claimed(w) == slot[w].step \in {"expire", "query", "answered", "failed"}

\* BullMQ refuses a job id that is still waiting, delayed or active.
JobExists(v) == v \in queue \/ \E w \in Workers : slot[w].owner /\ slot[w].version = v
Enqueued(v) == IF JobExists(v) THEN queue ELSE queue \cup {v}

\* The job leaves its slot; an owned job is removed from Redis (removeOnComplete,
\* removeOnFail), so nothing of it is left.
Release(w) == slot' = [slot EXCEPT ![w] = IdleSlot]
Goto(w, step) == slot' = [slot EXCEPT ![w].step = step]

-----------------------------------------------------------------------------
\* The row acceptSubmission leaves at time 1, and the poll job it schedules:
\* the enqueue may have failed.
Init == /\ \E id \in ProviderTaskIds, d \in Delays :
             row = AcceptSubmission(ClaimSubmission(QueuedRow), id, 1 + d, 1 + MaxDuration)
        /\ now = 1
        /\ queue \in {{}, {1}}
        /\ found = 0
        /\ slot = [w \in Workers |-> IdleSlot]
        /\ remote = "RUNNING"
        /\ usage = 0

\* A slot takes a job and reads the clock.  The delay of a job is not
\* modelled: a job handed out early is refused by the claim below.
Deliver(w) ==
  /\ slot[w].step = "idle"
  /\ \E v \in queue :
       /\ queue' = queue \ {v}
       /\ slot' = [slot EXCEPT ![w] = [IdleSlot EXCEPT !.step = "started",
                     !.version = v, !.startedAt = now, !.owner = TRUE]]
  /\ UNCHANGED <<row, now, found, remote, usage>>

\* claimPoll, first half: the row is read and most jobs are turned away.
ReadForClaim(w) ==
  /\ slot[w].step = "started"
  /\ IF PollReadable(row, slot[w].version, slot[w].startedAt)
       THEN slot' = [slot EXCEPT ![w].step = "read",
                       ![w].claim = [providerTaskId |-> row.providerTaskId,
                                     pollVersion |-> slot[w].version,
                                     pollDeadlineAt |-> row.pollDeadlineAt,
                                     leaseUntil |-> slot[w].startedAt + LeaseLength]]
       ELSE Release(w)
  /\ UNCHANGED <<row, now, queue, found, remote, usage>>

\* claimPoll, second half: the compare-and-set that takes the lease.  The
\* processor then asks the Provider, or gives up when the deadline has passed.
TakeLease(w) ==
  /\ slot[w].step = "read"
  /\ IF ClaimPollWhere(row, slot[w].claim.providerTaskId, slot[w].version,
                       slot[w].startedAt)
       THEN /\ row' = ClaimPoll(row, slot[w].claim.leaseUntil)
            /\ Goto(w, IF slot[w].startedAt >= slot[w].claim.pollDeadlineAt
                         THEN "expire" ELSE "query")
       ELSE Release(w) /\ UNCHANGED row
  /\ UNCHANGED <<now, queue, found, remote, usage>>

ExpireAtStart(w) ==
  /\ slot[w].step = "expire"
  /\ row' = IF PollClaimWhere(row, slot[w].claim) THEN ExpireLocalPoll(row) ELSE row
  /\ Release(w)
  /\ UNCHANGED <<now, queue, found, remote, usage>>

\* provider.getTask: the Provider answers, or the call fails.
Query(w) ==
  /\ slot[w].step = "query"
  /\ \E a \in Answers(remote) :
       slot' = [slot EXCEPT ![w].answer = a,
                  ![w].step = IF a \in {"RETRYABLE", "UNCLASSIFIED"}
                                THEN "failed" ELSE "answered"]
  /\ UNCHANGED <<row, now, queue, found, remote, usage>>

\* scheduleNextPoll, then the job of the next version.
ScheduleNext(w, nextPollAt) ==
  IF PollClaimWhere(row, slot[w].claim)
    THEN row' = ScheduleNextPoll(row, nextPollAt) /\ Goto(w, "schedule")
    ELSE Release(w) /\ UNCHANGED row

\* handleSnapshot, one action per status of the snapshot.
SnapshotProcessing(w) ==
  /\ slot[w].step = "answered" /\ slot[w].answer = "PROCESSING"
  /\ \E d \in Delays : ScheduleNext(w, now + d)
  /\ UNCHANGED <<now, queue, found, remote, usage>>

SnapshotSucceeded(w) ==
  /\ slot[w].step = "answered" /\ slot[w].answer = "SUCCEEDED"
  /\ IF PollClaimWhere(row, slot[w].claim)
       THEN /\ row' = MarkDownloadPending(row, now, now + MaxDuration)
            /\ usage' = usage + 1
       ELSE UNCHANGED <<row, usage>>
  /\ Release(w)
  /\ UNCHANGED <<now, queue, found, remote>>

\* An error of the database inside the try block goes to the handler of the
\* Provider's errors, as one that is not retryable.
Breaks(w) == slot' = [slot EXCEPT ![w].step = "failed", ![w].answer = "DATABASE"]

\* The reference object is cleaned up next, in the same try block: an error
\* there finds a row that is over.
SnapshotEnded(w) ==
  /\ slot[w].step = "answered"
  /\ slot[w].answer \in RemoteEnd \ {"SUCCEEDED"}
  /\ IF PollClaimWhere(row, slot[w].claim)
       THEN /\ row' = MarkProviderEnded(row, slot[w].answer)
            /\ Release(w) \/ (now < FaultsUntil /\ Breaks(w))
       ELSE Release(w) /\ UNCHANGED row
  /\ UNCHANGED <<now, queue, found, remote, usage>>

\* The transaction of handleSnapshot is rolled back.
SnapshotWriteFails(w) ==
  /\ now < FaultsUntil
  /\ slot[w].step = "answered"
  /\ Breaks(w)
  /\ UNCHANGED <<row, now, queue, found, remote, usage>>

\* handlePollError for a retryable error: back off, unless the next poll
\* would fall on or after the deadline.
RetryableError(w) ==
  /\ slot[w].step = "failed" /\ slot[w].answer = "RETRYABLE"
  /\ \E d \in Delays :
       IF now + d >= slot[w].claim.pollDeadlineAt
         THEN /\ row' = IF PollClaimWhere(row, slot[w].claim)
                          THEN ExpireLocalPoll(row) ELSE row
              /\ Release(w)
         ELSE ScheduleNext(w, now + d)
  /\ UNCHANGED <<now, queue, found, remote, usage>>

\* handlePollError for every other error: polling stops, for good.
UnclassifiedError(w) ==
  /\ slot[w].step = "failed" /\ slot[w].answer \in {"UNCLASSIFIED", "DATABASE"}
  /\ row' = IF PollClaimWhere(row, slot[w].claim)
              THEN StopPollingForManualReview(row) ELSE row
  /\ Release(w)
  /\ UNCHANGED <<now, queue, found, remote, usage>>

\* scheduler.schedulePoll after the commit: its failure is swallowed.
ScheduleJob(w) ==
  /\ slot[w].step = "schedule"
  /\ queue' \in {queue, Enqueued(slot[w].version + 1)}
  /\ Release(w)
  /\ UNCHANGED <<row, now, found, remote, usage>>

\* The process dies, or a database call of the job throws where nothing
\* catches it: the job is gone, or BullMQ finds it stalled and requeues it.
Abort(w) ==
  /\ now < FaultsUntil
  /\ slot[w].step # "idle"
  /\ queue' \in {queue} \cup
                (IF slot[w].owner THEN {queue \cup {slot[w].version}} ELSE {})
  /\ Release(w)
  /\ UNCHANGED <<row, now, found, remote, usage>>

\* BullMQ takes a slow slot for stalled: its job is requeued while it runs on.
Stall(w) ==
  /\ now < FaultsUntil
  /\ slot[w].owner
  /\ queue' = queue \cup {slot[w].version}
  /\ slot' = [slot EXCEPT ![w].owner = FALSE]
  /\ UNCHANGED <<row, now, found, remote, usage>>

\* Redis loses a waiting job.
LoseJob ==
  /\ now < FaultsUntil
  /\ \E v \in queue : queue' = queue \ {v}
  /\ UNCHANGED <<row, now, found, slot, remote, usage>>

-----------------------------------------------------------------------------
\* The coordinator reads the rows that are due ...
FindRecoverable ==
  /\ found = 0
  /\ RecoverablePoll(row, now)
  /\ found' = row.pollVersion
  /\ UNCHANGED <<row, now, queue, slot, remote, usage>>

\* ... and enqueues what it read.
EnqueueFound ==
  /\ found # 0
  /\ queue' = Enqueued(found)
  /\ found' = 0
  /\ UNCHANGED <<row, now, slot, remote, usage>>

\* POST /api/tasks/:taskId/cancel.
UserCancel ==
  /\ CancelWhere(row)
  /\ row' = CancelTask(row)
  /\ UNCHANGED <<now, queue, found, slot, remote, usage>>

RemoteEnds ==
  /\ remote = "RUNNING"
  /\ remote' \in RemoteEnd
  /\ UNCHANGED <<row, now, queue, found, slot, usage>>

\* Before FaultsUntil a slot may be slow without limit.  From then on a slot
\* finishes within its lease, which the code sizes as the request timeout
\* plus a second for that purpose.
Tick ==
  /\ now < MaxTime
  /\ now >= FaultsUntil =>
       \A w \in Workers : slot[w].step = "idle" \/ now < slot[w].startedAt + LeaseLength
  /\ now' = now + 1
  /\ UNCHANGED <<row, queue, found, slot, remote, usage>>

-----------------------------------------------------------------------------
Advance(w) == \/ ReadForClaim(w) \/ TakeLease(w) \/ ExpireAtStart(w) \/ Query(w)
              \/ SnapshotProcessing(w) \/ SnapshotSucceeded(w) \/ SnapshotEnded(w)
              \/ RetryableError(w) \/ UnclassifiedError(w) \/ ScheduleJob(w)

Fault(w) == SnapshotWriteFails(w) \/ Abort(w) \/ Stall(w)

Next == \/ \E w \in Workers : Deliver(w) \/ Advance(w) \/ Fault(w)
        \/ LoseJob \/ FindRecoverable \/ EnqueueFound
        \/ UserCancel \/ RemoteEnds \/ Tick

Spec == Init /\ [][Next]_vars

\* The clock runs, the worker serves its queue and the jobs it has started,
\* the coordinator's timer fires.  Nothing is assumed of users, the Provider
\* or faults.
Fairness == /\ WF_vars(Tick)
            /\ \A w \in Workers : WF_vars(Deliver(w)) /\ WF_vars(Advance(w))
            /\ WF_vars(FindRecoverable) /\ WF_vars(EnqueueFound)

FairSpec == Spec /\ Fairness
-----------------------------------------------------------------------------
TypeOK ==
  /\ row \in TaskRow
  /\ now \in Nat
  /\ queue \subseteq Nat
  /\ found \in Nat
  /\ slot \in [Workers -> Slot]
  /\ remote \in RemoteStatus
  /\ usage \in Nat

\* The claim a slot holds belongs to its job, and is not from the future.
ClaimsAreRecorded ==
  \A w \in Workers : slot[w].step \notin {"idle", "started"} =>
    /\ slot[w].claim.pollVersion = slot[w].version
    /\ slot[w].claim.leaseUntil = slot[w].startedAt + LeaseLength
    /\ slot[w].claim.pollVersion <= row.pollVersion

InPolling == row.status = "PROCESSING" /\ row.nextPollAt # Never

\* While the row can still be claimed, no outstanding claim outlives its lease.
LeaseIsLatest ==
  \A w \in Workers :
    /\ Claimed(w)
    /\ slot[w].claim.pollVersion = row.pollVersion
    /\ InPolling /\ ~row.downloadPending
    => slot[w].claim.leaseUntil <= row.pollLeaseUntil

\* Two claims of the same version never carry the same lease.
LeasesAreDistinct ==
  \A v, w \in Workers :
    /\ v # w /\ Claimed(v) /\ Claimed(w)
    /\ slot[v].claim.pollVersion = slot[w].claim.pollVersion
    => slot[v].claim.leaseUntil # slot[w].claim.leaseUntil

RowIsPolled ==
  /\ row.providerTaskId # NoId
  /\ row.pollVersion > 0
  /\ row.pollDeadlineAt # Never

\* A final answer a slot holds is what the Provider still says.
AnswersAreFinal ==
  \A w \in Workers :
    slot[w].step = "answered" /\ slot[w].answer \in RemoteEnd => remote = slot[w].answer

UsageWithOutput == usage = 0 \/ (usage = 1 /\ row.downloadPending)

\* At no time could two slots both write a result: whatever stalls, crashes
\* and redeliveries did, at most one outstanding claim still matches the row.
OneValidClaim ==
  \A v, w \in Workers :
    Claimed(v) /\ Claimed(w) /\ PollClaimWhere(row, slot[v].claim)
               /\ PollClaimWhere(row, slot[w].claim) => v = w

\* Usage is billed once, however often the succeeded snapshot was read.
UsageRecordedOnce == usage <= 1

\* The task awaits its download only when the Provider has the output, and
\* its reference object is released only when the Provider's task has ended
\* in the state the row shows.  A row ends FAILED or EXPIRED in no other way.
EndMatchesRemote ==
  /\ row.downloadPending => remote = "SUCCEEDED"
  /\ row.cleanupReady => remote = row.status
  /\ row.status \in {"FAILED", "EXPIRED"} => row.cleanupReady

\* The invariant the proofs use: inductive, it implies the four above and below.
PollingInv ==
  /\ TypeOK /\ ClaimsAreRecorded /\ LeaseIsLatest /\ LeasesAreDistinct
  /\ RowIsPolled /\ AnswersAreFinal /\ UsageWithOutput /\ EndMatchesRemote

\* What the coordinator finds, a slot can claim: no row is enqueued again
\* and again to be refused each time.
RecoverableIsClaimable ==
  RecoverablePoll(row, now) =>
    /\ PollReadable(row, row.pollVersion, now)
    /\ ClaimPollWhere(row, row.providerTaskId, row.pollVersion, now)

\* A late result, a late claim or a second job leaves a finished row alone.
FinalIsFinal == [][row.status \in FinalStatus => row' = row]_vars

\* A claim that lost its lease to another slot, or whose task moved on,
\* changes nothing: a result is only written for the latest lease.
ResultNeedsLease ==
  [][\A w \in Workers :
       Claimed(w) /\ slot'[w] # slot[w] /\ row' # row =>
         /\ row.pollLeaseUntil = slot[w].startedAt + LeaseLength
         /\ row.pollVersion = slot[w].version]_vars

\* The status, the identifier and the cleanup gate follow TaskLifecycle.
Lifecycle == INSTANCE TaskLifecycle WITH
  status <- row.status, providerTaskId <- row.providerTaskId,
  cleanupReady <- row.cleanupReady
LifecycleSteps == [][Lifecycle!Next]_<<row.status, row.providerTaskId, row.cleanupReady>>

\* Polling ends: lost jobs, dead workers and swallowed enqueue errors leave a
\* row the coordinator finds again, at the latest when the deadline passes.
PollingEnds == InPolling ~> ~InPolling
=============================================================================
