------------------------------ MODULE Submission ------------------------------
(***************************************************************************)
(* The life of a task from POST /api/tasks until the Provider's identifier *)
(* is bound or the submission has failed: the submit processor of          *)
(* task-processor.ts on the worker's job slots, the writes of TaskStore,   *)
(* the BullMQ submit job, the reference object on EOS and its cleanup, the *)
(* cancel route and the reconciliation script, composed with the Bridge.   *)
(*                                                                         *)
(* One task with one reference image.  The publisher draws a random object *)
(* key, so no two tasks share an object.  The clock plays no part here:    *)
(* timeouts may strike at any moment.                                      *)
(***************************************************************************)
EXTENDS TaskStore, BridgeClient, FiniteSets

CONSTANTS Workers,        \* job slots; slot w's create is served by thread w
          HttpStatuses,   \* the statuses the Provider answers with
          Reconciles,     \* whether an operator runs the script
          OperatorWaits,  \* whether he confirms only once the request is over
          Faults,         \* kinds of faults that happen
          MaxFaults       \* bound: how many of them

FaultKinds == {"crash", "stall", "lostJob", "database"}
ASSUME SubmissionAssumption ==
  /\ Reconciles \in BOOLEAN /\ OperatorWaits \in BOOLEAN
  /\ Faults \subseteq FaultKinds
  /\ MaxFaults \in Nat

VARIABLES row,          \* the VideoTask row
          submission,   \* its ProviderSubmission row
          job,          \* the submit job in Redis; its id is fixed by the task
          slot,         \* slot[w]: how far slot w is with the job
          asset,        \* the object on EOS and its PublishedProviderAsset row
          timer,        \* whether the cleanup timer is about to delete the object
          operator,     \* the reconciliation script
          requests,     \* create requests the worker has sent
          faults,       \* faults so far
          registry, handler, remote, calls   \* the Bridge

B == INSTANCE Bridge WITH Handlers <- Workers

bridge == <<registry, handler, remote, calls>>
vars == <<row, submission, job, slot, asset, timer, operator, requests, faults,
          registry, handler, remote, calls>>

SubmissionStatus == {"NONE", "ATTEMPTING", "ACCEPTED", "OUTCOME_UNKNOWN", "NOT_CREATED"}
SubmissionRow == [status: SubmissionStatus, providerTaskId: ProviderIdOrNull]

JobStates == {"none", "waiting", "active", "failed"}
SubmitSteps == {"idle", "load", "claim", "publish", "record", "discard", "create",
                "waiting", "recover", "recoverOnly", "accept", "unknown",
                "failed", "cleanup", "erase"}
Slot == [step: SubmitSteps, owner: BOOLEAN, id: ProviderIdOrNull]
IdleSlot == [step |-> "idle", owner |-> FALSE, id |-> NoId]

Asset == [stored: BOOLEAN, record: {"none", "active", "deleted"}]

Operator == [step: {"idle", "registry", "write", "erase"},
             outcome: {"none", "ACCEPTED", "NOT_CREATED"}, id: ProviderIdOrNull]
IdleOperator == [step |-> "idle", outcome |-> "none", id |-> NoId]

-----------------------------------------------------------------------------
\* The row is committed; the enqueue after it may fail.
Init == /\ row = QueuedRow
        /\ submission = [status |-> "NONE", providerTaskId |-> NoId]
        /\ job \in {"waiting"} \cup (IF "lostJob" \in Faults THEN {"none"} ELSE {})
        /\ slot = [w \in Workers |-> IdleSlot]
        /\ asset = [stored |-> FALSE, record |-> "none"]
        /\ timer = FALSE
        /\ operator = IdleOperator
        /\ requests = 0
        /\ faults = 0
        /\ B!Init

\* The job is over: done (and removed), thrown (and kept), for the slot that
\* still owns it.
Goto(w, step) == slot' = [slot EXCEPT ![w].step = step]
Leave(w, outcome) == /\ slot' = [slot EXCEPT ![w] = IdleSlot]
                     /\ job' = IF slot[w].owner THEN outcome ELSE job
Finish(w) == Leave(w, "none")
Throw(w) == Leave(w, "failed")

Fault(kind) == /\ kind \in Faults /\ faults < MaxFaults
               /\ faults' = faults + 1

-----------------------------------------------------------------------------
(* createSubmitProcessor. *)

Deliver(w) ==
  /\ slot[w].step = "idle" /\ job = "waiting"
  /\ job' = "active"
  /\ slot' = [slot EXCEPT ![w] = [IdleSlot EXCEPT !.step = "load", !.owner = TRUE]]
  /\ UNCHANGED <<row, submission, asset, timer, operator, requests, faults, bridge>>

\* loadSubmissionTask, and what its status decides.
Load(w) ==
  /\ slot[w].step = "load"
  /\ CASE row.status = "QUEUED" -> Goto(w, "claim") /\ UNCHANGED job
       [] row.status = "SUBMITTING" /\ submission.providerTaskId # NoId ->
            /\ slot' = [slot EXCEPT ![w].step = "accept", ![w].id = submission.providerTaskId]
            /\ UNCHANGED job
       [] row.status = "SUBMITTING" /\ submission.providerTaskId = NoId ->
            Goto(w, "recoverOnly") /\ UNCHANGED job
       [] OTHER -> Finish(w)
  /\ UNCHANGED <<row, submission, asset, timer, operator, requests, faults, bridge>>

\* claimSubmission.
Claim(w) ==
  /\ slot[w].step = "claim"
  /\ IF ClaimSubmissionWhere(row)
       THEN /\ row' = ClaimSubmission(row)
            /\ submission' = [submission EXCEPT !.status = "ATTEMPTING"]
            /\ Goto(w, "publish") /\ UNCHANGED job
       ELSE Finish(w) /\ UNCHANGED <<row, submission>>
  /\ UNCHANGED <<asset, timer, operator, requests, faults, bridge>>

\* publishForProvider: upload and sign.  When the signing fails the object is
\* deleted, if that works.
Publish(w) ==
  /\ slot[w].step = "publish"
  /\ \/ asset' = [asset EXCEPT !.stored = TRUE] /\ Goto(w, "record")
     \/ \E left \in BOOLEAN : asset' = [asset EXCEPT !.stored = left] /\ Goto(w, "failed")
  /\ UNCHANGED <<row, submission, job, timer, operator, requests, faults, bridge>>

\* recordPublishedAsset.
Record(w) ==
  /\ slot[w].step = "record"
  /\ asset' = [asset EXCEPT !.record = "active"]
  /\ Goto(w, "create")
  /\ UNCHANGED <<row, submission, job, timer, operator, requests, faults, bridge>>

\* deleteUnrecordedPublishedAssets: the object the database does not know of.
Discard(w) ==
  /\ slot[w].step = "discard"
  /\ \E left \in BOOLEAN : asset' = [asset EXCEPT !.stored = left]
  /\ Goto(w, "failed")
  /\ UNCHANGED <<row, submission, job, timer, operator, requests, faults, bridge>>

\* createOrRecoverProviderTask: what an error of createTask leads to.
AfterError(error) == IF ConfirmedNotCreated(error) THEN "failed" ELSE "recover"

\* provider.createTask fails without reaching the registry: the parameters are
\* invalid, the bridge refuses it or no connection was made.
NotSent(w) ==
  /\ slot[w].step = "create"
  /\ \E error \in CreateNotSentErrors : Goto(w, AfterError(error))
  /\ UNCHANGED <<row, submission, job, asset, timer, operator, requests, faults, bridge>>

\* provider.createTask sends the request.  (The attempt is recorded before.)
Create(w) ==
  /\ slot[w].step = "create"
  /\ Goto(w, "waiting")
  /\ requests' = requests + 1
  /\ B!Receive(w)
  /\ UNCHANGED <<row, submission, job, asset, timer, operator, faults>>

\* The bridge's reply: an identifier, or an error.
ReadReply(w) ==
  /\ slot[w].step = "waiting" /\ handler[w].step = "replied"
  /\ \/ /\ handler[w].reply = "id"
        /\ slot' = [slot EXCEPT ![w].id = handler[w].id, ![w].step = "accept"]
     \/ /\ handler[w].reply # "id"
        /\ \E r \in B!CreateReplies(handler[w].reply) :
             Goto(w, AfterError(ErrorOf("CREATE", r)))
  /\ B!Close(w)
  /\ UNCHANGED <<row, submission, job, asset, timer, operator, requests, faults>>

\* The request times out, the connection breaks or the reply is unreadable:
\* nobody tells the bridge's thread.
Timeout(w) ==
  /\ slot[w].step = "waiting"
  /\ Goto(w, AfterError(NoReply("CREATE", TRUE)))
  /\ UNCHANGED <<row, submission, job, asset, timer, operator, requests, faults, bridge>>

\* createOrRecoverProviderTask after an unknown outcome.  A recovery that
\* fails finds nothing.
RecoverAfter(w) ==
  /\ slot[w].step = "recover"
  /\ \E id \in {NoId, B!Recover(registry)} :
       slot' = [slot EXCEPT ![w].id = id,
                  ![w].step = IF id = NoId THEN "unknown" ELSE "accept"]
  /\ UNCHANGED <<row, submission, job, asset, timer, operator, requests, faults, bridge>>

\* Mutant: a recovery that finds nothing leaves the task as it is.
RecoverOnlyReturns(w) ==
  /\ slot[w].step = "recoverOnly"
  /\ LET id == B!Recover(registry)
     IN  IF id = NoId THEN Finish(w)
         ELSE /\ slot' = [slot EXCEPT ![w].id = id, ![w].step = "accept"]
              /\ UNCHANGED job
  /\ UNCHANGED <<row, submission, asset, timer, operator, requests, faults, bridge>>

\* The job came back and found the task SUBMITTING: no create, only a
\* recovery, whose failure fails the job.
RecoverOnly(w) ==
  /\ slot[w].step = "recoverOnly"
  /\ LET id == B!Recover(registry)
     IN  slot' = [slot EXCEPT ![w].id = id,
                    ![w].step = IF id = NoId THEN "unknown" ELSE "accept"]
  /\ UNCHANGED <<row, submission, job, asset, timer, operator, requests, faults, bridge>>

\* Mutant: the submission row is written whether or not the task's row still was.
MarkUnknownAnyway(w) ==
  /\ slot[w].step = "unknown"
  /\ row' = IF SubmittingWhere(row) THEN MarkSubmissionOutcomeUnknown(row) ELSE row
  /\ submission' = [submission EXCEPT !.status = "OUTCOME_UNKNOWN"]
  /\ Finish(w)
  /\ UNCHANGED <<asset, timer, operator, requests, faults, bridge>>

\* markSubmissionOutcomeUnknown.
MarkUnknown(w) ==
  /\ slot[w].step = "unknown"
  /\ IF SubmittingWhere(row)
       THEN /\ row' = MarkSubmissionOutcomeUnknown(row)
            /\ submission' = [submission EXCEPT !.status = "OUTCOME_UNKNOWN"]
       ELSE UNCHANGED <<row, submission>>
  /\ Finish(w)
  /\ UNCHANGED <<asset, timer, operator, requests, faults, bridge>>

\* acceptSubmission: the submission row is written whether or not the task's
\* row still was.  The first poll is Polling's concern.
Accept(w) ==
  /\ slot[w].step = "accept"
  /\ row' = IF SubmittingWhere(row) THEN AcceptSubmission(row, slot[w].id, 1, 2) ELSE row
  /\ submission' = [status |-> "ACCEPTED", providerTaskId |-> slot[w].id]
  /\ Finish(w)
  /\ UNCHANGED <<asset, timer, operator, requests, faults, bridge>>

\* markSubmissionFailed.
MarkFailed(w) ==
  /\ slot[w].step = "failed"
  /\ IF SubmittingWhere(row)
       THEN /\ row' = MarkSubmissionFailed(row)
            /\ submission' = [submission EXCEPT !.status = "NOT_CREATED"]
       ELSE UNCHANGED <<row, submission>>
  /\ Goto(w, "cleanup")
  /\ UNCHANGED <<job, asset, timer, operator, requests, faults, bridge>>

-----------------------------------------------------------------------------
(* The reference object. *)

\* Mutant: the gate is not looked at.
PublishedUngated == asset.record = "active"

\* findPublishedAssets.
Published == asset.record = "active" /\ row.cleanupReady

\* deletePublishedAsset and markPublishedAssetDeleted, each of which may fail.
Erase == \/ asset' = [stored |-> FALSE, record |-> "deleted"]
         \/ asset' = [asset EXCEPT !.stored = FALSE]
         \/ UNCHANGED asset

\* cleanupPublishedAssets at the end of a failed submission.
Cleanup(w) ==
  /\ slot[w].step = "cleanup"
  /\ IF Published THEN Goto(w, "erase") /\ UNCHANGED job ELSE Finish(w)
  /\ UNCHANGED <<row, submission, asset, timer, operator, requests, faults, bridge>>

EraseAtEnd(w) ==
  /\ slot[w].step = "erase"
  /\ Erase /\ Finish(w)
  /\ UNCHANGED <<row, submission, timer, operator, requests, faults, bridge>>

\* cleanupTerminalPublishedAssets, run by the cleanup timer.
TimerFinds ==
  /\ ~timer
  /\ Published /\ row.status \in FinalStatus
  /\ timer' = TRUE
  /\ UNCHANGED <<row, submission, job, slot, asset, operator, requests, faults, bridge>>

TimerErases ==
  /\ timer
  /\ timer' = FALSE
  /\ Erase
  /\ UNCHANGED <<row, submission, job, slot, operator, requests, faults, bridge>>

-----------------------------------------------------------------------------
(* The users, and the operator's script. *)

\* POST with the same clientRequestId finds the task and adds its job again;
\* BullMQ ignores an id it still has, that of a failed job included.
Repost ==
  /\ job = "none"
  /\ job' = "waiting"
  /\ UNCHANGED <<row, submission, slot, asset, timer, operator, requests, faults, bridge>>

UserCancel ==
  /\ CancelWhere(row)
  /\ row' = CancelTask(row)
  /\ UNCHANGED <<submission, job, slot, asset, timer, operator, requests, faults, bridge>>

NobodyCanCreate ==
  \A w \in Workers : /\ slot[w].step \notin {"publish", "record", "create"}
                     /\ handler[w].step \notin {"received", "begun"}

\* The operator has looked at the Provider, and requireReconciliationTask
\* lets him through.
OperatorStarts ==
  /\ Reconciles /\ operator.step = "idle"
  /\ ReconcileWhere(row)
  /\ \/ \E id \in remote :
          operator' = [step |-> "registry", outcome |-> "ACCEPTED", id |-> id]
     \/ /\ remote = {}
        /\ OperatorWaits => NobodyCanCreate
        /\ operator' = [step |-> "registry", outcome |-> "NOT_CREATED", id |-> NoId]
  /\ UNCHANGED <<row, submission, job, slot, asset, timer, requests, faults, bridge>>

\* updateBridgeRegistry: whether the registry was updated is not looked at.
TellBridge ==
  /\ operator.step = "registry"
  /\ operator' = [operator EXCEPT !.step = "write"]
  /\ IF operator.outcome = "ACCEPTED" THEN B!ReconcileAccepted(operator.id)
                                      ELSE B!ReconcileNotCreated
  /\ UNCHANGED <<row, submission, job, slot, asset, timer, requests, faults>>

\* bind and confirmNotCreated abort when the task has moved on.  (A row
\* without an identifier still has the version they read.)
BindTask ==
  /\ operator.step = "write" /\ operator.outcome = "ACCEPTED"
  /\ IF ReconcileWhere(row)
       THEN /\ row' = BindSubmission(row, operator.id, row.pollVersion + 1, 1, 2)
            /\ submission' = [status |-> "ACCEPTED", providerTaskId |-> operator.id]
       ELSE UNCHANGED <<row, submission>>
  /\ operator' = IdleOperator
  /\ UNCHANGED <<job, slot, asset, timer, requests, faults, bridge>>

FailTask ==
  /\ operator.step = "write" /\ operator.outcome = "NOT_CREATED"
  /\ IF ReconcileWhere(row)
       THEN /\ row' = ConfirmNotCreated(row)
            /\ submission' = [submission EXCEPT !.status = "NOT_CREATED"]
            /\ operator' = [operator EXCEPT !.step = "erase"]
       ELSE operator' = IdleOperator /\ UNCHANGED <<row, submission>>
  /\ UNCHANGED <<job, slot, asset, timer, requests, faults, bridge>>

\* cleanupTaskObjects.
OperatorErases ==
  /\ operator.step = "erase"
  /\ operator' = IdleOperator
  /\ IF asset.record = "active" THEN Erase ELSE UNCHANGED asset
  /\ UNCHANGED <<row, submission, job, slot, timer, requests, faults, bridge>>

\* The script fails, or is stopped, between two of its steps.
OperatorStops ==
  /\ operator.step # "idle"
  /\ operator' = IdleOperator
  /\ UNCHANGED <<row, submission, job, slot, asset, timer, requests, faults, bridge>>

-----------------------------------------------------------------------------
(* Faults. *)

\* A write on the way to the create throws: nothing was created.
WriteFails(w) ==
  /\ Fault("database")
  /\ slot[w].step \in {"record", "create"}
  /\ Goto(w, IF slot[w].step = "record" THEN "discard" ELSE "failed")
  /\ UNCHANGED <<row, submission, job, asset, timer, operator, requests, bridge>>

\* Any other database call, or the recovery, throws: the job fails.
JobFails(w) ==
  /\ Fault("database")
  /\ slot[w].step \in {"load", "claim", "recoverOnly", "accept", "unknown",
                       "failed", "cleanup"}
  /\ Throw(w)
  /\ UNCHANGED <<row, submission, asset, timer, operator, requests, bridge>>

\* The worker dies; BullMQ requeues the stalled job.
Crash(w) ==
  /\ Fault("crash")
  /\ slot[w].step # "idle"
  /\ Leave(w, "waiting")
  /\ UNCHANGED <<row, submission, asset, timer, operator, requests, bridge>>

\* BullMQ takes a slow slot for stalled: the job is requeued while it runs on.
Stall(w) ==
  /\ Fault("stall")
  /\ slot[w].owner
  /\ job' = "waiting"
  /\ slot' = [slot EXCEPT ![w].owner = FALSE]
  /\ UNCHANGED <<row, submission, asset, timer, operator, requests, bridge>>

\* Redis loses the job, or BullMQ gives a job up that stalled too often.
LoseJob ==
  /\ Fault("lostJob")
  /\ job = "waiting"
  /\ job' \in {"none", "failed"}
  /\ UNCHANGED <<row, submission, slot, asset, timer, operator, requests, bridge>>

\* The queue keeps the last hundred jobs that failed, of all tasks: another
\* one takes the place of this, and its id is free again.
Evict ==
  /\ job = "failed"
  /\ job' = "none"
  /\ UNCHANGED <<row, submission, slot, asset, timer, operator, requests, faults, bridge>>

BridgeRestarts ==
  /\ B!Restart
  /\ UNCHANGED <<row, submission, job, slot, asset, timer, operator, requests, faults>>

\* A thread of the bridge works on, whether or not the worker still waits.
BridgeServes(w) ==
  /\ B!Serve(w)
  /\ UNCHANGED <<row, submission, job, slot, asset, timer, operator, requests, faults>>

\* Nobody reads the reply, or the thread dies without one.
BridgeCloses(w) ==
  /\ B!Close(w)
  /\ UNCHANGED <<row, submission, job, slot, asset, timer, operator, requests, faults>>

-----------------------------------------------------------------------------
Process(w) == \/ Load(w) \/ Claim(w) \/ Publish(w) \/ Record(w) \/ Discard(w)
              \/ NotSent(w) \/ Create(w) \/ ReadReply(w) \/ Timeout(w)
              \/ RecoverAfter(w) \/ RecoverOnly(w) \/ MarkUnknown(w) \/ Accept(w)
              \/ MarkFailed(w) \/ Cleanup(w) \/ EraseAtEnd(w)

Reconcile == \/ OperatorStarts \/ TellBridge \/ BindTask \/ FailTask
             \/ OperatorErases \/ OperatorStops

Next == \/ \E w \in Workers : \/ Deliver(w) \/ Process(w)
                              \/ BridgeServes(w) \/ BridgeCloses(w)
                              \/ WriteFails(w) \/ JobFails(w) \/ Crash(w) \/ Stall(w)
        \/ LoseJob \/ Evict \/ BridgeRestarts
        \/ TimerFinds \/ TimerErases
        \/ Repost \/ UserCancel \/ Reconcile

Spec == Init /\ [][Next]_vars

\* The worker serves its queue and the jobs it has started.
Fairness == \A w \in Workers : WF_vars(Deliver(w)) /\ WF_vars(Process(w))

FairSpec == Spec /\ Fairness
-----------------------------------------------------------------------------
TypeOK ==
  /\ row \in TaskRow
  /\ submission \in SubmissionRow
  /\ job \in JobStates
  /\ slot \in [Workers -> Slot]
  /\ asset \in Asset
  /\ timer \in BOOLEAN
  /\ operator \in Operator
  /\ requests \in Nat /\ faults \in 0..MaxFaults

\* A task nobody has taken: no slot is past the claim, nothing was written.
QueuedIsUntouched ==
  row.status = "QUEUED" =>
    /\ \A w \in Workers : slot[w].step \in {"idle", "load", "claim"}
    /\ requests = 0 /\ row = QueuedRow
    /\ submission = [status |-> "NONE", providerTaskId |-> NoId]

\* The slot that may still send a create.
Creating(w) == slot[w].step \in {"publish", "record", "create"}

\* It is the only one, and nothing was sent before.
OneCreator ==
  /\ \A v, w \in Workers : Creating(v) /\ Creating(w) => v = w
  /\ \A w \in Workers : Creating(w) => requests = 0

\* Until something is sent the bridge knows nothing of the task.
BridgeIsIdle ==
  requests = 0 =>
    /\ calls = 0 /\ registry = B!NoRow
    /\ \A w \in Workers : handler[w].step = "idle" /\ slot[w].step # "waiting"

\* The worker sends one create request for a task, whatever is redelivered,
\* timed out, posted again or reconciled.
RequestedOnce == requests <= 1

\* There is one thread at most, which serves the first create the bridge has seen:
\* it never answers 409, a status the worker would take for a rejection.
OneThread ==
  /\ \A g, h \in Workers : handler[g].step # "idle" /\ handler[h].step # "idle" => g = h
  /\ \A h \in Workers :
       /\ handler[h].step = "received" => registry = B!NoRow
       /\ handler[h].step = "replied" => handler[h].reply \in {"id", "notCreated", "unknown"}

\* Whatever the task is bound to, or a slot or the operator is about to bind it to,
\* exists.
IdsAreReal ==
  /\ \A w \in Workers : slot[w].step = "accept" => slot[w].id \in remote
  /\ operator.step # "idle" /\ operator.outcome = "ACCEPTED" => operator.id \in remote
  /\ row.status = "PROCESSING" \/ row.providerTaskId # NoId => row.providerTaskId \in remote

\* A task in submission has nothing yet; the gate is open only when it has failed.
SubmittingIsBare ==
  /\ row.status = "SUBMITTING" =>
       /\ row.providerTaskId = NoId
       /\ submission = [status |-> "ATTEMPTING", providerTaskId |-> NoId]
  /\ row.cleanupReady => row.status = "FAILED"

\* The Provider has no task, and nobody can make it one any more.
NothingComes == remote = {} /\ NobodyCanCreate /\ row.status # "QUEUED"

\* A slot fails the task only if that is so.
FailuresAreCertain ==
  \A w \in Workers : slot[w].step \in {"discard", "failed"} =>
    /\ NothingComes
    /\ slot[w].step = "discard" => requests = 0

\* What the task is bound to exists, and the task's two rows tell one story.
RowsAgree ==
  /\ row.providerTaskId # NoId => row.providerTaskId \in remote
  /\ row.status = "QUEUED" => submission.status = "NONE"
  /\ row.status = "SUBMITTING" => submission = [status |-> "ATTEMPTING", providerTaskId |-> NoId]
  /\ row.status = "PROCESSING" =>
       submission = [status |-> "ACCEPTED", providerTaskId |-> row.providerTaskId]
  /\ row.status = "RECONCILIATION_REQUIRED" =>
       submission.status \in {"OUTCOME_UNKNOWN", "ACCEPTED"}
  /\ row.status = "FAILED" => submission.status = "NOT_CREATED"

\* A task is written off as not created only when the Provider has no task for
\* it and no request is under way that could still make one.
NotCreatedIsTrue ==
  row.status = "FAILED" \/ submission.status = "NOT_CREATED" =>
    remote = {} /\ NobodyCanCreate

\* While the Provider has a task, the reference object it was given exists.
ObjectKept == remote # {} => asset.stored

\* What is decided and deleted in good faith, as long as the operator waits.
VerdictsAreTrue ==
  /\ operator.step \in {"registry", "write"} /\ operator.outcome = "NOT_CREATED" => NothingComes
  /\ row.status = "FAILED" \/ submission.status = "NOT_CREATED" => NothingComes
  /\ timer \/ operator.step = "erase" \/ (\E w \in Workers : slot[w].step = "erase")
       => row.status = "FAILED"
  /\ requests > 0 \/ (\E w \in Workers : slot[w].step \in {"record", "create"})
       => asset.stored \/ row.status = "FAILED"
  /\ RowsAgree

\* The inductive invariant.
SubmissionInv ==
  /\ TypeOK /\ B!BridgeInv
  /\ QueuedIsUntouched /\ OneCreator /\ BridgeIsIdle /\ RequestedOnce /\ OneThread
  /\ IdsAreReal /\ SubmittingIsBare /\ FailuresAreCertain
  /\ OperatorWaits => VerdictsAreTrue

\* A task the bridge has registered as accepted is not written off: the bridge
\* answers the operator's confirmation with updated = false.
ConfirmationIsHeeded ==
  [][row.status \in ReconcilableStatus /\ row'.status = "FAILED"
       => registry.status # "ACCEPTED"]_vars

\* The task follows TaskLifecycle from its first state on.
Lifecycle == INSTANCE TaskLifecycle WITH
  status <- row.status, providerTaskId <- row.providerTaskId,
  cleanupReady <- row.cleanupReady
LifecycleSpec == Lifecycle!Spec

\* Its job waits, or a slot is between the claim and its verdict.
UnderWay == \/ job = "waiting"
            \/ \E w \in Workers :
                 slot[w].step \notin {"idle", "load", "claim", "cleanup", "erase"}

\* A submission that is under way is decided, or handed to the operator, unless
\* another fault strikes: a redelivered job does not leave it as it was.
SubmittingSettles ==
  \A k \in 0..MaxFaults :
    row.status = "SUBMITTING" /\ UnderWay /\ faults = k
      ~> row.status # "SUBMITTING" \/ faults > k
=============================================================================
