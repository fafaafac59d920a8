-------------------------- MODULE Submission_proofs ---------------------------
(***************************************************************************)
(* Proofs about Submission, for any number of job slots and identifiers,   *)
(* any kinds of faults and any number of them.                             *)
(*                                                                         *)
(* SubmissionInv is inductive.  Two facts carry it.  Only the slot that    *)
(* took the task off QUEUED may create, and until it does nothing is known *)
(* of the task anywhere (CreatorIsAlone).  And once a slot or the operator *)
(* writes the task off, nothing comes any more: no task exists, no slot    *)
(* may send and no thread of the bridge may ask (NothingComes).  The steps *)
(* fall into those that leave the task's rows alone (QuietStep), those     *)
(* that end its submission (WriteStep), and the claim, the create and the  *)
(* bridge at work, which are on their own.                                 *)
(***************************************************************************)
EXTENDS Submission, TLAPS

-----------------------------------------------------------------------------
(* The bridge, composed with the worker: its invariant, with the slots as   *)
(* threads, is kept by each of its steps.                                   *)

\* create_task calls a create not sent or rejected only if the Provider cannot
\* have made a task of it.
LEMMA RejectionIsCertain ==
  ASSUME NEW o \in B!SdkOutcome, B!CreateCode(o) \in B!NotCreatedCodes
  PROVE  ~B!MayCreate(o)
  <1>1. CASE o.stage = "CONNECT"
    BY <1>1 DEF B!MayCreate
  <1>2. CASE o.stage # "CONNECT"
    <2>1. B!BodySent(o) # "no"
      BY <1>2 DEF B!BodySent
    <2>2. o.http \in 1..499 \ {200}
      BY <2>1 DEF B!CreateCode, B!NotCreatedCodes
    <2> QED  BY <2>2 DEF B!MayCreate, B!TurnedDown
  <1> QED  BY <1>1, <1>2

\* A handler record with a new step.
LEMMA ThreadGoto ==
  ASSUME NEW h \in Workers, NEW step \in B!HandlerSteps,
         handler \in [Workers -> B!Handler], B!Goto(h, step)
  PROVE  /\ handler' \in [Workers -> B!Handler]
         /\ handler'[h].step = step
         /\ handler'[h].id = handler[h].id
         /\ handler'[h].reply = handler[h].reply
         /\ \A g \in Workers \ {h} : handler'[g] = handler[g]
  BY DEF B!Goto, B!Handler

\* A handler record with a reply.
LEMMA ThreadReply ==
  ASSUME NEW h \in Workers, NEW reply \in B!Replies,
         NEW id \in ProviderTaskIds \cup {NoId},
         handler \in [Workers -> B!Handler], B!Reply(h, reply, id)
  PROVE  /\ handler' \in [Workers -> B!Handler]
         /\ handler'[h].step = "replied"
         /\ handler'[h].id = id
         /\ handler'[h].reply = reply
         /\ \A g \in Workers \ {h} : handler'[g] = handler[g]
  BY DEF B!Reply, B!Handler, B!HandlerSteps

\* A thread that is free has said nothing.
LEMMA ThreadIdle ==
  /\ B!IdleHandler \in B!Handler
  /\ B!IdleHandler.step = "idle" /\ B!IdleHandler.reply = "none"
  BY DEF B!IdleHandler, B!Handler, B!HandlerSteps, B!Replies

\* What the UPDATE statements leave in the rec.
LEMMA RegistryFields ==
  ASSUME NEW rec \in B!RegistryRow, NEW id \in ProviderTaskIds
  PROVE  /\ B!AcceptRow(rec, id) \in B!RegistryRow
         /\ B!MarkUnknownRow(rec) \in B!RegistryRow
         /\ B!SetNotCreatedRow(rec) \in B!RegistryRow
         /\ B!ConfirmNotCreatedRow \in B!RegistryRow /\ B!Started \in B!RegistryRow
         /\ rec.status # "NONE" =>
              /\ B!AcceptRow(rec, id).status = "ACCEPTED"
              /\ B!AcceptRow(rec, id).providerTaskId = id
              /\ B!MarkUnknownRow(rec).status = "OUTCOME_UNKNOWN"
              /\ B!SetNotCreatedRow(rec).status = "NOT_CREATED"
         /\ rec.status = "NONE" =>
              /\ B!AcceptRow(rec, id) = rec
              /\ B!MarkUnknownRow(rec) = rec
              /\ B!SetNotCreatedRow(rec) = rec
         /\ B!ConfirmNotCreatedRow.status = "NOT_CREATED"
         /\ B!Started.status = "STARTED"
  BY DEF B!AcceptRow, B!MarkUnknownRow, B!SetNotCreatedRow, B!ConfirmNotCreatedRow,
         B!Started, B!RegistryRow, B!RegistryStatus

\* What the steps of this module do to the bridge.
BridgeStep ==
  \/ \E w \in Workers : B!Receive(w) \/ B!Serve(w) \/ B!Close(w)
  \/ B!Restart
  \/ (\E id \in remote : B!ReconcileAccepted(id)) \/ B!ReconcileNotCreated
  \/ UNCHANGED bridge

LEMMA BridgeKeeps == B!BridgeInv /\ BridgeStep => B!BridgeInv'
  <1> SUFFICES ASSUME B!BridgeInv, BridgeStep PROVE B!BridgeInv'
    OBVIOUS
  <1> USE DEF B!BridgeInv, B!ProviderCalledOnce, B!BeganOnce, B!ThreadsKnow,
              B!RepliesAreTrue, B!RegistryKnows, B!OneTask
  <1>0. /\ handler \in [Workers -> B!Handler] /\ registry \in B!RegistryRow
        /\ remote \subseteq ProviderTaskIds /\ calls \in Nat
        /\ NoId \in ProviderTaskIds \cup {NoId}
        /\ \A h \in Workers : handler[h].id \in ProviderTaskIds \cup {NoId}
    BY DEF B!TypeOK, B!Handler
  <1>1. ASSUME NEW h \in Workers, B!Receive(h) PROVE B!BridgeInv'
    <2>1. B!Goto(h, "received") /\ handler[h].step = "idle" /\ UNCHANGED <<registry, remote, calls>>
      BY <1>1 DEF B!Receive
    <2> QED  BY <1>0, <2>1, ThreadGoto DEF B!TypeOK, B!HandlerSteps
  <1>2. ASSUME NEW h \in Workers, B!Begin(h) PROVE B!BridgeInv'
    <2>0. handler[h].step = "received" /\ UNCHANGED <<remote, calls>>
      BY <1>2 DEF B!Begin
    <2>1. CASE B!Begins(registry)
      <3>1. registry' = B!Started /\ B!Goto(h, "begun") /\ registry.status = "NONE"
        BY <1>2, <2>1 DEF B!Begin, B!Begins
      <3>2. registry' \in B!RegistryRow /\ registry'.status = "STARTED"
        BY <3>1 DEF B!Started, B!RegistryRow, B!RegistryStatus
      <3>3. /\ handler' \in [Workers -> B!Handler] /\ handler'[h].step = "begun"
            /\ handler'[h].reply = handler[h].reply /\ handler'[h].id = handler[h].id
            /\ \A g \in Workers \ {h} : handler'[g] = handler[g]
        BY <1>0, <3>1, ThreadGoto DEF B!HandlerSteps
      <3> QED  BY <1>0, <2>0, <3>1, <3>2, <3>3 DEF B!TypeOK
    <2>2. CASE ~B!Begins(registry)
      <3>1. UNCHANGED registry /\ registry.status # "NONE"
        BY <1>2, <2>2 DEF B!Begin, B!Begins
      <3>2. CASE registry.status = "ACCEPTED" /\ registry.providerTaskId # NoId
        <4>1. B!Reply(h, "id", registry.providerTaskId)
          BY <1>2, <2>2, <3>2 DEF B!Begin
        <4>2. registry.providerTaskId \in ProviderTaskIds \cup {NoId}
          BY <1>0 DEF B!RegistryRow
        <4> QED  BY <1>0, <2>0, <3>1, <3>2, <4>1, <4>2, ThreadReply DEF B!TypeOK, B!Replies
      <3>3. CASE ~(registry.status = "ACCEPTED" /\ registry.providerTaskId # NoId)
        <4>1. B!Reply(h, "conflict", NoId)
          BY <1>2, <2>2, <3>3 DEF B!Begin
        <4> QED  BY <1>0, <2>0, <3>1, <4>1, ThreadReply DEF B!TypeOK, B!Replies
      <3> QED  BY <3>2, <3>3
    <2> QED  BY <2>1, <2>2
  <1>3. ASSUME NEW h \in Workers, handler[h].step = "begun",
               calls' = calls + 1, UNCHANGED registry,
               remote \subseteq remote', remote' \subseteq ProviderTaskIds,
               \A a, b \in remote' : a = b,
               handler' \in [Workers -> B!Handler],
               \/ handler'[h].step = "unknown"
               \/ handler'[h].step = "accept" /\ handler'[h].id \in remote'
               \/ handler'[h].step = "notCreated" /\ remote' = remote,
               handler'[h].reply = handler[h].reply,
               handler[h].reply = "id" => handler'[h].id = handler[h].id,
               \A g \in Workers \ {h} : handler'[g] = handler[g]
        PROVE  B!BridgeInv'
    <2>1. calls = 0 /\ remote = {} /\ calls' = 1 /\ registry.status # "NONE"
      BY <1>3
    <2>2. \A g \in Workers : /\ handler[g].reply # "notCreated"
                              /\ handler[g].step \notin {"notCreated", "setNotCreated"}
      BY <2>1
    <2>3. \A g \in Workers : handler'[g].step # "begun"
      BY <1>3
    <2> QED  BY <1>0, <1>3, <2>1, <2>2, <2>3 DEF B!TypeOK
  <1>4. ASSUME NEW h \in Workers, B!Created(h) PROVE B!BridgeInv'
    <2>1. PICK id \in ProviderTaskIds \ remote :
            /\ remote' = remote \cup {id}
            /\ handler' = [handler EXCEPT ![h].step = "accept", ![h].id = id]
      BY <1>4 DEF B!Created
    <2>2. /\ handler' \in [Workers -> B!Handler]
          /\ handler'[h].step = "accept" /\ handler'[h].id = id
          /\ handler'[h].reply = handler[h].reply
          /\ \A g \in Workers \ {h} : handler'[g] = handler[g]
      BY <1>0, <2>1 DEF B!Handler, B!HandlerSteps
    <2>3. handler[h].step = "begun" /\ calls' = calls + 1 /\ UNCHANGED registry
      BY <1>4 DEF B!Created
    <2>4. handler[h].reply # "id" /\ remote = {}
      BY <2>3
    <2> QED  BY <1>0, <1>3, <2>1, <2>2, <2>3, <2>4
  <1>5. ASSUME NEW h \in Workers, B!OutcomeUnknown(h) PROVE B!BridgeInv'
    <2>1. /\ handler[h].step = "begun" /\ calls' = calls + 1 /\ UNCHANGED registry
          /\ B!Goto(h, "unknown")
      BY <1>5 DEF B!OutcomeUnknown
    <2>2. PICK o \in B!SdkOutcome : remote' \in B!After(o)
      BY <1>5 DEF B!OutcomeUnknown
    <2>3. remote' = remote \/ \E id \in ProviderTaskIds : remote' = remote \cup {id}
      BY <2>2 DEF B!After
    <2>4. remote = {}
      BY <2>1
    <2> QED  BY <1>0, <1>3, <2>1, <2>3, <2>4, ThreadGoto DEF B!HandlerSteps
  <1>6. ASSUME NEW h \in Workers, B!NotCreated(h) PROVE B!BridgeInv'
    <2>1. /\ handler[h].step = "begun" /\ calls' = calls + 1
          /\ UNCHANGED registry /\ B!Goto(h, "notCreated")
      BY <1>6 DEF B!NotCreated
    <2>2. PICK o \in B!SdkOutcome :
            B!CreateCode(o) \in B!NotCreatedCodes /\ remote' \in B!After(o)
      BY <1>6 DEF B!NotCreated
    <2>3. remote' = remote
      BY <2>2, RejectionIsCertain DEF B!After
    <2> QED  BY <1>0, <1>3, <2>1, <2>3, ThreadGoto DEF B!HandlerSteps
  <1>7. ASSUME NEW h \in Workers, B!Accept(h) PROVE B!BridgeInv'
    <2>1. /\ handler[h].step = "accept" /\ B!Goto(h, "answer")
          /\ registry' = B!AcceptRow(registry, handler[h].id)
          /\ handler[h].id \in remote /\ registry.status # "NONE"
          /\ UNCHANGED <<remote, calls>>
      BY <1>7 DEF B!Accept
    <2>2. /\ registry' \in B!RegistryRow /\ registry'.status = "ACCEPTED"
          /\ registry'.providerTaskId = handler[h].id
      BY <1>0, <2>1, RegistryFields
    <2> QED  BY <1>0, <2>1, <2>2, ThreadGoto DEF B!TypeOK, B!HandlerSteps
  <1>7a. ASSUME NEW h \in Workers, B!Answer(h) PROVE B!BridgeInv'
    <2>1. /\ handler[h].step = "answer" /\ B!Reply(h, "id", handler[h].id)
          /\ handler[h].id \in remote /\ UNCHANGED <<registry, remote, calls>>
      BY <1>7a DEF B!Answer
    <2> QED  BY <1>0, <2>1, ThreadReply DEF B!TypeOK, B!Replies
  <1>8. ASSUME NEW h \in Workers, B!AcceptFails(h) PROVE B!BridgeInv'
    <2>1. /\ handler[h].step \in {"accept", "answer"} /\ B!Goto(h, "unknown")
          /\ UNCHANGED <<registry, remote, calls>>
      BY <1>8 DEF B!AcceptFails
    <2> QED  BY <1>0, <2>1, ThreadGoto DEF B!TypeOK, B!HandlerSteps
  <1>9. ASSUME NEW h \in Workers, B!MarkUnknown(h) PROVE B!BridgeInv'
    <2>1. /\ handler[h].step = "unknown" /\ B!Reply(h, "unknown", NoId)
          /\ registry' = B!MarkUnknownRow(registry) /\ registry.status # "NONE"
          /\ UNCHANGED <<remote, calls>>
      BY <1>9 DEF B!MarkUnknown
    <2>2. registry' \in B!RegistryRow /\ registry'.status = "OUTCOME_UNKNOWN"
      BY <2>1 DEF B!MarkUnknownRow, B!RegistryRow, B!RegistryStatus
    <2> QED  BY <1>0, <2>1, <2>2, ThreadReply DEF B!TypeOK, B!Replies
  <1>10. ASSUME NEW h \in Workers, B!MarkNotCreated(h) PROVE B!BridgeInv'
    <2>1. /\ handler[h].step = "notCreated" /\ B!Goto(h, "setNotCreated")
          /\ registry' = B!MarkUnknownRow(registry) /\ registry.status # "NONE"
          /\ UNCHANGED <<remote, calls>>
      BY <1>10 DEF B!MarkNotCreated
    <2>2. registry' \in B!RegistryRow /\ registry'.status = "OUTCOME_UNKNOWN"
      BY <2>1 DEF B!MarkUnknownRow, B!RegistryRow, B!RegistryStatus
    <2> QED  BY <1>0, <2>1, <2>2, ThreadGoto DEF B!TypeOK, B!HandlerSteps
  <1>11. ASSUME NEW h \in Workers, B!SetNotCreated(h) PROVE B!BridgeInv'
    <2>1. /\ handler[h].step = "setNotCreated" /\ B!Reply(h, "notCreated", NoId)
          /\ registry' = B!SetNotCreatedRow(registry) /\ registry.status # "NONE"
          /\ UNCHANGED <<remote, calls>>
      BY <1>11 DEF B!SetNotCreated
    <2>2. registry' \in B!RegistryRow /\ registry'.status = "NOT_CREATED"
      BY <1>0, <2>1 DEF B!SetNotCreatedRow, B!RegistryRow, B!RegistryStatus
    <2> QED  BY <1>0, <2>1, <2>2, ThreadReply DEF B!TypeOK, B!Replies
  <1>12. ASSUME NEW h \in Workers, B!Close(h) PROVE B!BridgeInv'
    <2>1. /\ handler' = [handler EXCEPT ![h] = B!IdleHandler]
          /\ UNCHANGED <<registry, remote, calls>>
      BY <1>12 DEF B!Close
    <2>2. /\ handler' \in [Workers -> B!Handler]
          /\ handler'[h].step = "idle" /\ handler'[h].reply = "none"
          /\ \A g \in Workers \ {h} : handler'[g] = handler[g]
      BY <1>0, <2>1, ThreadIdle
    <2> QED  BY <1>0, <2>1, <2>2 DEF B!TypeOK
  <1>13. CASE B!Restart
    <2>1. /\ handler' \in [Workers -> B!Handler]
          /\ \A g \in Workers : handler'[g].step = "idle" /\ handler'[g].reply = "none"
      BY <1>13, ThreadIdle DEF B!Restart
    <2>2. UNCHANGED <<registry, remote, calls>>
      BY <1>13 DEF B!Restart
    <2> QED  BY <1>0, <2>1, <2>2 DEF B!TypeOK
  <1>14. ASSUME NEW id \in remote, B!ReconcileAccepted(id) PROVE B!BridgeInv'
    <2>1. registry' = B!AcceptRow(registry, id) /\ UNCHANGED <<handler, remote, calls>>
      BY <1>14 DEF B!ReconcileAccepted
    <2>2. registry.status # "NONE"
      OBVIOUS
    <2>3. /\ registry' \in B!RegistryRow /\ registry'.status = "ACCEPTED"
          /\ registry'.providerTaskId = id
      BY <1>0, <2>1, <2>2, RegistryFields
    <2> QED  BY <1>0, <2>1, <2>2, <2>3 DEF B!TypeOK
  <1>15. CASE B!ReconcileNotCreated
    <2>1. UNCHANGED <<handler, remote, calls>>
      BY <1>15 DEF B!ReconcileNotCreated
    <2>2. CASE B!ConfirmNotCreatedWhere(registry)
      <3>1. registry' \in B!RegistryRow /\ registry'.status = "NOT_CREATED"
        BY <1>15, <2>2 DEF B!ReconcileNotCreated, B!ConfirmNotCreatedRow,
                           B!RegistryRow, B!RegistryStatus
      <3>2. registry.status # "NONE"
        BY <2>2 DEF B!ConfirmNotCreatedWhere
      <3> QED  BY <1>0, <2>1, <3>1, <3>2 DEF B!TypeOK
    <2>3. CASE ~B!ConfirmNotCreatedWhere(registry)
      <3>1. UNCHANGED registry
        BY <1>15, <2>3 DEF B!ReconcileNotCreated
      <3> QED  BY <1>0, <2>1, <3>1 DEF B!TypeOK
    <2> QED  BY <2>2, <2>3
  <1>16. CASE UNCHANGED bridge
    BY <1>0, <1>16 DEF bridge, B!TypeOK
  <1> QED  BY <1>1, <1>2, <1>4, <1>5, <1>6, <1>7, <1>8, <1>9, <1>10, <1>11,
              <1>12, <1>13, <1>14, <1>15, <1>16, <1>7a DEF BridgeStep, B!Serve

\* What else a thread of the bridge does while it works: tasks are only added,
\* by a thread that has begun; only a received request becomes a begun one, and
\* only a thread that starts from another registry row than the empty one
\* answers with a conflict.
LEMMA ServeFrame ==
  ASSUME NEW w \in Workers, B!BridgeInv, B!Serve(w)
  PROVE  /\ handler[w].step \notin {"idle", "replied"} /\ handler'[w].step # "idle"
         /\ handler'[w].step # "received"
         /\ \A v \in Workers \ {w} : handler'[v] = handler[v]
         /\ remote \subseteq remote'
         /\ handler[w].step # "begun" => UNCHANGED <<remote, calls>>
         /\ handler'[w].step = "begun" => handler[w].step = "received"
         /\ handler'[w].step = "replied" /\ (handler[w].step # "received" \/ registry = B!NoRow)
              => handler'[w].reply \in {"id", "notCreated", "unknown"}
  <1> USE DEF B!BridgeInv
  <1>0. handler \in [Workers -> B!Handler] /\ remote \subseteq ProviderTaskIds
    BY DEF B!TypeOK
  <1>1. CASE B!Begin(w)
    <2>0. handler[w].step = "received" /\ UNCHANGED <<remote, calls>>
      BY <1>1 DEF B!Begin
    <2>1. CASE B!Begins(registry)
      <3>1. B!Goto(w, "begun")
        BY <1>1, <2>1 DEF B!Begin
      <3> QED  BY <1>0, <2>0, <3>1, ThreadGoto DEF B!HandlerSteps
    <2>2. CASE ~B!Begins(registry)
      <3>0. registry # B!NoRow
        BY <2>2 DEF B!Begins, B!NoRow
      <3>1. \/ B!Reply(w, "id", registry.providerTaskId)
            \/ B!Reply(w, "conflict", NoId)
        BY <1>1, <2>2 DEF B!Begin
      <3>2. registry.providerTaskId \in ProviderTaskIds \cup {NoId}
        BY DEF B!TypeOK, B!RegistryRow
      <3> QED  BY <1>0, <2>0, <3>0, <3>1, <3>2, ThreadReply DEF B!Replies
    <2> QED  BY <2>1, <2>2
  <1>2. CASE B!Created(w)
    <2>1. PICK id \in ProviderTaskIds \ remote :
            /\ remote' = remote \cup {id}
            /\ handler' = [handler EXCEPT ![w].step = "accept", ![w].id = id]
      BY <1>2 DEF B!Created
    <2>2. /\ handler'[w].step = "accept"
          /\ \A g \in Workers \ {w} : handler'[g] = handler[g]
      BY <1>0, <2>1 DEF B!Handler, B!HandlerSteps
    <2>3. handler[w].step = "begun"
      BY <1>2 DEF B!Created
    <2> QED  BY <2>1, <2>2, <2>3
  <1>3. CASE B!OutcomeUnknown(w) \/ B!NotCreated(w)
    <2>1. /\ handler[w].step = "begun"
          /\ B!Goto(w, "unknown") \/ B!Goto(w, "notCreated")
      BY <1>3 DEF B!OutcomeUnknown, B!NotCreated
    <2>2. \E o \in B!SdkOutcome : remote' \in B!After(o)
      BY <1>3 DEF B!OutcomeUnknown, B!NotCreated
    <2>3. remote \subseteq remote'
      BY <2>2 DEF B!After
    <2> QED  BY <1>0, <2>1, <2>3, ThreadGoto DEF B!HandlerSteps
  <1>4. CASE B!Accept(w) \/ B!AcceptFails(w) \/ B!MarkNotCreated(w)
    <2>1. /\ handler[w].step \in {"accept", "answer", "notCreated"}
          /\ UNCHANGED <<remote, calls>>
          /\ B!Goto(w, "answer") \/ B!Goto(w, "unknown") \/ B!Goto(w, "setNotCreated")
      BY <1>4 DEF B!Accept, B!AcceptFails, B!MarkNotCreated
    <2> QED  BY <1>0, <2>1, ThreadGoto DEF B!HandlerSteps
  <1>5. CASE B!Answer(w) \/ B!MarkUnknown(w) \/ B!SetNotCreated(w)
    <2>1. /\ handler[w].step \in {"answer", "unknown", "setNotCreated"}
          /\ UNCHANGED <<remote, calls>>
          /\ \/ B!Reply(w, "id", handler[w].id)
             \/ B!Reply(w, "unknown", NoId)
             \/ B!Reply(w, "notCreated", NoId)
      BY <1>5 DEF B!Answer, B!MarkUnknown, B!SetNotCreated
    <2>2. handler[w].id \in ProviderTaskIds \cup {NoId}
      BY <1>0 DEF B!Handler
    <2> QED  BY <1>0, <2>1, <2>2, ThreadReply DEF B!Replies
  <1> QED  BY <1>1, <1>2, <1>3, <1>4, <1>5 DEF B!Serve

\* The worker takes the reply to a create for a proof that nothing was created
\* when it says so, or when it is a conflict.
LEMMA WriteOffs ==
  ASSUME NEW reply \in {"notCreated", "unknown"}, NEW r \in B!CreateReplies(reply),
         ConfirmedNotCreated(ErrorOf("CREATE", r))
  PROVE  reply = "notCreated"
  <1> SUFFICES ASSUME reply = "unknown" PROVE FALSE
    OBVIOUS
  <1>1. PICK o \in B!SdkOutcome : B!CreateCode(o) \in B!UnknownCodes /\ r = B!FailureReply(o)
    BY DEF B!CreateReplies
  <1>2. /\ r.operation = "CREATE" /\ r.status = 502 /\ r.code \in B!UnknownCodes
    BY <1>1 DEF B!FailureReply, B!ErrorReply
  <1>3. ErrorOf("CREATE", r) = "OutcomeUnknown"
    BY <1>2 DEF ErrorOf, CreateError, B!UnknownCodes
  <1> QED  BY <1>3 DEF ConfirmedNotCreated

-----------------------------------------------------------------------------
(* Slots and rows. *)

\* A slot that goes on.
LEMMA GotoFields ==
  ASSUME NEW w \in Workers, NEW step \in SubmitSteps,
         slot \in [Workers -> Slot], Goto(w, step)
  PROVE  /\ slot' \in [Workers -> Slot]
         /\ slot'[w].step = step /\ slot'[w].id = slot[w].id
         /\ \A v \in Workers \ {w} : slot'[v] = slot[v]
  BY DEF Goto, Slot

\* A slot that has learnt the identifier, or that there is none to learn.
LEMMA LearnFields ==
  ASSUME NEW w \in Workers, NEW step \in SubmitSteps, NEW id \in ProviderIdOrNull,
         slot \in [Workers -> Slot],
         \/ slot' = [slot EXCEPT ![w].id = id, ![w].step = step]
         \/ slot' = [slot EXCEPT ![w].step = step, ![w].id = id]
  PROVE  /\ slot' \in [Workers -> Slot]
         /\ slot'[w].step = step /\ slot'[w].id = id
         /\ \A v \in Workers \ {w} : slot'[v] = slot[v]
  <1> DEFINE full == [step |-> step, owner |-> slot[w].owner, id |-> id]
  <1>1. slot' = [slot EXCEPT ![w] = full]
    BY DEF Slot
  <1>2. full \in Slot
    BY DEF Slot
  <1> QED  BY <1>1, <1>2

\* A slot that gives the job back.
LEMMA LeaveFields ==
  ASSUME NEW w \in Workers, NEW outcome \in JobStates, job \in JobStates,
         slot \in [Workers -> Slot], Leave(w, outcome)
  PROVE  /\ slot' \in [Workers -> Slot] /\ job' \in JobStates
         /\ slot'[w].step = "idle"
         /\ \A v \in Workers \ {w} : slot'[v] = slot[v]
  <1>1. IdleSlot \in Slot /\ IdleSlot.step = "idle"
    BY DEF IdleSlot, Slot, SubmitSteps, ProviderIdOrNull
  <1>2. slot' = [slot EXCEPT ![w] = IdleSlot]
    BY DEF Leave
  <1>3. job' \in JobStates
    BY DEF Leave
  <1> QED  BY <1>1, <1>2, <1>3

\* The row acceptSubmission, or a bind, leaves.
LEMMA AcceptFields ==
  ASSUME NEW r \in TaskRow, NEW id \in ProviderTaskIds
  PROVE  LET new == AcceptSubmission(r, id, 1, 2)
         IN  /\ new \in TaskRow /\ new.status = "PROCESSING"
             /\ new.providerTaskId = id /\ new.cleanupReady = FALSE
  BY DEF AcceptSubmission, TaskRow, TaskStatus, ProviderIdOrNull, Never

LEMMA BindFields ==
  ASSUME NEW r \in TaskRow, NEW id \in ProviderTaskIds, NEW version \in Nat
  PROVE  LET new == BindSubmission(r, id, version, 1, 2)
         IN  /\ new \in TaskRow /\ new.status = "PROCESSING"
             /\ new.providerTaskId = id /\ new.cleanupReady = FALSE
  BY DEF BindSubmission, TaskRow, TaskStatus, ProviderIdOrNull, Never

-----------------------------------------------------------------------------
(* Steps that write neither row of the task and send nothing. *)

SlotStays(v) == slot'[v].step = slot[v].step /\ slot'[v].id = slot[v].id

\* Where such a step may take a slot.
SlotMoves(v) ==
  /\ Creating(v)' => Creating(v)
  /\ slot'[v].step \in {"idle", "load", "claim"} \/ row.status # "QUEUED"
  /\ slot'[v].step = "waiting" => slot[v].step = "waiting"
  /\ slot'[v].step = "accept" => slot'[v].id \in remote
  /\ slot'[v].step \in {"discard", "failed"} => NothingComes'
  /\ slot'[v].step = "discard" => requests = 0
  /\ OperatorWaits /\ slot'[v].step = "erase" => row.status = "FAILED"

\* What it may let the operator begin.
OperatorMoves ==
  /\ operator'.step # "idle" /\ operator'.outcome = "ACCEPTED" => operator'.id \in remote
  /\ OperatorWaits /\ operator'.step \in {"registry", "write"} /\ operator'.outcome = "NOT_CREATED"
       => NothingComes
  /\ OperatorWaits /\ operator'.step = "erase" => row.status = "FAILED"

\* What must hold of the object after it.
StillNeeded == requests > 0 \/ \E v \in Workers : slot'[v].step \in {"record", "create"}
ObjectStays == OperatorWaits /\ StillNeeded => asset'.stored \/ row.status = "FAILED"

LEMMA QuietStep ==
  ASSUME SubmissionInv, TypeOK', B!BridgeInv',
         UNCHANGED <<row, submission, requests, remote, calls>>,
         registry = B!NoRow => registry' = B!NoRow,
         \A v \in Workers : SlotStays(v) \/ SlotMoves(v),
         \A v \in Workers : handler'[v] = handler[v] \/ handler'[v].step = "idle",
         UNCHANGED operator \/ OperatorMoves,
         OperatorWaits /\ timer' => timer \/ row.status = "FAILED",
         ObjectStays
  PROVE  SubmissionInv'
  <1>0. /\ UNCHANGED row /\ UNCHANGED submission /\ UNCHANGED requests
        /\ UNCHANGED remote /\ UNCHANGED calls
    OBVIOUS
  <1>1. QueuedIsUntouched'
    BY <1>0 DEF SubmissionInv, QueuedIsUntouched, SlotStays, SlotMoves
  <1>2. OneCreator'
    BY <1>0 DEF SubmissionInv, OneCreator, Creating, SlotStays, SlotMoves
  <1>3. BridgeIsIdle'
    BY <1>0 DEF SubmissionInv, BridgeIsIdle, SlotStays, SlotMoves
  <1>4. RequestedOnce'
    BY <1>0 DEF SubmissionInv, RequestedOnce
  <1>5. OneThread'
    BY <1>0 DEF SubmissionInv, OneThread
  <1>6. IdsAreReal'
    BY <1>0 DEF SubmissionInv, IdsAreReal, SlotStays, SlotMoves, OperatorMoves
  <1>7. SubmittingIsBare'
    BY <1>0 DEF SubmissionInv, SubmittingIsBare
  <1>8. ASSUME NothingComes PROVE NothingComes'
    BY <1>0, <1>8 DEF NothingComes, NobodyCanCreate, Creating, SlotStays, SlotMoves
  <1>9. FailuresAreCertain'
    BY <1>0, <1>8 DEF SubmissionInv, FailuresAreCertain, SlotStays, SlotMoves
  <1>10. ASSUME OperatorWaits PROVE VerdictsAreTrue'
    <2>0. VerdictsAreTrue
      BY <1>10 DEF SubmissionInv
    <2>1. (operator.step \in {"registry", "write"} /\ operator.outcome = "NOT_CREATED"
             => NothingComes)'
      BY <1>8, <1>10, <2>0 DEF VerdictsAreTrue, OperatorMoves
    <2>2. (row.status = "FAILED" \/ submission.status = "NOT_CREATED" => NothingComes)'
      BY <1>0, <1>8, <2>0 DEF VerdictsAreTrue
    <2>3. (timer \/ operator.step = "erase" \/ (\E w \in Workers : slot[w].step = "erase")
             => row.status = "FAILED")'
      BY <1>0, <1>10, <2>0 DEF VerdictsAreTrue, OperatorMoves, SlotStays, SlotMoves
    <2>4. (requests > 0 \/ (\E w \in Workers : slot[w].step \in {"record", "create"})
             => asset.stored \/ row.status = "FAILED")'
      BY <1>0, <1>10 DEF ObjectStays, StillNeeded
    <2>5. RowsAgree'
      BY <1>0, <2>0 DEF VerdictsAreTrue, RowsAgree
    <2> QED  BY <2>1, <2>2, <2>3, <2>4, <2>5 DEF VerdictsAreTrue
  <1> QED  BY <1>1, <1>2, <1>3, <1>4, <1>5, <1>6, <1>7, <1>9, <1>10 DEF SubmissionInv

\* A step of one slot.
LEMMA SlotStep ==
  ASSUME SubmissionInv, NEW w \in Workers,
         slot' \in [Workers -> Slot], job' \in JobStates, faults' \in 0..MaxFaults,
         asset' \in Asset,
         \A v \in Workers \ {w} : slot'[v] = slot[v],
         SlotStays(w) \/ SlotMoves(w),
         \/ /\ asset'.stored = asset.stored
            /\ slot'[w].step \in {"record", "create"} => slot[w].step \in {"record", "create"}
         \/ ObjectStays,
         UNCHANGED <<row, submission, timer, operator, requests, bridge>>
  PROVE  SubmissionInv'
  <1>1. TypeOK'
    BY DEF SubmissionInv, TypeOK
  <1>2. B!BridgeInv'
    BY BridgeKeeps DEF SubmissionInv, BridgeStep
  <1>3. \A v \in Workers : SlotStays(v) \/ SlotMoves(v)
    BY DEF SlotStays
  <1>4. ASSUME asset'.stored = asset.stored,
               slot'[w].step \in {"record", "create"} => slot[w].step \in {"record", "create"}
        PROVE  ObjectStays
    <2>1. StillNeeded =>
            requests > 0 \/ \E v \in Workers : slot[v].step \in {"record", "create"}
      BY <1>4 DEF StillNeeded
    <2> QED  BY <1>4, <2>1 DEF ObjectStays, SubmissionInv, VerdictsAreTrue
  <1>5. ObjectStays
    BY <1>4
  <1> QED  BY <1>1, <1>2, <1>3, <1>5, QuietStep DEF bridge

\* A slot past the claim: the task is taken.
LEMMA TakenMeansTaken ==
  ASSUME SubmissionInv, NEW w \in Workers, slot[w].step \notin {"idle", "load", "claim"}
  PROVE  row.status # "QUEUED"
  BY DEF SubmissionInv, QueuedIsUntouched

\* A slot that may still create: nothing was sent, so there is nothing anywhere.
LEMMA CreatorIsAlone ==
  ASSUME SubmissionInv, NEW w \in Workers, Creating(w)
  PROVE  /\ requests = 0 /\ calls = 0 /\ remote = {} /\ registry = B!NoRow
         /\ row.status # "QUEUED"
         /\ \A v \in Workers : handler[v].step = "idle" /\ slot[v].step # "waiting"
         /\ \A v \in Workers \ {w} : ~Creating(v)
  <1>1. requests = 0 /\ \A v \in Workers \ {w} : ~Creating(v)
    BY DEF SubmissionInv, OneCreator
  <1>2. /\ calls = 0 /\ registry = B!NoRow
        /\ \A v \in Workers : handler[v].step = "idle" /\ slot[v].step # "waiting"
    BY <1>1 DEF SubmissionInv, BridgeIsIdle
  <1>3. remote = {}
    BY <1>2 DEF SubmissionInv, B!BridgeInv, B!BeganOnce
  <1> QED  BY <1>1, <1>2, <1>3, TakenMeansTaken DEF Creating

\* When it stops before the create, nothing comes.
LEMMA CreatorStops ==
  ASSUME SubmissionInv, NEW w \in Workers, Creating(w),
         slot'[w].step \notin {"publish", "record", "create"},
         \A v \in Workers \ {w} : slot'[v] = slot[v],
         UNCHANGED row, UNCHANGED bridge
  PROVE  NothingComes'
  <1>1. UNCHANGED handler /\ UNCHANGED remote
    BY DEF bridge
  <1> QED  BY <1>1, CreatorIsAlone DEF NothingComes, NobodyCanCreate, Creating

\* What a deletion leaves of the object.
LEMMA EraseFields ==
  ASSUME asset \in Asset, Erase
  PROVE  asset' \in Asset
  <1>1. [stored |-> FALSE, record |-> "deleted"] \in Asset
    BY DEF Asset
  <1>2. [asset EXCEPT !.stored = FALSE] \in Asset
    BY DEF Asset
  <1> QED  BY <1>1, <1>2 DEF Erase

LEMMA SlotSteps ==
  ASSUME SubmissionInv, NEW w \in Workers,
         \/ Deliver(w) \/ Load(w) \/ Publish(w) \/ Record(w) \/ Discard(w) \/ NotSent(w)
         \/ Timeout(w) \/ RecoverAfter(w) \/ RecoverOnly(w) \/ Cleanup(w) \/ EraseAtEnd(w)
         \/ WriteFails(w) \/ JobFails(w) \/ Crash(w) \/ Stall(w)
  PROVE  SubmissionInv'
  <1> DEFINE Still == UNCHANGED <<row, submission, timer, operator, requests, bridge>>
  <1>0. /\ slot \in [Workers -> Slot] /\ job \in JobStates /\ asset \in Asset
        /\ slot[w].id \in ProviderIdOrNull /\ faults \in 0..MaxFaults
        /\ "waiting" \in JobStates /\ "active" \in JobStates
        /\ "none" \in JobStates /\ "failed" \in JobStates
    BY DEF SubmissionInv, TypeOK, Slot, JobStates
  <1>a. ASSUME NEW kind, Fault(kind) PROVE faults' \in 0..MaxFaults
    BY <1>0, <1>a, SubmissionAssumption DEF Fault
  <1>1. CASE Deliver(w)
    <2> DEFINE new == [IdleSlot EXCEPT !.step = "load", !.owner = TRUE]
    <2>0. IdleSlot \in Slot
      BY DEF IdleSlot, Slot, SubmitSteps, ProviderIdOrNull
    <2>a. new \in Slot /\ new.step = "load"
      BY <2>0 DEF Slot, SubmitSteps
    <2>1. slot' = [slot EXCEPT ![w] = new]
      BY <1>1 DEF Deliver
    <2> HIDE DEF new
    <2>2. /\ slot' \in [Workers -> Slot] /\ slot'[w].step = "load"
          /\ \A v \in Workers \ {w} : slot'[v] = slot[v]
      BY <1>0, <2>1, <2>a
    <2>3. Still /\ job' = "active" /\ UNCHANGED asset /\ UNCHANGED faults
      BY <1>1 DEF Deliver
    <2>4. SlotMoves(w)
      BY <2>2 DEF SlotMoves, Creating
    <2> QED  BY <1>0, <2>2, <2>3, <2>4, SlotStep
  <1>2. CASE Load(w)
    <2>1. \/ Goto(w, "claim") /\ UNCHANGED job
          \/ Goto(w, "recoverOnly") /\ UNCHANGED job /\ row.status = "SUBMITTING"
          \/ Finish(w)
      BY <1>2 DEF Load, SubmissionInv, SubmittingIsBare
    <2>2. /\ slot' \in [Workers -> Slot] /\ job' \in JobStates
          /\ \/ slot'[w].step \in {"claim", "idle"}
             \/ slot'[w].step = "recoverOnly" /\ row.status = "SUBMITTING"
          /\ \A v \in Workers \ {w} : slot'[v] = slot[v]
      BY <1>0, <2>1, GotoFields, LeaveFields DEF SubmitSteps, Finish
    <2>3. Still /\ UNCHANGED asset /\ UNCHANGED faults
      BY <1>2 DEF Load
    <2>4. SlotMoves(w)
      BY <2>2 DEF SlotMoves, Creating
    <2> QED  BY <1>0, <2>2, <2>3, <2>4, SlotStep
  <1>3. CASE Publish(w)
    <2>1. /\ slot[w].step = "publish" /\ Still /\ UNCHANGED job /\ UNCHANGED faults
          /\ \/ asset' = [asset EXCEPT !.stored = TRUE] /\ Goto(w, "record")
             \/ \E left \in BOOLEAN :
                  asset' = [asset EXCEPT !.stored = left] /\ Goto(w, "failed")
      BY <1>3 DEF Publish
    <2>2. /\ slot' \in [Workers -> Slot]
          /\ \/ slot'[w].step = "record" /\ asset'.stored = TRUE
             \/ slot'[w].step = "failed"
          /\ \A v \in Workers \ {w} : slot'[v] = slot[v]
      BY <1>0, <2>1, GotoFields DEF SubmitSteps, Asset
    <2>3. asset' \in Asset
      BY <1>0, <2>1 DEF Asset
    <2>4. /\ Creating(w) /\ row.status # "QUEUED" /\ requests = 0
          /\ \A v \in Workers \ {w} : slot[v].step \notin {"record", "create"}
      BY <2>1, CreatorIsAlone DEF Creating
    <2>5. slot'[w].step = "failed" => NothingComes'
      BY <2>1, <2>2, <2>4, CreatorStops
    <2>6. SlotMoves(w)
      BY <2>2, <2>4, <2>5 DEF SlotMoves, Creating
    <2>7. ObjectStays
      BY <2>2, <2>4 DEF ObjectStays, StillNeeded
    <2> QED  BY <1>0, <2>1, <2>2, <2>3, <2>6, <2>7, SlotStep
  <1>4. CASE Record(w)
    <2>1. /\ slot[w].step = "record" /\ Still /\ UNCHANGED job /\ UNCHANGED faults
          /\ asset' = [asset EXCEPT !.record = "active"] /\ Goto(w, "create")
      BY <1>4 DEF Record
    <2>2. /\ slot' \in [Workers -> Slot] /\ slot'[w].step = "create"
          /\ \A v \in Workers \ {w} : slot'[v] = slot[v]
      BY <1>0, <2>1, GotoFields DEF SubmitSteps
    <2>3. asset' \in Asset /\ asset'.stored = asset.stored
      BY <1>0, <2>1 DEF Asset
    <2>4. SlotMoves(w)
      BY <2>1, <2>2, TakenMeansTaken DEF SlotMoves, Creating
    <2> QED  BY <1>0, <2>1, <2>2, <2>3, <2>4, SlotStep
  <1>5. CASE Discard(w)
    <2>1. /\ slot[w].step = "discard" /\ Still /\ UNCHANGED job /\ UNCHANGED faults
          /\ Goto(w, "failed")
          /\ \E left \in BOOLEAN : asset' = [asset EXCEPT !.stored = left]
      BY <1>5 DEF Discard
    <2>2. /\ slot' \in [Workers -> Slot] /\ slot'[w].step = "failed"
          /\ \A v \in Workers \ {w} : slot'[v] = slot[v]
      BY <1>0, <2>1, GotoFields DEF SubmitSteps
    <2>3. asset' \in Asset
      BY <1>0, <2>1 DEF Asset
    <2>4. NothingComes /\ requests = 0
      BY <2>1 DEF SubmissionInv, FailuresAreCertain
    <2>5. UNCHANGED handler /\ UNCHANGED remote /\ UNCHANGED row /\ UNCHANGED requests
      BY <2>1 DEF bridge
    <2>6. NothingComes'
      BY <2>2, <2>4, <2>5 DEF NothingComes, NobodyCanCreate
    <2>7. SlotMoves(w)
      BY <2>2, <2>4, <2>6 DEF SlotMoves, Creating, NothingComes
    <2>8. ObjectStays
      BY <2>2, <2>4 DEF ObjectStays, StillNeeded, NothingComes, NobodyCanCreate
    <2> QED  BY <1>0, <2>1, <2>2, <2>3, <2>7, <2>8, SlotStep
  <1>6. CASE NotSent(w)
    <2>1. /\ slot[w].step = "create" /\ Still /\ UNCHANGED <<job, asset, faults>>
          /\ Goto(w, "failed") \/ Goto(w, "recover")
      BY <1>6 DEF NotSent, AfterError
    <2>2. /\ slot' \in [Workers -> Slot] /\ slot'[w].step \in {"failed", "recover"}
          /\ \A v \in Workers \ {w} : slot'[v] = slot[v]
      BY <1>0, <2>1, GotoFields DEF SubmitSteps
    <2>3. Creating(w) /\ row.status # "QUEUED" /\ NothingComes'
      BY <2>1, <2>2, CreatorIsAlone, CreatorStops DEF Creating
    <2>4. SlotMoves(w)
      BY <2>2, <2>3 DEF SlotMoves, Creating
    <2> QED  BY <1>0, <2>1, <2>2, <2>4, SlotStep
  <1>7. CASE Timeout(w)
    <2>1. /\ slot[w].step = "waiting" /\ Still /\ UNCHANGED <<job, asset, faults>>
          /\ Goto(w, "recover")
      BY <1>7 DEF Timeout, AfterError, NoReply, ConfirmedNotCreated
    <2>2. /\ slot' \in [Workers -> Slot] /\ slot'[w].step = "recover"
          /\ \A v \in Workers \ {w} : slot'[v] = slot[v]
      BY <1>0, <2>1, GotoFields DEF SubmitSteps
    <2>3. SlotMoves(w)
      BY <2>1, <2>2, TakenMeansTaken DEF SlotMoves, Creating
    <2> QED  BY <1>0, <2>1, <2>2, <2>3, SlotStep
  <1>8. CASE RecoverAfter(w) \/ RecoverOnly(w)
    <2>1. /\ slot[w].step \in {"recover", "recoverOnly"}
          /\ Still /\ UNCHANGED <<job, asset, faults>>
      BY <1>8 DEF RecoverAfter, RecoverOnly
    <2>2. PICK id \in {NoId, B!Recover(registry)} :
            slot' = [slot EXCEPT ![w].id = id,
                       ![w].step = IF id = NoId THEN "unknown" ELSE "accept"]
      BY <1>8 DEF RecoverAfter, RecoverOnly
    <2>3. id \in ProviderIdOrNull /\ (id # NoId => id \in remote)
      BY DEF B!Recover, SubmissionInv, B!BridgeInv, B!RegistryKnows, B!TypeOK, ProviderIdOrNull
    <2>4. /\ slot' \in [Workers -> Slot] /\ slot'[w].id = id
          /\ slot'[w].step = IF id = NoId THEN "unknown" ELSE "accept"
          /\ \A v \in Workers \ {w} : slot'[v] = slot[v]
      BY <1>0, <2>2, <2>3, LearnFields DEF SubmitSteps
    <2>5. SlotMoves(w)
      BY <2>1, <2>3, <2>4, TakenMeansTaken DEF SlotMoves, Creating
    <2> QED  BY <1>0, <2>1, <2>4, <2>5, SlotStep
  <1>9. CASE Cleanup(w)
    <2>1. /\ slot[w].step = "cleanup" /\ Still /\ UNCHANGED <<asset, faults>>
          /\ \/ Published /\ Goto(w, "erase") /\ UNCHANGED job
             \/ Finish(w)
      BY <1>9 DEF Cleanup
    <2>2. /\ slot' \in [Workers -> Slot] /\ job' \in JobStates
          /\ slot'[w].step = "idle" \/ (slot'[w].step = "erase" /\ row.status = "FAILED")
          /\ \A v \in Workers \ {w} : slot'[v] = slot[v]
      <3>1. Published => row.status = "FAILED"
        BY DEF Published, SubmissionInv, SubmittingIsBare
      <3>2. CASE Published /\ Goto(w, "erase") /\ UNCHANGED job
        BY <1>0, <3>1, <3>2, GotoFields DEF SubmitSteps
      <3>3. CASE Finish(w)
        BY <1>0, <3>3, LeaveFields DEF Finish
      <3> QED  BY <2>1, <3>2, <3>3
    <2>3. SlotMoves(w)
      BY <2>1, <2>2, TakenMeansTaken DEF SlotMoves, Creating
    <2> QED  BY <1>0, <2>1, <2>2, <2>3, SlotStep
  <1>10. CASE EraseAtEnd(w)
    <2>1. /\ slot[w].step = "erase" /\ Still /\ UNCHANGED faults
          /\ Erase /\ Finish(w)
      BY <1>10 DEF EraseAtEnd
    <2>2. /\ slot' \in [Workers -> Slot] /\ job' \in JobStates /\ slot'[w].step = "idle"
          /\ \A v \in Workers \ {w} : slot'[v] = slot[v]
      BY <1>0, <2>1, LeaveFields DEF Finish
    <2>3. asset' \in Asset
      BY <1>0, <2>1, EraseFields
    <2>4. SlotMoves(w)
      BY <2>2 DEF SlotMoves, Creating
    <2>5. ObjectStays
      BY <2>1 DEF ObjectStays, SubmissionInv, VerdictsAreTrue
    <2> QED  BY <1>0, <2>1, <2>2, <2>3, <2>4, <2>5, SlotStep
  <1>11. CASE WriteFails(w)
    <2>1. /\ slot[w].step \in {"record", "create"} /\ Still /\ UNCHANGED <<job, asset>>
          /\ Goto(w, "discard") \/ Goto(w, "failed")
      BY <1>11 DEF WriteFails
    <2>2. /\ slot' \in [Workers -> Slot] /\ slot'[w].step \in {"discard", "failed"}
          /\ \A v \in Workers \ {w} : slot'[v] = slot[v]
      BY <1>0, <2>1, GotoFields DEF SubmitSteps
    <2>3. Creating(w) /\ row.status # "QUEUED" /\ requests = 0 /\ NothingComes'
      BY <2>1, <2>2, CreatorIsAlone, CreatorStops DEF Creating
    <2>4. SlotMoves(w)
      BY <2>2, <2>3 DEF SlotMoves, Creating
    <2>5. faults' \in 0..MaxFaults
      BY <1>a, <1>11 DEF WriteFails
    <2> QED  BY <1>0, <2>1, <2>2, <2>4, <2>5, SlotStep
  <1>12. CASE JobFails(w) \/ Crash(w)
    <2>1. /\ Still /\ UNCHANGED asset /\ faults' \in 0..MaxFaults
          /\ Leave(w, "failed") \/ Leave(w, "waiting")
      BY <1>a, <1>12 DEF JobFails, Crash, Throw
    <2>2. /\ slot' \in [Workers -> Slot] /\ job' \in JobStates /\ slot'[w].step = "idle"
          /\ \A v \in Workers \ {w} : slot'[v] = slot[v]
      BY <1>0, <2>1, LeaveFields
    <2>3. SlotMoves(w)
      BY <2>2 DEF SlotMoves, Creating
    <2> QED  BY <1>0, <2>1, <2>2, <2>3, SlotStep
  <1>13. CASE Stall(w)
    <2>1. /\ Still /\ UNCHANGED asset /\ faults' \in 0..MaxFaults
          /\ job' = "waiting" /\ slot' = [slot EXCEPT ![w].owner = FALSE]
      BY <1>a, <1>13 DEF Stall
    <2>2. /\ slot' \in [Workers -> Slot]
          /\ slot'[w].step = slot[w].step /\ slot'[w].id = slot[w].id
          /\ \A v \in Workers \ {w} : slot'[v] = slot[v]
      BY <1>0, <2>1 DEF Slot
    <2>3. SlotStays(w)
      BY <2>2 DEF SlotStays
    <2> QED  BY <1>0, <2>1, <2>2, <2>3, SlotStep
  <1> QED  BY <1>1, <1>2, <1>3, <1>4, <1>5, <1>6, <1>7, <1>8, <1>9, <1>10, <1>11,
              <1>12, <1>13

\* The reply is read, or not waited for: a thread of the bridge ends.
LEMMA CloseStep ==
  ASSUME SubmissionInv, NEW w \in Workers, ReadReply(w) \/ BridgeCloses(w)
  PROVE  SubmissionInv'
  <1>0. /\ slot \in [Workers -> Slot] /\ handler \in [Workers -> B!Handler]
        /\ remote \subseteq ProviderTaskIds
    BY DEF SubmissionInv, TypeOK, B!BridgeInv, B!TypeOK
  <1>1. /\ UNCHANGED <<row, submission, job, asset, timer, operator, requests, faults>>
        /\ B!Close(w)
    BY DEF ReadReply, BridgeCloses
  <1>2. /\ UNCHANGED <<registry, remote, calls>> /\ handler'[w].step = "idle"
        /\ \A v \in Workers \ {w} : handler'[v] = handler[v]
    BY <1>0, <1>1, ThreadIdle DEF B!Close
  <1>3. B!BridgeInv'
    BY <1>1, BridgeKeeps DEF SubmissionInv, BridgeStep
  <1>4. ObjectStays \/ \E v \in Workers :
          slot'[v].step \in {"record", "create"} /\ slot[v].step \notin {"record", "create"}
    BY <1>1 DEF ObjectStays, StillNeeded, SubmissionInv, VerdictsAreTrue
  <1>5. CASE BridgeCloses(w)
    <2>1. UNCHANGED slot
      BY <1>5 DEF BridgeCloses
    <2>2. TypeOK'
      BY <1>1, <2>1 DEF SubmissionInv, TypeOK
    <2> QED  BY <1>1, <1>2, <1>3, <1>4, <2>1, <2>2, QuietStep DEF SlotStays
  <1>6. CASE ReadReply(w)
    <2>1. /\ slot[w].step = "waiting" /\ handler[w].step = "replied"
          /\ \/ /\ handler[w].reply = "id"
                /\ slot' = [slot EXCEPT ![w].id = handler[w].id, ![w].step = "accept"]
             \/ /\ handler[w].reply # "id"
                /\ \E r \in B!CreateReplies(handler[w].reply) :
                     Goto(w, AfterError(ErrorOf("CREATE", r)))
      BY <1>6 DEF ReadReply
    <2>2. /\ requests > 0 /\ row.status # "QUEUED"
          /\ \A v \in Workers \ {w} : handler[v].step = "idle"
          /\ \A v \in Workers : ~Creating(v)
      <3>1. requests # 0 /\ requests \in Nat
        BY <2>1 DEF SubmissionInv, BridgeIsIdle, TypeOK
      <3>2. \A v \in Workers : ~Creating(v)
        BY <3>1 DEF SubmissionInv, OneCreator
      <3>3. \A v \in Workers \ {w} : handler[v].step = "idle"
        BY <2>1 DEF SubmissionInv, OneThread
      <3> QED  BY <2>1, <3>1, <3>2, <3>3, TakenMeansTaken
    <2>3. CASE handler[w].reply = "id"
      <3>1. handler[w].id \in remote
        BY <2>3 DEF SubmissionInv, B!BridgeInv, B!RepliesAreTrue
      <3>2. /\ slot' \in [Workers -> Slot]
            /\ slot'[w].step = "accept" /\ slot'[w].id = handler[w].id
            /\ \A v \in Workers \ {w} : slot'[v] = slot[v]
        BY <1>0, <2>1, <2>3, <3>1, LearnFields DEF SubmitSteps, ProviderIdOrNull
      <3>3. SlotMoves(w)
        BY <2>2, <3>1, <3>2 DEF SlotMoves, Creating
      <3>4. TypeOK'
        BY <1>1, <3>2 DEF SubmissionInv, TypeOK
      <3>5. ObjectStays
        BY <1>4, <3>2
      <3> QED  BY <1>1, <1>2, <1>3, <3>2, <3>3, <3>4, <3>5, QuietStep DEF SlotStays
    <2>4. CASE handler[w].reply # "id"
      <3>1. PICK r \in B!CreateReplies(handler[w].reply) :
              Goto(w, AfterError(ErrorOf("CREATE", r)))
        BY <2>1, <2>4
      <3>2. /\ slot' \in [Workers -> Slot]
            /\ slot'[w].step = AfterError(ErrorOf("CREATE", r))
            /\ slot'[w].step \in {"failed", "recover"}
            /\ \A v \in Workers \ {w} : slot'[v] = slot[v]
        BY <1>0, <3>1, GotoFields DEF SubmitSteps, AfterError
      <3>3. ASSUME slot'[w].step = "failed" PROVE NothingComes'
        <4>1. ConfirmedNotCreated(ErrorOf("CREATE", r))
          BY <3>2, <3>3 DEF AfterError
        <4>2. handler[w].reply \in {"notCreated", "unknown"}
          BY <2>1, <2>4 DEF SubmissionInv, OneThread
        <4>3. handler[w].reply = "notCreated"
          BY <4>1, <4>2, WriteOffs
        <4>4. remote = {}
          BY <4>3 DEF SubmissionInv, B!BridgeInv, B!RepliesAreTrue
        <4> QED  BY <1>1, <1>2, <2>2, <3>2, <3>3, <4>4
                 DEF NothingComes, NobodyCanCreate, Creating
      <3>4. SlotMoves(w)
        BY <2>2, <3>2, <3>3 DEF SlotMoves, Creating
      <3>5. TypeOK'
        BY <1>1, <3>2 DEF SubmissionInv, TypeOK
      <3>6. ObjectStays
        BY <1>4, <3>2
      <3> QED  BY <1>1, <1>2, <1>3, <3>2, <3>4, <3>5, <3>6, QuietStep DEF SlotStays
    <2> QED  BY <2>3, <2>4
  <1> QED  BY <1>5, <1>6

\* The operator's steps that do not write the task, the timer's, the queue's,
\* and the bridge's restart.
LEMMA OtherSteps ==
  ASSUME SubmissionInv,
         \/ OperatorStarts \/ TellBridge \/ OperatorErases \/ OperatorStops
         \/ TimerFinds \/ TimerErases \/ LoseJob \/ Evict \/ Repost \/ BridgeRestarts
         \/ UNCHANGED vars
  PROVE  SubmissionInv'
  <1>0. /\ job \in JobStates /\ asset \in Asset /\ operator \in Operator
        /\ remote \subseteq ProviderTaskIds
        /\ timer \in BOOLEAN /\ faults \in 0..MaxFaults
    BY DEF SubmissionInv, TypeOK, B!BridgeInv, B!TypeOK
  <1> DEFINE Rows == UNCHANGED <<row, submission, slot, requests>>
  <1>1. \A v \in Workers : Rows => SlotStays(v)
    BY DEF SlotStays
  <1>2. Rows /\ UNCHANGED asset => ObjectStays
    BY DEF ObjectStays, StillNeeded, SubmissionInv, VerdictsAreTrue
  <1>3. UNCHANGED bridge => B!BridgeInv'
    BY BridgeKeeps DEF SubmissionInv, BridgeStep
  <1>4. IdleOperator \in Operator /\ IdleOperator.step = "idle"
    BY DEF IdleOperator, Operator, ProviderIdOrNull
  <1>5. OperatorWaits /\ (timer \/ operator.step = "erase") => row.status = "FAILED"
    BY DEF SubmissionInv, VerdictsAreTrue
  <1>6. CASE OperatorStarts
    <2>1. Rows /\ UNCHANGED <<job, asset, timer, faults, bridge>>
      BY <1>6 DEF OperatorStarts
    <2>2. /\ operator' \in Operator /\ OperatorMoves
      <3>1. CASE \E id \in remote :
              operator' = [step |-> "registry", outcome |-> "ACCEPTED", id |-> id]
        BY <1>0, <3>1 DEF OperatorMoves, Operator, ProviderIdOrNull
      <3>2. CASE /\ remote = {} /\ (OperatorWaits => NobodyCanCreate)
                 /\ operator' = [step |-> "registry", outcome |-> "NOT_CREATED", id |-> NoId]
        <4>1. row.status # "QUEUED"
          BY <1>6 DEF OperatorStarts, ReconcileWhere, ReconcilableStatus
        <4> QED  BY <3>2, <4>1 DEF OperatorMoves, Operator, ProviderIdOrNull, NothingComes
      <3> QED  BY <1>6, <3>1, <3>2 DEF OperatorStarts
    <2>3. TypeOK'
      BY <2>1, <2>2 DEF SubmissionInv, TypeOK
    <2> QED  BY <1>1, <1>2, <1>3, <2>1, <2>2, <2>3, QuietStep DEF bridge
  <1>7. CASE TellBridge
    <2>1. /\ Rows /\ UNCHANGED <<job, asset, timer, faults>> /\ operator.step = "registry"
          /\ operator' = [operator EXCEPT !.step = "write"]
      BY <1>7 DEF TellBridge
    <2>2. \/ operator.outcome = "ACCEPTED" /\ B!ReconcileAccepted(operator.id)
          \/ B!ReconcileNotCreated
      BY <1>7 DEF TellBridge
    <2>3. B!BridgeInv'
      <3>1. operator.outcome = "ACCEPTED" => operator.id \in remote
        BY <2>1 DEF SubmissionInv, IdsAreReal
      <3> QED  BY <2>2, <3>1, BridgeKeeps DEF SubmissionInv, BridgeStep
    <2>4. UNCHANGED <<handler, remote, calls>>
      BY <2>2 DEF B!ReconcileAccepted, B!ReconcileNotCreated
    <2>5. registry = B!NoRow => registry' = B!NoRow
      BY <2>2 DEF B!ReconcileAccepted, B!ReconcileNotCreated, B!AcceptRow,
                  B!ConfirmNotCreatedWhere, B!NoRow
    <2>6. /\ operator' \in Operator /\ operator'.step = "write"
          /\ operator'.outcome = operator.outcome /\ operator'.id = operator.id
      BY <1>0, <2>1 DEF Operator
    <2>7. OperatorMoves
      BY <2>1, <2>6 DEF OperatorMoves, SubmissionInv, IdsAreReal, VerdictsAreTrue
    <2>8. TypeOK'
      BY <2>1, <2>6 DEF SubmissionInv, TypeOK
    <2> QED  BY <1>1, <1>2, <2>1, <2>3, <2>4, <2>5, <2>7, <2>8, QuietStep
  <1>8. CASE OperatorErases \/ OperatorStops
    <2>1. /\ Rows /\ UNCHANGED <<job, timer, faults, bridge>> /\ operator' = IdleOperator
          /\ UNCHANGED asset \/ (operator.step = "erase" /\ Erase)
      BY <1>8 DEF OperatorErases, OperatorStops
    <2>2. OperatorMoves
      BY <1>4, <2>1 DEF OperatorMoves
    <2>3. asset' \in Asset
      BY <1>0, <2>1, EraseFields
    <2>4. ObjectStays
      BY <1>2, <1>5, <2>1 DEF ObjectStays
    <2>5. TypeOK'
      BY <1>4, <2>1, <2>3 DEF SubmissionInv, TypeOK
    <2> QED  BY <1>1, <1>3, <2>1, <2>2, <2>4, <2>5, QuietStep DEF bridge
  <1>9. CASE TimerFinds
    <2>1. /\ Rows /\ UNCHANGED <<job, asset, operator, faults, bridge>> /\ timer' = TRUE
          /\ row.status = "FAILED"
      BY <1>9 DEF TimerFinds, Published, SubmissionInv, SubmittingIsBare
    <2>2. TypeOK'
      BY <2>1 DEF SubmissionInv, TypeOK
    <2> QED  BY <1>1, <1>2, <1>3, <2>1, <2>2, QuietStep DEF bridge
  <1>10. CASE TimerErases
    <2>1. /\ Rows /\ UNCHANGED <<job, operator, faults, bridge>> /\ timer' = FALSE
          /\ timer /\ Erase
      BY <1>10 DEF TimerErases
    <2>2. asset' \in Asset
      BY <1>0, <2>1, EraseFields
    <2>3. ObjectStays
      BY <1>5, <2>1 DEF ObjectStays
    <2>4. TypeOK'
      BY <2>1, <2>2 DEF SubmissionInv, TypeOK
    <2> QED  BY <1>1, <1>3, <2>1, <2>3, <2>4, QuietStep DEF bridge
  <1>11. CASE LoseJob \/ Evict \/ Repost \/ UNCHANGED vars
    <2>1. Rows /\ UNCHANGED <<asset, timer, operator, bridge>> /\ job' \in JobStates
      BY <1>0, <1>11 DEF LoseJob, Evict, Repost, vars, bridge, JobStates
    <2>2. faults' \in 0..MaxFaults
      BY <1>0, <1>11, SubmissionAssumption DEF LoseJob, Evict, Repost, vars, Fault
    <2>3. TypeOK'
      BY <2>1, <2>2 DEF SubmissionInv, TypeOK
    <2> QED  BY <1>1, <1>2, <1>3, <2>1, <2>3, QuietStep DEF bridge
  <1>12. CASE BridgeRestarts
    <2>1. /\ Rows /\ UNCHANGED <<job, asset, timer, operator, faults>> /\ B!Restart
      BY <1>12 DEF BridgeRestarts
    <2>2. /\ UNCHANGED <<registry, remote, calls>>
          /\ \A v \in Workers : handler'[v].step = "idle"
      BY <2>1, ThreadIdle DEF B!Restart
    <2>3. B!BridgeInv'
      BY <2>1, BridgeKeeps DEF SubmissionInv, BridgeStep
    <2>4. TypeOK'
      BY <2>1 DEF SubmissionInv, TypeOK
    <2> QED  BY <1>1, <1>2, <2>1, <2>2, <2>3, <2>4, QuietStep
  <1> QED  BY <1>6, <1>7, <1>8, <1>9, <1>10, <1>11, <1>12

-----------------------------------------------------------------------------
(* The create, the bridge at work, and the writes of the task's rows. *)

\* The one create: nothing was sent before, nobody else may send, and whoever
\* holds that nothing comes would contradict the slot that sends it.
LEMMA CreateStep ==
  ASSUME SubmissionInv, NEW w \in Workers, Create(w)
  PROVE  SubmissionInv'
  <1>1. /\ slot[w].step = "create" /\ Goto(w, "waiting") /\ requests' = requests + 1
        /\ B!Receive(w) /\ UNCHANGED <<row, submission, job, asset, timer, operator, faults>>
    BY DEF Create
  <1>2. /\ Creating(w) /\ requests = 0 /\ remote = {} /\ registry = B!NoRow
        /\ row.status # "QUEUED"
        /\ \A v \in Workers : handler[v].step = "idle" /\ slot[v].step # "waiting"
        /\ \A v \in Workers \ {w} : ~Creating(v)
    BY <1>1, CreatorIsAlone DEF Creating
  <1>3. /\ slot' \in [Workers -> Slot]
        /\ slot'[w].step = "waiting" /\ slot'[w].id = slot[w].id
        /\ \A v \in Workers \ {w} : slot'[v] = slot[v]
    BY <1>1, GotoFields DEF SubmitSteps, SubmissionInv, TypeOK
  <1>4. /\ UNCHANGED <<registry, remote, calls>> /\ handler'[w].step = "received"
        /\ \A v \in Workers \ {w} : handler'[v] = handler[v]
    BY <1>1, ThreadGoto DEF B!Receive, B!HandlerSteps, SubmissionInv, B!BridgeInv, B!TypeOK
  <1>5. requests' = 1
    BY <1>1, <1>2
  <1>6. ~NothingComes
    BY <1>2 DEF NothingComes, NobodyCanCreate, Creating
  <1>7. TypeOK'
    BY <1>1, <1>3, <1>5 DEF SubmissionInv, TypeOK
  <1>8. B!BridgeInv'
    BY <1>1, BridgeKeeps DEF SubmissionInv, BridgeStep
  <1>9. QueuedIsUntouched'
    BY <1>1, <1>2 DEF QueuedIsUntouched
  <1>10. OneCreator' /\ BridgeIsIdle' /\ RequestedOnce'
    BY <1>2, <1>3, <1>5 DEF OneCreator, BridgeIsIdle, RequestedOnce, Creating
  <1>11. OneThread'
    BY <1>2, <1>4 DEF OneThread
  <1>12. IdsAreReal' /\ SubmittingIsBare'
    BY <1>1, <1>3, <1>4 DEF SubmissionInv, IdsAreReal, SubmittingIsBare
  <1>13. FailuresAreCertain'
    BY <1>3, <1>6 DEF SubmissionInv, FailuresAreCertain
  <1>14. ASSUME OperatorWaits PROVE VerdictsAreTrue'
    <2>0. VerdictsAreTrue
      BY <1>14 DEF SubmissionInv
    <2>1. asset.stored \/ row.status = "FAILED"
      BY <1>1, <2>0 DEF VerdictsAreTrue
    <2>2. RowsAgree'
      BY <1>1, <1>4, <2>0 DEF VerdictsAreTrue, RowsAgree
    <2> QED  BY <1>1, <1>3, <1>6, <2>0, <2>1, <2>2 DEF VerdictsAreTrue
  <1> QED  BY <1>7, <1>8, <1>9, <1>10, <1>11, <1>12, <1>13, <1>14 DEF SubmissionInv

\* A thread of the bridge works on.  While nothing comes it has nothing to ask
\* the Provider for.
LEMMA ServeStep ==
  ASSUME SubmissionInv, NEW w \in Workers, BridgeServes(w)
  PROVE  SubmissionInv'
  <1>1. /\ B!Serve(w)
        /\ UNCHANGED <<row, submission, job, slot, asset, timer, operator, requests, faults>>
    BY DEF BridgeServes
  <1>2. B!BridgeInv /\ B!BridgeInv'
    BY <1>1, BridgeKeeps DEF SubmissionInv, BridgeStep
  <1>3. /\ handler[w].step \notin {"idle", "replied"} /\ handler'[w].step # "idle"
        /\ handler'[w].step # "received"
        /\ \A v \in Workers \ {w} : handler'[v] = handler[v]
        /\ remote \subseteq remote'
        /\ handler[w].step # "begun" => UNCHANGED <<remote, calls>>
        /\ handler'[w].step = "begun" => handler[w].step = "received"
        /\ handler'[w].step = "replied" /\ (handler[w].step # "received" \/ registry = B!NoRow)
             => handler'[w].reply \in {"id", "notCreated", "unknown"}
    BY <1>1, <1>2, ServeFrame
  <1>4. requests # 0
    BY <1>3 DEF SubmissionInv, BridgeIsIdle
  <1>5. \A v \in Workers \ {w} : handler[v].step = "idle"
    BY <1>3 DEF SubmissionInv, OneThread
  <1>6. handler[w].step = "received" => registry = B!NoRow
    BY DEF SubmissionInv, OneThread
  <1>7. TypeOK'
    BY <1>1 DEF SubmissionInv, TypeOK
  <1>8. QueuedIsUntouched' /\ OneCreator' /\ RequestedOnce' /\ SubmittingIsBare'
    BY <1>1 DEF SubmissionInv, QueuedIsUntouched, OneCreator, Creating, RequestedOnce,
                SubmittingIsBare
  <1>9. BridgeIsIdle'
    BY <1>1, <1>4 DEF BridgeIsIdle
  <1>10. OneThread'
    BY <1>3, <1>5, <1>6 DEF OneThread
  <1>11. IdsAreReal'
    BY <1>1, <1>3 DEF SubmissionInv, IdsAreReal
  <1>12. ASSUME NothingComes PROVE NothingComes'
    BY <1>1, <1>3, <1>12 DEF NothingComes, NobodyCanCreate
  <1>13. FailuresAreCertain'
    BY <1>1, <1>12 DEF SubmissionInv, FailuresAreCertain
  <1>14. ASSUME OperatorWaits PROVE VerdictsAreTrue'
    <2>0. VerdictsAreTrue
      BY <1>14 DEF SubmissionInv
    <2>1. RowsAgree'
      BY <1>1, <1>3, <2>0 DEF VerdictsAreTrue, RowsAgree
    <2> QED  BY <1>1, <1>12, <2>0, <2>1 DEF VerdictsAreTrue
  <1> QED  BY <1>2, <1>7, <1>8, <1>9, <1>10, <1>11, <1>13, <1>14 DEF SubmissionInv

\* claimSubmission takes a task nobody has touched: its slot is the only one
\* that may create.
LEMMA ClaimStep ==
  ASSUME SubmissionInv, NEW w \in Workers, Claim(w)
  PROVE  SubmissionInv'
  <1>0. /\ slot[w].step = "claim" /\ slot \in [Workers -> Slot] /\ job \in JobStates
        /\ row \in TaskRow /\ submission \in SubmissionRow /\ faults \in 0..MaxFaults
        /\ asset \in Asset
        /\ UNCHANGED <<asset, timer, operator, requests, faults, bridge>>
    BY DEF Claim, SubmissionInv, TypeOK
  <1>1. CASE ~ClaimSubmissionWhere(row)
    <2>1. Finish(w) /\ UNCHANGED <<row, submission>>
      BY <1>1 DEF Claim
    <2>2. /\ slot' \in [Workers -> Slot] /\ job' \in JobStates /\ slot'[w].step = "idle"
          /\ \A v \in Workers \ {w} : slot'[v] = slot[v]
      BY <1>0, <2>1, LeaveFields DEF Finish, JobStates
    <2>3. SlotMoves(w)
      BY <2>2 DEF SlotMoves, Creating
    <2> QED  BY <1>0, <2>1, <2>2, <2>3, SlotStep
  <1>2. CASE ClaimSubmissionWhere(row)
    <2>1. /\ row' = ClaimSubmission(row) /\ Goto(w, "publish") /\ UNCHANGED job
          /\ submission' = [submission EXCEPT !.status = "ATTEMPTING"]
      BY <1>2 DEF Claim
    <2>2. /\ row.status = "QUEUED" /\ row.providerTaskId = NoId /\ row.cleanupReady = FALSE
          /\ requests = 0 /\ submission = [status |-> "NONE", providerTaskId |-> NoId]
          /\ \A v \in Workers : slot[v].step \in {"idle", "load", "claim"}
      BY <1>2 DEF ClaimSubmissionWhere, SubmissionInv, QueuedIsUntouched, QueuedRow
    <2>3. /\ slot' \in [Workers -> Slot] /\ slot'[w].step = "publish"
          /\ \A v \in Workers \ {w} : slot'[v] = slot[v]
      BY <1>0, <2>1, GotoFields DEF SubmitSteps
    <2>4. /\ row' \in TaskRow /\ row'.status = "SUBMITTING"
          /\ row'.providerTaskId = NoId /\ row'.cleanupReady = FALSE
      BY <1>0, <2>1, <2>2 DEF ClaimSubmission, TaskRow, TaskStatus
    <2>5. submission' = [status |-> "ATTEMPTING", providerTaskId |-> NoId]
      BY <2>1, <2>2
    <2>6. UNCHANGED <<registry, handler, remote, calls>>
      BY <1>0 DEF bridge
    <2>7. \A v \in Workers : slot'[v].step \in {"idle", "load", "claim", "publish"}
      BY <2>2, <2>3
    <2>8. TypeOK'
      BY <1>0, <2>1, <2>3, <2>4, <2>5 DEF SubmissionInv, TypeOK, SubmissionRow,
                                          SubmissionStatus, ProviderIdOrNull
    <2>9. B!BridgeInv'
      BY <1>0, BridgeKeeps DEF SubmissionInv, BridgeStep
    <2>10. QueuedIsUntouched' /\ SubmittingIsBare'
      BY <2>4, <2>5 DEF QueuedIsUntouched, SubmittingIsBare
    <2>11. OneCreator'
      BY <1>0, <2>2, <2>3 DEF OneCreator, Creating
    <2>12. BridgeIsIdle'
      BY <1>0, <2>6, <2>7 DEF SubmissionInv, BridgeIsIdle
    <2>13. RequestedOnce' /\ OneThread'
      BY <1>0, <2>6 DEF SubmissionInv, RequestedOnce, OneThread
    <2>14. IdsAreReal'
      BY <1>0, <2>4, <2>6, <2>7 DEF SubmissionInv, IdsAreReal
    <2>15. FailuresAreCertain'
      BY <2>7 DEF FailuresAreCertain
    <2>16. ASSUME OperatorWaits PROVE VerdictsAreTrue'
      <3>0. VerdictsAreTrue /\ ~NothingComes
        BY <2>2, <2>16 DEF SubmissionInv, NothingComes
      <3>1. RowsAgree'
        BY <2>4, <2>5 DEF RowsAgree
      <3> QED  BY <1>0, <2>2, <2>4, <2>5, <2>7, <3>0, <3>1 DEF VerdictsAreTrue
    <2> QED  BY <2>8, <2>9, <2>10, <2>11, <2>12, <2>13, <2>14, <2>15, <2>16
             DEF SubmissionInv
  <1> QED  BY <1>1, <1>2

\* A write that takes the task out of submission, or off the users' list.
LEMMA WriteStep ==
  ASSUME SubmissionInv, TypeOK', UNCHANGED <<asset, timer, requests, bridge>>,
         \A v \in Workers : slot'[v] = slot[v] \/ slot'[v].step \in {"idle", "cleanup"},
         \/ UNCHANGED operator \/ operator'.step = "idle"
         \/ operator'.step = "erase" /\ operator'.outcome = "NOT_CREATED" /\ row'.status = "FAILED",
         row'.status \notin {"QUEUED", "SUBMITTING"},
         row'.status = "PROCESSING" \/ row'.providerTaskId # NoId => row'.providerTaskId \in remote,
         row'.cleanupReady => row'.status = "FAILED",
         OperatorWaits =>
           /\ RowsAgree'
           /\ row.status = "FAILED" => row'.status = "FAILED"
           /\ row'.status = "FAILED" \/ submission'.status = "NOT_CREATED" => NothingComes
  PROVE  SubmissionInv'
  <1>1. UNCHANGED registry /\ UNCHANGED handler /\ UNCHANGED remote /\ UNCHANGED calls
    BY DEF bridge
  <1>2. B!BridgeInv'
    BY BridgeKeeps DEF SubmissionInv, BridgeStep
  <1>3. QueuedIsUntouched' /\ SubmittingIsBare'
    BY DEF QueuedIsUntouched, SubmittingIsBare
  <1>4. OneCreator' /\ BridgeIsIdle'
    BY <1>1 DEF SubmissionInv, OneCreator, BridgeIsIdle, Creating
  <1>5. RequestedOnce' /\ OneThread'
    BY <1>1 DEF SubmissionInv, RequestedOnce, OneThread
  <1>6. IdsAreReal'
    BY <1>1 DEF SubmissionInv, IdsAreReal
  <1>7. ASSUME NothingComes PROVE NothingComes'
    BY <1>1, <1>7 DEF NothingComes, NobodyCanCreate
  <1>8. FailuresAreCertain'
    BY <1>1, <1>7 DEF SubmissionInv, FailuresAreCertain
  <1>9. ASSUME OperatorWaits PROVE VerdictsAreTrue'
    <2>0. VerdictsAreTrue
      BY <1>9 DEF SubmissionInv
    <2>1. (operator.step \in {"registry", "write"} /\ operator.outcome = "NOT_CREATED"
             => NothingComes)'
      BY <1>7, <2>0 DEF VerdictsAreTrue
    <2>2. (row.status = "FAILED" \/ submission.status = "NOT_CREATED" => NothingComes)'
      BY <1>7, <1>9
    <2>3. (timer \/ operator.step = "erase" \/ (\E w \in Workers : slot[w].step = "erase")
             => row.status = "FAILED")'
      BY <1>9, <2>0 DEF VerdictsAreTrue
    <2>4. (requests > 0 \/ (\E w \in Workers : slot[w].step \in {"record", "create"})
             => asset.stored \/ row.status = "FAILED")'
      BY <1>9, <2>0 DEF VerdictsAreTrue
    <2> QED  BY <1>9, <2>1, <2>2, <2>3, <2>4 DEF VerdictsAreTrue
  <1> QED  BY <1>2, <1>3, <1>4, <1>5, <1>6, <1>8, <1>9 DEF SubmissionInv

LEMMA WriteSteps ==
  ASSUME SubmissionInv,
         \/ \E w \in Workers : MarkUnknown(w) \/ Accept(w) \/ MarkFailed(w)
         \/ BindTask \/ FailTask \/ UserCancel
  PROVE  SubmissionInv'
  <1>0. /\ slot \in [Workers -> Slot] /\ job \in JobStates /\ row \in TaskRow
        /\ submission \in SubmissionRow /\ operator \in Operator /\ faults \in 0..MaxFaults
        /\ asset \in Asset /\ remote \subseteq ProviderTaskIds /\ NoId \notin remote
    BY NoIdAssumption DEF SubmissionInv, TypeOK, B!BridgeInv, B!TypeOK
  <1>1. /\ row.status = "SUBMITTING" => SubmittingWhere(row)
        /\ row.status = "PROCESSING" \/ row.providerTaskId # NoId => row.providerTaskId \in remote
        /\ row.cleanupReady => row.status = "FAILED"
    BY DEF SubmissionInv, SubmittingIsBare, IdsAreReal, SubmittingWhere
  <1>2. OperatorWaits => VerdictsAreTrue
    BY DEF SubmissionInv
  <1>3. ASSUME NEW w \in Workers, MarkUnknown(w) PROVE SubmissionInv'
    <2>1. /\ slot[w].step = "unknown" /\ Finish(w)
          /\ UNCHANGED <<asset, timer, operator, requests, faults, bridge>>
      BY <1>3 DEF MarkUnknown
    <2>2. /\ slot' \in [Workers -> Slot] /\ job' \in JobStates /\ slot'[w].step = "idle"
          /\ \A v \in Workers \ {w} : slot'[v] = slot[v]
      BY <1>0, <2>1, LeaveFields DEF Finish, JobStates
    <2>3. CASE SubmittingWhere(row)
      <3>1. /\ row' \in TaskRow /\ row'.status = "RECONCILIATION_REQUIRED"
            /\ row'.providerTaskId = NoId /\ row'.cleanupReady = FALSE
        BY <1>0, <1>3, <2>3 DEF MarkUnknown, SubmittingWhere, MarkSubmissionOutcomeUnknown,
                                TaskRow, TaskStatus
      <3>2. submission' \in SubmissionRow /\ submission'.status = "OUTCOME_UNKNOWN"
        BY <1>0, <1>3, <2>3 DEF MarkUnknown, SubmissionRow, SubmissionStatus
      <3>3. TypeOK'
        BY <1>0, <2>1, <2>2, <3>1, <3>2 DEF SubmissionInv, TypeOK
      <3>4. RowsAgree'
        BY <3>1, <3>2 DEF RowsAgree
      <3>5. row.status # "FAILED"
        BY <2>3 DEF SubmittingWhere
      <3> QED  BY <2>1, <2>2, <3>1, <3>2, <3>3, <3>4, <3>5, WriteStep
    <2>4. CASE ~SubmittingWhere(row)
      <3>1. UNCHANGED <<row, submission>>
        BY <1>3, <2>4 DEF MarkUnknown
      <3>2. SlotMoves(w)
        BY <2>2 DEF SlotMoves, Creating
      <3> QED  BY <1>0, <2>1, <2>2, <3>1, <3>2, SlotStep
    <2> QED  BY <2>3, <2>4
  <1>4. ASSUME NEW w \in Workers, Accept(w) PROVE SubmissionInv'
    <2>1. /\ slot[w].step = "accept" /\ Finish(w) /\ slot[w].id \in ProviderTaskIds
          /\ slot[w].id \in remote /\ row.status # "QUEUED"
          /\ UNCHANGED <<asset, timer, operator, requests, faults, bridge>>
      BY <1>0, <1>4, TakenMeansTaken DEF Accept, SubmissionInv, IdsAreReal
    <2>2. /\ slot' \in [Workers -> Slot] /\ job' \in JobStates /\ slot'[w].step = "idle"
          /\ \A v \in Workers \ {w} : slot'[v] = slot[v]
      BY <1>0, <2>1, LeaveFields DEF Finish, JobStates
    <2>3. submission' = [status |-> "ACCEPTED", providerTaskId |-> slot[w].id]
      BY <1>4 DEF Accept
    <2>4. UNCHANGED remote
      BY <2>1 DEF bridge
    <2>5. CASE SubmittingWhere(row)
      <3>1. row' = AcceptSubmission(row, slot[w].id, 1, 2)
        BY <1>4, <2>5 DEF Accept
      <3>2. /\ row' \in TaskRow /\ row'.status = "PROCESSING"
            /\ row'.providerTaskId = slot[w].id /\ row'.cleanupReady = FALSE
        BY <1>0, <2>1, <3>1, AcceptFields
      <3>3. TypeOK'
        BY <2>1, <2>2, <2>3, <3>2 DEF SubmissionInv, TypeOK, SubmissionRow, SubmissionStatus,
                                      ProviderIdOrNull
      <3>4. RowsAgree'
        BY <2>1, <2>3, <2>4, <3>2 DEF RowsAgree
      <3>5. row.status # "FAILED"
        BY <2>5 DEF SubmittingWhere
      <3> QED  BY <2>1, <2>2, <2>3, <3>2, <3>3, <3>4, <3>5, WriteStep
    <2>6. CASE ~SubmittingWhere(row)
      <3>1. UNCHANGED row /\ row.status # "SUBMITTING"
        BY <1>1, <1>4, <2>6 DEF Accept
      <3>2. TypeOK'
        BY <2>1, <2>2, <2>3, <3>1 DEF SubmissionInv, TypeOK, SubmissionRow, SubmissionStatus,
                                      ProviderIdOrNull
      <3>3. ASSUME OperatorWaits PROVE RowsAgree' /\ row.status # "FAILED"
        <4>1. RowsAgree /\ row.status # "FAILED"
          BY <1>2, <2>1, <3>3 DEF VerdictsAreTrue, NothingComes
        <4>2. row.status = "PROCESSING" => row.providerTaskId = slot[w].id
          BY <1>1, <2>1 DEF SubmissionInv, B!BridgeInv, B!OneTask
        <4> QED  BY <2>1, <2>3, <2>4, <3>1, <4>1, <4>2 DEF RowsAgree
      <3> QED  BY <1>1, <2>1, <2>2, <2>3, <3>1, <3>2, <3>3, WriteStep
    <2> QED  BY <2>5, <2>6
  <1>5. ASSUME NEW w \in Workers, MarkFailed(w) PROVE SubmissionInv'
    <2>1. /\ slot[w].step = "failed" /\ Goto(w, "cleanup") /\ NothingComes
          /\ UNCHANGED <<job, asset, timer, operator, requests, faults, bridge>>
      BY <1>5 DEF MarkFailed, SubmissionInv, FailuresAreCertain
    <2>2. /\ slot' \in [Workers -> Slot] /\ slot'[w].step = "cleanup"
          /\ \A v \in Workers \ {w} : slot'[v] = slot[v]
      BY <1>0, <2>1, GotoFields DEF SubmitSteps
    <2>3. CASE SubmittingWhere(row)
      <3>1. /\ row' \in TaskRow /\ row'.status = "FAILED"
            /\ row'.providerTaskId = NoId /\ row'.cleanupReady = TRUE
        BY <1>0, <1>5, <2>3 DEF MarkFailed, SubmittingWhere, MarkSubmissionFailed,
                                TaskRow, TaskStatus
      <3>2. submission' \in SubmissionRow /\ submission'.status = "NOT_CREATED"
        BY <1>0, <1>5, <2>3 DEF MarkFailed, SubmissionRow, SubmissionStatus
      <3>3. TypeOK'
        BY <1>0, <2>1, <2>2, <3>1, <3>2 DEF SubmissionInv, TypeOK
      <3>4. RowsAgree'
        BY <3>1, <3>2 DEF RowsAgree
      <3> QED  BY <2>1, <2>2, <3>1, <3>2, <3>3, <3>4, WriteStep
    <2>4. CASE ~SubmittingWhere(row)
      <3>1. UNCHANGED <<row, submission>>
        BY <1>5, <2>4 DEF MarkFailed
      <3>2. SlotMoves(w)
        BY <2>1, <2>2 DEF SlotMoves, Creating, NothingComes
      <3> QED  BY <1>0, <2>1, <2>2, <3>1, <3>2, SlotStep
    <2> QED  BY <2>3, <2>4

  <1>6. ASSUME BindTask \/ FailTask, ~ReconcileWhere(row) PROVE SubmissionInv'
    <2>1. /\ operator' = IdleOperator /\ UNCHANGED <<row, submission>>
          /\ UNCHANGED <<job, slot, asset, timer, requests, faults, bridge>>
      BY <1>6 DEF BindTask, FailTask
    <2>2. IdleOperator \in Operator /\ IdleOperator.step = "idle"
      BY DEF IdleOperator, Operator, ProviderIdOrNull
    <2>3. TypeOK'
      BY <2>1, <2>2 DEF SubmissionInv, TypeOK
    <2>4. OperatorMoves
      BY <2>1, <2>2 DEF OperatorMoves
    <2>5. ObjectStays
      BY <1>2, <2>1 DEF ObjectStays, StillNeeded, VerdictsAreTrue
    <2>6. B!BridgeInv'
      BY <2>1, BridgeKeeps DEF SubmissionInv, BridgeStep
    <2> QED  BY <2>1, <2>3, <2>4, <2>5, <2>6, QuietStep DEF SlotStays, bridge
  <1>7. ASSUME BindTask, ReconcileWhere(row) PROVE SubmissionInv'
    <2>1. /\ row' = BindSubmission(row, operator.id, row.pollVersion + 1, 1, 2)
          /\ submission' = [status |-> "ACCEPTED", providerTaskId |-> operator.id]
          /\ operator' = IdleOperator
          /\ UNCHANGED <<job, slot, asset, timer, requests, faults, bridge>>
      BY <1>7 DEF BindTask
    <2>2. operator.id \in remote /\ operator.id \in ProviderTaskIds
      BY <1>0, <1>7 DEF BindTask, SubmissionInv, IdsAreReal
    <2>3. row.pollVersion + 1 \in Nat
      BY <1>0 DEF TaskRow
    <2>4. /\ row' \in TaskRow /\ row'.status = "PROCESSING"
          /\ row'.providerTaskId = operator.id /\ row'.cleanupReady = FALSE
      BY <1>0, <2>1, <2>2, <2>3, BindFields
    <2>5. IdleOperator \in Operator /\ IdleOperator.step = "idle"
      BY DEF IdleOperator, Operator, ProviderIdOrNull
    <2>6. TypeOK'
      BY <2>1, <2>2, <2>4, <2>5 DEF SubmissionInv, TypeOK, SubmissionRow, SubmissionStatus,
                                    ProviderIdOrNull
    <2>7. UNCHANGED remote
      BY <2>1 DEF bridge
    <2>8. RowsAgree'
      BY <2>1, <2>2, <2>4, <2>7 DEF RowsAgree
    <2>9. row.status # "FAILED"
      BY <1>7 DEF ReconcileWhere, ReconcilableStatus
    <2> QED  BY <2>1, <2>2, <2>4, <2>5, <2>6, <2>8, <2>9, WriteStep
  <1>8. ASSUME FailTask, ReconcileWhere(row) PROVE SubmissionInv'
    <2>1. /\ row' = ConfirmNotCreated(row) /\ row.providerTaskId = NoId
          /\ submission' = [submission EXCEPT !.status = "NOT_CREATED"]
          /\ operator' = [operator EXCEPT !.step = "erase"]
          /\ operator.step = "write" /\ operator.outcome = "NOT_CREATED"
          /\ UNCHANGED <<job, slot, asset, timer, requests, faults, bridge>>
      BY <1>8 DEF FailTask, ReconcileWhere
    <2>2. OperatorWaits => NothingComes
      BY <1>2, <2>1 DEF VerdictsAreTrue
    <2>3. /\ row' \in TaskRow /\ row'.status = "FAILED"
          /\ row'.providerTaskId = NoId /\ row'.cleanupReady = TRUE
      BY <1>0, <2>1 DEF ConfirmNotCreated, TaskRow, TaskStatus
    <2>4. submission' \in SubmissionRow /\ submission'.status = "NOT_CREATED"
      BY <1>0, <2>1 DEF SubmissionRow, SubmissionStatus
    <2>5. /\ operator' \in Operator /\ operator'.step = "erase"
          /\ operator'.outcome = "NOT_CREATED"
      BY <1>0, <2>1 DEF Operator
    <2>6. TypeOK'
      BY <2>1, <2>3, <2>4, <2>5 DEF SubmissionInv, TypeOK
    <2>7. RowsAgree'
      BY <2>3, <2>4 DEF RowsAgree
    <2> QED  BY <2>1, <2>2, <2>3, <2>4, <2>5, <2>6, <2>7, WriteStep
  <1>9. CASE UserCancel
    <2>1. /\ row' = CancelTask(row) /\ row.status \in {"QUEUED", "SUBMITTING", "PROCESSING"}
          /\ UNCHANGED <<submission, job, slot, asset, timer, operator, requests, faults, bridge>>
      BY <1>9 DEF UserCancel, CancelWhere, CancellableStatus
    <2>2. /\ row' \in TaskRow /\ row'.status = "CANCELLED"
          /\ row'.providerTaskId = row.providerTaskId /\ row'.cleanupReady = row.cleanupReady
      BY <1>0, <2>1 DEF CancelTask, TaskRow, TaskStatus
    <2>3. TypeOK'
      BY <2>1, <2>2 DEF SubmissionInv, TypeOK
    <2>4. UNCHANGED remote
      BY <2>1 DEF bridge
    <2>5. RowsAgree'
      BY <1>1, <2>2, <2>4 DEF RowsAgree
    <2> QED  BY <1>1, <1>2, <2>1, <2>2, <2>3, <2>5, WriteStep DEF VerdictsAreTrue
  <1> QED  BY <1>3, <1>4, <1>5, <1>6, <1>7, <1>8, <1>9

-----------------------------------------------------------------------------
LEMMA InitHolds == Init => SubmissionInv
  <1> SUFFICES ASSUME Init PROVE SubmissionInv
    OBVIOUS
  <1>1. IdleSlot \in Slot /\ IdleSlot.step = "idle" /\ IdleSlot.id = NoId
    BY DEF IdleSlot, Slot, SubmitSteps, ProviderIdOrNull
  <1>2. /\ slot \in [Workers -> Slot] /\ \A w \in Workers : slot[w].step = "idle"
        /\ requests = 0 /\ faults = 0 /\ timer = FALSE /\ operator = IdleOperator
        /\ row = QueuedRow /\ submission = [status |-> "NONE", providerTaskId |-> NoId]
        /\ asset = [stored |-> FALSE, record |-> "none"] /\ B!Init
    BY <1>1 DEF Init
  <1>3. /\ registry = B!NoRow /\ remote = {} /\ calls = 0
        /\ \A w \in Workers : handler[w].step = "idle" /\ handler[w].reply = "none"
        /\ handler \in [Workers -> B!Handler]
    BY <1>2, ThreadIdle DEF B!Init
  <1>4. B!BridgeInv
    <2>1. registry \in B!RegistryRow /\ registry.status = "NONE"
      BY <1>3 DEF B!NoRow, B!RegistryRow, B!RegistryStatus
    <2> QED  BY <1>3, <2>1 DEF B!BridgeInv, B!TypeOK, B!ProviderCalledOnce, B!BeganOnce,
                 B!ThreadsKnow, B!RepliesAreTrue, B!RegistryKnows, B!OneTask
  <1>5. /\ row \in TaskRow /\ row.status = "QUEUED" /\ row.providerTaskId = NoId
        /\ row.cleanupReady = FALSE
    BY <1>2 DEF QueuedRow, TaskRow, TaskStatus, ProviderIdOrNull, Never
  <1>6. operator \in Operator /\ operator.step = "idle"
    BY <1>2 DEF IdleOperator, Operator, ProviderIdOrNull
  <1>7. TypeOK
    <2>1. job \in JobStates
      BY DEF Init, JobStates
    <2>2. submission \in SubmissionRow /\ asset \in Asset /\ faults \in 0..MaxFaults
      BY <1>2, SubmissionAssumption DEF SubmissionRow, SubmissionStatus, ProviderIdOrNull, Asset
    <2> QED  BY <1>2, <1>5, <1>6, <2>1, <2>2 DEF TypeOK
  <1>8. QueuedIsUntouched /\ OneCreator /\ BridgeIsIdle /\ RequestedOnce /\ OneThread
    BY <1>2, <1>3 DEF QueuedIsUntouched, OneCreator, Creating, BridgeIsIdle, RequestedOnce,
                      OneThread
  <1>9. IdsAreReal /\ SubmittingIsBare /\ FailuresAreCertain
    BY <1>2, <1>5, <1>6 DEF IdsAreReal, SubmittingIsBare, FailuresAreCertain
  <1>10. VerdictsAreTrue
    BY <1>2, <1>5, <1>6 DEF VerdictsAreTrue, RowsAgree
  <1> QED  BY <1>4, <1>7, <1>8, <1>9, <1>10 DEF SubmissionInv

LEMMA StepKeeps == SubmissionInv /\ [Next]_vars => SubmissionInv'
  <1> SUFFICES ASSUME SubmissionInv, [Next]_vars PROVE SubmissionInv'
    OBVIOUS
  <1>1. ASSUME NEW w \in Workers, Process(w) PROVE SubmissionInv'
    BY <1>1, SlotSteps, ClaimStep, CreateStep, CloseStep, WriteSteps DEF Process
  <1>2. ASSUME NEW w \in Workers,
               \/ Deliver(w) \/ BridgeServes(w) \/ BridgeCloses(w)
               \/ WriteFails(w) \/ JobFails(w) \/ Crash(w) \/ Stall(w)
        PROVE  SubmissionInv'
    BY <1>2, SlotSteps, ServeStep, CloseStep
  <1>3. CASE LoseJob \/ Evict \/ BridgeRestarts \/ TimerFinds \/ TimerErases \/ Repost \/ UNCHANGED vars
    BY <1>3, OtherSteps
  <1>4. CASE UserCancel \/ Reconcile
    BY <1>4, OtherSteps, WriteSteps DEF Reconcile
  <1> QED  BY <1>1, <1>2, <1>3, <1>4 DEF Next

\* However job slots, the bridge, the users and the operator interleave, and
\* whatever fails, the task, its registry row and the object stay in the
\* relation SubmissionInv describes.
THEOREM SubmissionInvariant == Spec => []SubmissionInv
  BY InitHolds, StepKeeps, PTL DEF Spec

\* claimSubmission lets one create request per task through, over all
\* redeliveries, crashes, timeouts, repeated posts and reconciliations.
THEOREM OneRequestIsSent == Spec => []RequestedOnce
  <1>1. SubmissionInv => RequestedOnce
    BY DEF SubmissionInv
  <1> QED  BY <1>1, SubmissionInvariant, PTL

\* What the two rows of the task say of its submission goes together, and the
\* identifier they name is one the Provider gave out.
THEOREM TheRowsAgree ==
  ASSUME OperatorWaits
  PROVE  Spec => []RowsAgree
  <1>1. SubmissionInv => RowsAgree
    BY OperatorWaits DEF SubmissionInv, VerdictsAreTrue
  <1> QED  BY <1>1, SubmissionInvariant, PTL

\* A task is written off only if the Provider has none for it and never will.
THEOREM WriteOffsAreTrue ==
  ASSUME OperatorWaits
  PROVE  Spec => []NotCreatedIsTrue
  <1>1. SubmissionInv => NotCreatedIsTrue
    BY OperatorWaits DEF SubmissionInv, VerdictsAreTrue, NotCreatedIsTrue, NothingComes
  <1> QED  BY <1>1, SubmissionInvariant, PTL

\* The reference object outlives every deletion while the Provider has the task.
THEOREM TheObjectIsKept ==
  ASSUME OperatorWaits
  PROVE  Spec => []ObjectKept
  <1>1. SubmissionInv => ObjectKept
    <2> SUFFICES ASSUME SubmissionInv, remote # {} PROVE asset.stored
      BY DEF ObjectKept
    <2>1. requests > 0
      <3>1. requests # 0
        BY DEF SubmissionInv, BridgeIsIdle, B!BridgeInv, B!BeganOnce
      <3> QED  BY <3>1 DEF SubmissionInv, TypeOK
    <2> QED  BY <2>1, OperatorWaits DEF SubmissionInv, VerdictsAreTrue, NothingComes
  <1> QED  BY <1>1, SubmissionInvariant, PTL

\* The steps that write the task's row; none of them touches the bridge.
LEMMA RowWriters ==
  ASSUME [Next]_vars, row' # row
  PROVE  /\ \/ \E w \in Workers : \/ Claim(w) /\ ClaimSubmissionWhere(row)
                                  \/ MarkUnknown(w) /\ SubmittingWhere(row)
                                  \/ Accept(w) /\ SubmittingWhere(row)
                                  \/ MarkFailed(w) /\ SubmittingWhere(row)
            \/ (BindTask \/ FailTask) /\ ReconcileWhere(row)
            \/ UserCancel
         /\ UNCHANGED bridge
  <1>1. ASSUME NEW w \in Workers, Process(w)
        PROVE  \/ Claim(w) /\ ClaimSubmissionWhere(row)
               \/ MarkUnknown(w) /\ SubmittingWhere(row)
               \/ Accept(w) /\ SubmittingWhere(row)
               \/ MarkFailed(w) /\ SubmittingWhere(row)
    BY <1>1 DEF Process, Load, Claim, Publish, Record, Discard, NotSent, Create, ReadReply,
                Timeout, RecoverAfter, RecoverOnly, MarkUnknown, Accept, MarkFailed, Cleanup,
                EraseAtEnd
  <1>2. ASSUME NEW w \in Workers,
               \/ Deliver(w) \/ BridgeServes(w) \/ BridgeCloses(w)
               \/ WriteFails(w) \/ JobFails(w) \/ Crash(w) \/ Stall(w)
        PROVE  FALSE
    BY <1>2 DEF Deliver, BridgeServes, BridgeCloses, WriteFails, JobFails, Crash, Stall
  <1>3. CASE LoseJob \/ Evict \/ BridgeRestarts \/ TimerFinds \/ TimerErases \/ Repost
               \/ UNCHANGED vars
    BY <1>3 DEF LoseJob, Evict, BridgeRestarts, TimerFinds, TimerErases, Repost, vars
  <1>4. CASE UserCancel \/ Reconcile
    BY <1>4 DEF Reconcile, OperatorStarts, TellBridge, BindTask, FailTask, OperatorErases,
                OperatorStops, UserCancel
  <1>5. \/ \E w \in Workers : \/ Claim(w) /\ ClaimSubmissionWhere(row)
                              \/ MarkUnknown(w) /\ SubmittingWhere(row)
                              \/ Accept(w) /\ SubmittingWhere(row)
                              \/ MarkFailed(w) /\ SubmittingWhere(row)
        \/ (BindTask \/ FailTask) /\ ReconcileWhere(row)
        \/ UserCancel
    BY <1>1, <1>2, <1>3, <1>4 DEF Next
  <1> QED  BY <1>5 DEF Claim, MarkUnknown, Accept, MarkFailed, BindTask, FailTask, UserCancel

\* Submission implements TaskLifecycle.
THEOREM FollowsLifecycle == Spec => LifecycleSpec
  <1> DEFINE Same == UNCHANGED <<row.status, row.providerTaskId, row.cleanupReady>>
  <1>1. Init => Lifecycle!Init
    BY DEF Init, Lifecycle!Init, QueuedRow
  <1>2. ASSUME SubmissionInv, [Next]_vars
        PROVE  Lifecycle!Next \/ Same
    <2>0. /\ row \in TaskRow /\ submission \in SubmissionRow
          /\ remote \subseteq ProviderTaskIds
      BY <1>2 DEF SubmissionInv, TypeOK, B!BridgeInv, B!TypeOK
    <2>1. CASE UNCHANGED row
      BY <2>1
    <2>2. ASSUME NEW w \in Workers, Claim(w), ClaimSubmissionWhere(row) PROVE Lifecycle!Start
      BY <2>0, <2>2 DEF Claim, ClaimSubmissionWhere, ClaimSubmission, TaskRow, Lifecycle!Start
    <2>3. ASSUME NEW w \in Workers, MarkUnknown(w), SubmittingWhere(row)
          PROVE  Lifecycle!OutcomeUnknown
      <3>1. row.cleanupReady = FALSE
        BY <1>2, <2>0, <2>3 DEF SubmissionInv, SubmittingIsBare, SubmittingWhere, TaskRow
      <3> QED  BY <2>0, <2>3, <3>1 DEF MarkUnknown, SubmittingWhere, TaskRow,
                   MarkSubmissionOutcomeUnknown, Lifecycle!OutcomeUnknown
    <2>4. ASSUME NEW w \in Workers, Accept(w), SubmittingWhere(row) PROVE Lifecycle!Accept
      <3>1. slot[w].id \in ProviderTaskIds
        BY <1>2, <2>0, <2>4 DEF Accept, SubmissionInv, IdsAreReal
      <3>2. row' = AcceptSubmission(row, slot[w].id, 1, 2)
        BY <2>4 DEF Accept
      <3>3. /\ row'.status = "PROCESSING" /\ row'.providerTaskId = slot[w].id
            /\ row'.cleanupReady = FALSE
        BY <2>0, <3>1, <3>2, AcceptFields
      <3> QED  BY <2>4, <3>1, <3>3 DEF SubmittingWhere, Lifecycle!Accept
    <2>5. ASSUME NEW w \in Workers, MarkFailed(w), SubmittingWhere(row)
          PROVE  Lifecycle!NotCreated
      BY <2>0, <2>5 DEF MarkFailed, SubmittingWhere, MarkSubmissionFailed, TaskRow,
                        Lifecycle!NotCreated
    <2>6. ASSUME BindTask, ReconcileWhere(row) PROVE Lifecycle!Accept
      <3>1. operator.id \in ProviderTaskIds /\ row.pollVersion + 1 \in Nat
        BY <1>2, <2>0, <2>6 DEF BindTask, SubmissionInv, IdsAreReal, TaskRow
      <3>2. row' = BindSubmission(row, operator.id, row.pollVersion + 1, 1, 2)
        BY <2>6 DEF BindTask
      <3>3. /\ row'.status = "PROCESSING" /\ row'.providerTaskId = operator.id
            /\ row'.cleanupReady = FALSE
        BY <2>0, <3>1, <3>2, BindFields
      <3> QED  BY <2>6, <3>1, <3>3 DEF ReconcileWhere, ReconcilableStatus, Lifecycle!Accept
    <2>7. ASSUME FailTask, ReconcileWhere(row) PROVE Lifecycle!NotCreated
      BY <2>0, <2>7 DEF FailTask, ReconcileWhere, ReconcilableStatus, ConfirmNotCreated,
                        TaskRow, Lifecycle!NotCreated
    <2>8. ASSUME UserCancel PROVE Lifecycle!Cancel
      BY <2>0, <2>8 DEF UserCancel, CancelWhere, CancellableStatus, CancelTask, TaskRow,
                        Lifecycle!Cancel
    <2>9. CASE row' # row
      BY <1>2, <2>2, <2>3, <2>4, <2>5, <2>6, <2>7, <2>8, <2>9, RowWriters DEF Lifecycle!Next
    <2> QED  BY <2>1, <2>9
  <1>3. SubmissionInv /\ [Next]_vars => [Lifecycle!Next]_(Lifecycle!vars)
    BY <1>2 DEF Lifecycle!vars
  <1> QED  BY <1>1, <1>3, SubmissionInvariant, PTL DEF Spec, LifecycleSpec, Lifecycle!Spec
-----------------------------------------------------------------------------
(* What the worker, its faults and the script do to the bridge is what any *)
(* clients and an operator may do to it.                                   *)

\* The script sends the bridge what its endpoint accepts: an identifier the
\* operator has found at the Provider, or that there is none.
LEMMA ScriptSends ==
  ASSUME SubmissionInv, TellBridge
  PROVE  B!Operator
  <1>1. CASE operator.outcome = "ACCEPTED"
    <2>1. operator.id \in remote /\ B!ReconcileAccepted(operator.id)
      BY <1>1 DEF TellBridge, SubmissionInv, IdsAreReal
    <2> QED  BY <2>1 DEF B!Operator
  <1>2. CASE operator.outcome # "ACCEPTED"
    BY <1>2 DEF TellBridge, B!Operator
  <1> QED  BY <1>1, <1>2

\* Nobody runs the script where no operator does.
NoScript == ~Reconciles => operator.step = "idle"

\* Submission implements Bridge: whatever BridgeSpec promises to any clients it
\* keeps to the worker and the script.
THEOREM ServesAsBridge == Spec => B!Spec
  <1>1. Init => B!Init /\ NoScript
    BY DEF Init, NoScript, IdleOperator
  <1>2. ASSUME SubmissionInv, NoScript, [Next]_vars
        PROVE  [B!Next]_(B!vars) /\ NoScript'
    <2> USE DEF bridge, B!vars
    <2>1. ASSUME NEW w \in Workers, Process(w)
          PROVE  (B!Next \/ UNCHANGED bridge) /\ UNCHANGED operator
      <3>1. CASE Create(w)
        BY <3>1 DEF Create, B!Next
      <3>2. CASE ReadReply(w)
        BY <3>2 DEF ReadReply, B!Next
      <3>3. CASE ~Create(w) /\ ~ReadReply(w)
        BY <2>1, <3>3 DEF Process, Load, Claim, Publish, Record, Discard, NotSent,
                          Timeout, RecoverAfter, RecoverOnly, MarkUnknown, Accept,
                          MarkFailed, Cleanup, EraseAtEnd
      <3> QED  BY <3>1, <3>2, <3>3
    <2>2. ASSUME NEW w \in Workers, BridgeServes(w) \/ BridgeCloses(w)
          PROVE  B!Next /\ UNCHANGED operator
      BY <2>2 DEF BridgeServes, BridgeCloses, B!Next
    <2>3. ASSUME NEW w \in Workers,
                 Deliver(w) \/ WriteFails(w) \/ JobFails(w) \/ Crash(w) \/ Stall(w)
          PROVE  UNCHANGED bridge /\ UNCHANGED operator
      BY <2>3 DEF Deliver, WriteFails, JobFails, Crash, Stall
    <2>4. CASE BridgeRestarts
      BY <1>2, <2>4 DEF BridgeRestarts, B!Next, NoScript
    <2>5. CASE LoseJob \/ Evict \/ TimerFinds \/ TimerErases \/ Repost \/ UserCancel \/ UNCHANGED vars
      BY <1>2, <2>5 DEF LoseJob, Evict, TimerFinds, TimerErases, Repost, UserCancel, vars, NoScript
    <2>6. CASE TellBridge
      <3>1. Reconciles /\ operator.step # "idle"
        BY <1>2, <2>6 DEF TellBridge, NoScript
      <3> QED  BY <1>2, <2>6, <3>1, ScriptSends DEF B!Next, NoScript
    <2>7. CASE Reconcile /\ ~TellBridge
      <3>1. UNCHANGED bridge
        BY <2>7 DEF Reconcile, OperatorStarts, BindTask, FailTask, OperatorErases, OperatorStops
      <3>2. Reconciles
        BY <1>2, <2>7 DEF NoScript, Reconcile, OperatorStarts, BindTask, FailTask,
                          OperatorErases, OperatorStops
      <3> QED  BY <3>1, <3>2 DEF NoScript
    <2>8. CASE \E w \in Workers : \/ Deliver(w) \/ Process(w)
                                  \/ BridgeServes(w) \/ BridgeCloses(w)
                                  \/ WriteFails(w) \/ JobFails(w) \/ Crash(w) \/ Stall(w)
      BY <1>2, <2>1, <2>2, <2>3, <2>8 DEF NoScript
    <2> QED  BY <1>2, <2>4, <2>5, <2>6, <2>7, <2>8 DEF Next, Reconcile
  <1> QED  BY <1>1, <1>2, SubmissionInvariant, PTL DEF Spec, B!Spec
-----------------------------------------------------------------------------
(* What follows for the task. *)

\* A task whose row is final stays as it is, and the identifier it is bound to is
\* never taken away nor exchanged: not by a slot BullMQ took for dead, nor by an
\* operator who began before.
BoundAndEndedForGood ==
  [][/\ row.providerTaskId # NoId => row'.providerTaskId = row.providerTaskId
     /\ row.status \in FinalStatus =>
          UNCHANGED <<row.status, row.providerTaskId, row.cleanupReady>>]_vars

THEOREM TasksKeepTheirEnds == Spec => BoundAndEndedForGood
  <1> DEFINE Kept == /\ row.providerTaskId # NoId => row'.providerTaskId = row.providerTaskId
                     /\ row.status \in FinalStatus =>
                          UNCHANGED <<row.status, row.providerTaskId, row.cleanupReady>>
  <1>1. [Lifecycle!Next]_(Lifecycle!vars) => Kept
    BY DEF Lifecycle!Next, Lifecycle!Start, Lifecycle!Accept, Lifecycle!OutcomeUnknown,
           Lifecycle!NotCreated, Lifecycle!Finish, Lifecycle!LoseTrack, Lifecycle!Cancel,
           Lifecycle!vars, FinalStatus
  <1>2. [Lifecycle!Next]_(Lifecycle!vars) => [Kept]_vars
    BY <1>1
  <1> QED  BY <1>2, FollowsLifecycle, PTL
           DEF LifecycleSpec, Lifecycle!Spec, BoundAndEndedForGood

\* The Provider task a row names is the only one there is for it, and the one the
\* bridge answers with, should it still know.
BoundToTheOnlyTask ==
  row.providerTaskId # NoId =>
    /\ remote = {row.providerTaskId}
    /\ B!Recover(registry) \in {NoId, row.providerTaskId}

THEOREM TasksAreBoundToTheOnlyOne == Spec => []BoundToTheOnlyTask
  <1>1. SubmissionInv => BoundToTheOnlyTask
    <2> SUFFICES ASSUME SubmissionInv, row.providerTaskId # NoId
                 PROVE  /\ remote = {row.providerTaskId}
                        /\ B!Recover(registry) \in {NoId, row.providerTaskId}
      BY DEF BoundToTheOnlyTask
    <2>1. row.providerTaskId \in remote
      BY DEF SubmissionInv, IdsAreReal
    <2> QED  BY <2>1 DEF SubmissionInv, B!BridgeInv, B!OneTask, B!RegistryKnows, B!Recover
  <1> QED  BY <1>1, SubmissionInvariant, PTL

\* The answer updated = false, which the script does not look at, never comes when
\* it would matter, if the operator confirms only after the request is over.
THEOREM ConfirmationsAreHeeded ==
  ASSUME OperatorWaits
  PROVE  Spec => ConfirmationIsHeeded
  <1> DEFINE Heeded == row.status \in ReconcilableStatus /\ row'.status = "FAILED"
                         => registry.status # "ACCEPTED"
  <1>1. ASSUME SubmissionInv, SubmissionInv', [Next]_vars PROVE Heeded
    <2> SUFFICES ASSUME row.status \in ReconcilableStatus, row'.status = "FAILED"
                 PROVE  registry.status # "ACCEPTED"
      OBVIOUS
    <2>1. remote' = {}
      BY <1>1, OperatorWaits DEF SubmissionInv, VerdictsAreTrue, NothingComes
    <2>2. UNCHANGED <<registry, remote>>
      BY <1>1, RowWriters DEF bridge, ReconcilableStatus
    <2> QED  BY <1>1, <2>1, <2>2 DEF SubmissionInv, B!BridgeInv, B!RegistryKnows
  <1>2. SubmissionInv /\ SubmissionInv' /\ [Next]_vars => [Heeded]_vars
    BY <1>1
  <1> QED  BY <1>2, SubmissionInvariant, PTL DEF Spec, ConfirmationIsHeeded
-----------------------------------------------------------------------------
(* Where polling begins. *)

\* The row before the Provider's task is named: no column but the status is written.
Unbound(status) == [QueuedRow EXCEPT !.status = status]
\* The row acceptSubmission leaves, from which Polling starts.
FirstPolled(id) == AcceptSubmission(ClaimSubmission(QueuedRow), id, 1, 2)

\* bind writes fewer columns than acceptSubmission: the lease and downloadPending
\* are not cleared.  The row is the same, since nothing was written in them.  (When
\* the first poll is due does not matter here: Submission has one time for both.)
RowsAreFresh ==
  /\ row.status \in {"QUEUED", "SUBMITTING", "RECONCILIATION_REQUIRED"} =>
       row = Unbound(row.status)
  /\ row.status = "PROCESSING" => row = FirstPolled(row.providerTaskId)

\* The columns neither a claim nor an accept has a value for.
Blank(r) ==
  /\ r.pollLeaseUntil = Never /\ r.downloadPending = FALSE
  /\ r.nextDownloadAt = Never /\ r.downloadDeadlineAt = Never
  /\ r.downloadLeaseUntil = Never /\ r.downloadVersion = 0
  /\ r.downloadAttempt = 0 /\ r.cleanupReady = FALSE

LEMMA SameRow ==
  ASSUME NEW a \in TaskRow, NEW b \in TaskRow, Blank(a), Blank(b),
         a.status = b.status, a.providerTaskId = b.providerTaskId,
         a.nextPollAt = b.nextPollAt, a.pollDeadlineAt = b.pollDeadlineAt,
         a.pollVersion = b.pollVersion
  PROVE  a = b
  BY DEF TaskRow, Blank

LEMMA QueuedRowIsARow == QueuedRow \in TaskRow
  BY DEF QueuedRow, TaskRow, TaskStatus, ProviderIdOrNull, Never

LEMMA UnboundRows ==
  ASSUME NEW status \in TaskStatus
  PROVE  LET r == Unbound(status)
         IN  /\ r \in TaskRow /\ Blank(r) /\ r.status = status /\ r.providerTaskId = NoId
             /\ r.nextPollAt = Never /\ r.pollDeadlineAt = Never /\ r.pollVersion = 0
  <1>1. Blank(QueuedRow) /\ QueuedRow.providerTaskId = NoId /\ QueuedRow.nextPollAt = Never
        /\ QueuedRow.pollDeadlineAt = Never /\ QueuedRow.pollVersion = 0
    BY DEF QueuedRow, Blank
  <1> QED  BY <1>1, QueuedRowIsARow DEF Unbound, TaskRow, Blank

LEMMA BoundRows ==
  ASSUME NEW r \in TaskRow, Blank(r), r.pollVersion = 0, NEW id \in ProviderTaskIds
  PROVE  /\ LET a == AcceptSubmission(r, id, 1, 2)
            IN  /\ a \in TaskRow /\ Blank(a) /\ a.status = "PROCESSING"
                /\ a.providerTaskId = id /\ a.nextPollAt = 1 /\ a.pollDeadlineAt = 2
                /\ a.pollVersion = 1
         /\ LET b == BindSubmission(r, id, r.pollVersion + 1, 1, 2)
            IN  /\ b \in TaskRow /\ Blank(b) /\ b.status = "PROCESSING"
                /\ b.providerTaskId = id /\ b.nextPollAt = 1 /\ b.pollDeadlineAt = 2
                /\ b.pollVersion = 1
  <1>1. /\ AcceptSubmission(r, id, 1, 2) \in TaskRow
        /\ BindSubmission(r, id, r.pollVersion + 1, 1, 2) \in TaskRow
    <2>1. r.pollVersion + 1 \in Nat
      OBVIOUS
    <2> QED  BY <2>1, AcceptFields, BindFields
  <1> QED  BY <1>1 DEF AcceptSubmission, BindSubmission, TaskRow, Blank, Never

LEMMA FirstPolledRows ==
  ASSUME NEW status \in TaskStatus, NEW id \in ProviderTaskIds
  PROVE  /\ AcceptSubmission(Unbound(status), id, 1, 2) = FirstPolled(id)
         /\ BindSubmission(Unbound(status), id, Unbound(status).pollVersion + 1, 1, 2)
              = FirstPolled(id)
  <1>1. ClaimSubmission(QueuedRow) = Unbound("SUBMITTING") /\ "SUBMITTING" \in TaskStatus
    BY DEF ClaimSubmission, Unbound, TaskStatus
  <1>2. /\ FirstPolled(id) \in TaskRow /\ Blank(FirstPolled(id))
        /\ FirstPolled(id).status = "PROCESSING" /\ FirstPolled(id).providerTaskId = id
        /\ FirstPolled(id).nextPollAt = 1 /\ FirstPolled(id).pollDeadlineAt = 2
        /\ FirstPolled(id).pollVersion = 1
    BY <1>1, UnboundRows, BoundRows DEF FirstPolled
  <1>3. Unbound(status) \in TaskRow /\ Blank(Unbound(status)) /\ Unbound(status).pollVersion = 0
    BY UnboundRows
  <1>4. AcceptSubmission(Unbound(status), id, 1, 2) = FirstPolled(id)
    BY <1>2, <1>3, BoundRows, SameRow
  <1>5. BindSubmission(Unbound(status), id, Unbound(status).pollVersion + 1, 1, 2)
          = FirstPolled(id)
    BY <1>2, <1>3, BoundRows, SameRow
  <1> QED  BY <1>4, <1>5

\* Whether a worker or the operator binds the task, polling begins with the row
\* acceptSubmission writes: bind leaves alone only what is still blank.
THEOREM PollingBeginsFresh == Spec => []RowsAreFresh
  <1>1. Init => RowsAreFresh
    <2> SUFFICES ASSUME Init PROVE RowsAreFresh
      OBVIOUS
    <2>1. row = QueuedRow /\ row \in TaskRow /\ row.status = "QUEUED"
      BY QueuedRowIsARow DEF Init, QueuedRow
    <2>2. row = Unbound(row.status)
      BY <2>1 DEF Unbound, TaskRow
    <2> QED  BY <2>1, <2>2 DEF RowsAreFresh
  <1>2. ASSUME SubmissionInv, RowsAreFresh, [Next]_vars
        PROVE  RowsAreFresh'
    <2>0. /\ row \in TaskRow /\ row.status \in TaskStatus /\ remote \subseteq ProviderTaskIds
      BY <1>2 DEF SubmissionInv, TypeOK, B!BridgeInv, B!TypeOK, TaskRow
    <2>1. CASE row' = row
      BY <1>2, <2>1 DEF RowsAreFresh
    <2>2. ASSUME NEW w \in Workers, Claim(w), ClaimSubmissionWhere(row) PROVE RowsAreFresh'
      <3>1. row = QueuedRow /\ row' = ClaimSubmission(row)
        BY <1>2, <2>2 DEF Claim, ClaimSubmissionWhere, SubmissionInv, QueuedIsUntouched
      <3>2. row' = Unbound("SUBMITTING") /\ "SUBMITTING" \in TaskStatus
        BY <3>1 DEF ClaimSubmission, Unbound, TaskStatus
      <3> QED  BY <3>2, UnboundRows DEF RowsAreFresh
    <2>3. ASSUME NEW w \in Workers, MarkUnknown(w), SubmittingWhere(row) PROVE RowsAreFresh'
      <3>1. row = Unbound("SUBMITTING") /\ "SUBMITTING" \in TaskStatus
            /\ "RECONCILIATION_REQUIRED" \in TaskStatus
        BY <1>2, <2>3 DEF RowsAreFresh, SubmittingWhere, TaskStatus
      <3>2. /\ row' \in TaskRow /\ Blank(row') /\ row'.status = "RECONCILIATION_REQUIRED"
            /\ row'.providerTaskId = NoId /\ row'.nextPollAt = Never
            /\ row'.pollDeadlineAt = Never /\ row'.pollVersion = 0
        <4>1. row' = MarkSubmissionOutcomeUnknown(row)
          BY <2>3 DEF MarkUnknown
        <4>2. Blank(row) /\ row.providerTaskId = NoId /\ row.nextPollAt = Never
              /\ row.pollDeadlineAt = Never /\ row.pollVersion = 0
          BY <3>1, UnboundRows
        <4> QED  BY <2>0, <3>1, <4>1, <4>2 DEF MarkSubmissionOutcomeUnknown, TaskRow, Blank
      <3>3. row' = Unbound("RECONCILIATION_REQUIRED")
        BY <3>1, <3>2, UnboundRows, SameRow
      <3> QED  BY <3>2, <3>3 DEF RowsAreFresh
    <2>4. ASSUME NEW w \in Workers, Accept(w), SubmittingWhere(row) PROVE RowsAreFresh'
      <3>1. slot[w].id \in ProviderTaskIds
        BY <1>2, <2>0, <2>4 DEF Accept, SubmissionInv, IdsAreReal
      <3>2. row = Unbound(row.status) /\ row' = AcceptSubmission(row, slot[w].id, 1, 2)
        BY <1>2, <2>4 DEF Accept, RowsAreFresh, SubmittingWhere
      <3>3. row' = FirstPolled(slot[w].id)
        BY <2>0, <3>1, <3>2, FirstPolledRows
      <3>4. row'.status = "PROCESSING" /\ row'.providerTaskId = slot[w].id
        BY <2>0, <3>1, <3>2, AcceptFields
      <3> QED  BY <3>3, <3>4 DEF RowsAreFresh
    <2>5. ASSUME BindTask, ReconcileWhere(row) PROVE RowsAreFresh'
      <3>1. operator.id \in ProviderTaskIds /\ row.pollVersion + 1 \in Nat
        BY <1>2, <2>0, <2>5 DEF BindTask, SubmissionInv, IdsAreReal, TaskRow
      <3>2. row = Unbound(row.status)
            /\ row' = BindSubmission(row, operator.id, row.pollVersion + 1, 1, 2)
        BY <1>2, <2>5 DEF BindTask, RowsAreFresh, ReconcileWhere, ReconcilableStatus
      <3>3. row' = FirstPolled(operator.id)
        BY <2>0, <3>1, <3>2, FirstPolledRows
      <3>4. row'.status = "PROCESSING" /\ row'.providerTaskId = operator.id
        BY <2>0, <3>1, <3>2, BindFields
      <3> QED  BY <3>3, <3>4 DEF RowsAreFresh
    <2>6. CASE \E w \in Workers : MarkFailed(w) /\ SubmittingWhere(row)
      <3>1. row' = MarkSubmissionFailed(row)
        BY <2>6 DEF MarkFailed
      <3>2. row'.status = "FAILED"
        BY <2>0, <3>1 DEF MarkSubmissionFailed, TaskRow
      <3> QED  BY <3>2 DEF RowsAreFresh
    <2>7. CASE FailTask /\ ReconcileWhere(row)
      <3>1. row' = ConfirmNotCreated(row)
        BY <2>7 DEF FailTask
      <3>2. row'.status = "FAILED"
        BY <2>0, <3>1 DEF ConfirmNotCreated, TaskRow
      <3> QED  BY <3>2 DEF RowsAreFresh
    <2>8. CASE UserCancel
      <3>1. row'.status = "CANCELLED"
        BY <2>0, <2>8 DEF UserCancel, CancelTask, TaskRow
      <3> QED  BY <3>1 DEF RowsAreFresh
    <2> QED  BY <1>2, <2>1, <2>2, <2>3, <2>4, <2>5, <2>6, <2>7, <2>8, RowWriters
  <1> QED  BY <1>1, <1>2, SubmissionInvariant, PTL DEF Spec
=============================================================================
