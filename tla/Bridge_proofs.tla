---------------------------- MODULE Bridge_proofs ----------------------------
(***************************************************************************)
(* Proofs about Bridge, for every number of threads and identifiers, with  *)
(* and without an operator.  BridgeInv is inductive; that the Provider is  *)
(* called once is one of its conjuncts, and needs the others: the registry *)
(* row, not the thread, remembers that somebody has been there.            *)
(*                                                                         *)
(* The verdict on a create comes first, from the SDK's exception to the    *)
(* worker's decision, for every set of statuses the Provider may answer    *)
(* with.  The distinction is drawn twice, by the bridge and by its client, *)
(* and the two must draw it at the same place.                             *)
(***************************************************************************)
EXTENDS Bridge, TLAPS

C == INSTANCE BridgeClient

\* create_task calls a create not sent or rejected only if the Provider cannot
\* have made a task of it.
LEMMA RejectionIsCertain ==
  ASSUME NEW o \in SdkOutcome, CreateCode(o) \in NotCreatedCodes
  PROVE  ~MayCreate(o)
  <1>1. CASE o.stage = "CONNECT"
    BY <1>1 DEF MayCreate
  <1>2. CASE o.stage # "CONNECT"
    <2>1. BodySent(o) # "no"
      BY <1>2 DEF BodySent
    <2>2. o.http \in 1..499 \ {200}
      BY <2>1 DEF CreateCode, NotCreatedCodes
    <2> QED  BY <2>2 DEF MayCreate, TurnedDown
  <1> QED  BY <1>1, <1>2

\* The worker takes the error it derives from the bridge's reply for a proof that
\* nothing was created exactly when the bridge has registered the create as not
\* created.
THEOREM VerdictsAgree ==
  ASSUME NEW o \in SdkOutcome, CreateCode(o) # "created"
  PROVE  C!ConfirmedNotCreated(C!ErrorOf("CREATE", FailureReply(o)))
           <=> CreateCode(o) \in NotCreatedCodes
  <1> DEFINE r == FailureReply(o)
  <1>1. /\ r.operation = "CREATE" /\ r.status = 502
        /\ r.code = CreateCode(o) /\ r.http = o.http
    BY DEF FailureReply, ErrorReply
  <1>2. CreateCode(o) \in NotCreatedCodes \cup UnknownCodes
    BY DEF CreateCode, NotCreatedCodes, UnknownCodes
  <1>3. CreateCode(o) # "OPERATION_UNSUPPORTED"
    BY <1>2 DEF NotCreatedCodes, UnknownCodes
  <1> HIDE DEF r
  <1>4. C!ErrorOf("CREATE", r) = C!CreateError(r)
    BY <1>1, <1>3 DEF C!ErrorOf
  <1>5. CASE CreateCode(o) = "PROVIDER_CREATE_NOT_SENT"
    BY <1>1, <1>4, <1>5 DEF C!CreateError, C!ConfirmedNotCreated, NotCreatedCodes, r
  <1>6. CASE CreateCode(o) = "PROVIDER_CREATE_HTTP_ERROR"
    <2>1. o.http \in 1..499
      BY <1>6 DEF CreateCode
    <2> QED  BY <1>1, <1>4, <1>6, <2>1
             DEF C!CreateError, C!ConfirmedNotCreated, NotCreatedCodes, r
  <1>7. CASE CreateCode(o) \in UnknownCodes
    BY <1>1, <1>4, <1>7
    DEF C!CreateError, C!ConfirmedNotCreated, NotCreatedCodes, UnknownCodes, r
  <1> QED  BY <1>2, <1>5, <1>6, <1>7 DEF NotCreatedCodes

\* The worker writes a create off only if the Provider cannot have made a task.
THEOREM WriteOffIsCertain ==
  ASSUME NEW o \in SdkOutcome, CreateCode(o) # "created",
         C!ConfirmedNotCreated(C!ErrorOf("CREATE", FailureReply(o)))
  PROVE  ~MayCreate(o)
  BY VerdictsAgree, RejectionIsCertain

-----------------------------------------------------------------------------
(* Records and rows. *)

\* A handler record with a new step.
LEMMA GotoFields ==
  ASSUME NEW h \in Handlers, NEW step \in HandlerSteps,
         handler \in [Handlers -> Handler], Goto(h, step)
  PROVE  /\ handler' \in [Handlers -> Handler]
         /\ handler'[h].step = step
         /\ handler'[h].id = handler[h].id
         /\ handler'[h].reply = handler[h].reply
         /\ \A g \in Handlers \ {h} : handler'[g] = handler[g]
  BY DEF Goto, Handler

\* A handler record with a reply.
LEMMA ReplyFields ==
  ASSUME NEW h \in Handlers, NEW reply \in Replies,
         NEW id \in ProviderTaskIds \cup {NoId},
         handler \in [Handlers -> Handler], Reply(h, reply, id)
  PROVE  /\ handler' \in [Handlers -> Handler]
         /\ handler'[h].step = "replied"
         /\ handler'[h].id = id
         /\ handler'[h].reply = reply
         /\ \A g \in Handlers \ {h} : handler'[g] = handler[g]
  BY DEF Reply, Handler, HandlerSteps

\* A thread that is free has said nothing.
LEMMA IdleFields ==
  /\ IdleHandler \in Handler
  /\ IdleHandler.step = "idle" /\ IdleHandler.reply = "none"
  BY DEF IdleHandler, Handler, HandlerSteps, Replies

\* What the UPDATE statements leave in the row.
LEMMA RowFields ==
  ASSUME NEW row \in RegistryRow, NEW id \in ProviderTaskIds
  PROVE  /\ AcceptRow(row, id) \in RegistryRow
         /\ MarkUnknownRow(row) \in RegistryRow
         /\ SetNotCreatedRow(row) \in RegistryRow
         /\ ConfirmNotCreatedRow \in RegistryRow /\ Started \in RegistryRow
         /\ row.status # "NONE" =>
              /\ AcceptRow(row, id).status = "ACCEPTED"
              /\ AcceptRow(row, id).providerTaskId = id
              /\ MarkUnknownRow(row).status = "OUTCOME_UNKNOWN"
              /\ SetNotCreatedRow(row).status = "NOT_CREATED"
         /\ row.status = "NONE" =>
              /\ AcceptRow(row, id) = row
              /\ MarkUnknownRow(row) = row
              /\ SetNotCreatedRow(row) = row
         /\ ConfirmNotCreatedRow.status = "NOT_CREATED"
         /\ Started.status = "STARTED"
  BY DEF AcceptRow, MarkUnknownRow, SetNotCreatedRow, ConfirmNotCreatedRow,
         Started, RegistryRow, RegistryStatus

-----------------------------------------------------------------------------
LEMMA InitHolds == Init => BridgeInv
  <1> SUFFICES ASSUME Init PROVE BridgeInv
    OBVIOUS
  <1>1. /\ handler \in [Handlers -> Handler] /\ calls = 0 /\ remote = {}
        /\ \A h \in Handlers : handler[h].step = "idle" /\ handler[h].reply = "none"
    BY IdleFields DEF Init
  <1>2. registry \in RegistryRow /\ registry.status = "NONE"
    BY DEF Init, NoRow, RegistryRow, RegistryStatus
  <1> QED  BY <1>1, <1>2 DEF BridgeInv, TypeOK, ProviderCalledOnce, BeganOnce,
                             ThreadsKnow, RepliesAreTrue, RegistryKnows,
                             OneTask

LEMMA StepKeeps == BridgeInv /\ [Next]_vars => BridgeInv'
  <1> SUFFICES ASSUME BridgeInv, [Next]_vars PROVE BridgeInv'
    OBVIOUS
  <1> USE DEF BridgeInv, ProviderCalledOnce, BeganOnce, ThreadsKnow,
              RepliesAreTrue, RegistryKnows, OneTask
  <1>0. /\ handler \in [Handlers -> Handler] /\ registry \in RegistryRow
        /\ remote \subseteq ProviderTaskIds /\ calls \in Nat
        /\ NoId \in ProviderTaskIds \cup {NoId}
        /\ \A h \in Handlers : handler[h].id \in ProviderTaskIds \cup {NoId}
    BY DEF TypeOK, Handler
  <1>1. ASSUME NEW h \in Handlers, Receive(h) PROVE BridgeInv'
    <2>1. Goto(h, "received") /\ handler[h].step = "idle" /\ UNCHANGED <<registry, remote, calls>>
      BY <1>1 DEF Receive
    <2> QED  BY <1>0, <2>1, GotoFields DEF TypeOK, HandlerSteps
  <1>2. ASSUME NEW h \in Handlers, Begin(h) PROVE BridgeInv'
    <2>0. handler[h].step = "received" /\ UNCHANGED <<remote, calls>>
      BY <1>2 DEF Begin
    <2>1. CASE Begins(registry)
      <3>1. registry' = Started /\ Goto(h, "begun") /\ registry.status = "NONE"
        BY <1>2, <2>1 DEF Begin, Begins
      <3>2. registry' \in RegistryRow /\ registry'.status = "STARTED"
        BY <3>1 DEF Started, RegistryRow, RegistryStatus
      <3>3. /\ handler' \in [Handlers -> Handler] /\ handler'[h].step = "begun"
            /\ handler'[h].reply = handler[h].reply /\ handler'[h].id = handler[h].id
            /\ \A g \in Handlers \ {h} : handler'[g] = handler[g]
        BY <1>0, <3>1, GotoFields DEF HandlerSteps
      <3> QED  BY <1>0, <2>0, <3>1, <3>2, <3>3 DEF TypeOK
    <2>2. CASE ~Begins(registry)
      <3>1. UNCHANGED registry /\ registry.status # "NONE"
        BY <1>2, <2>2 DEF Begin, Begins
      <3>2. CASE registry.status = "ACCEPTED" /\ registry.providerTaskId # NoId
        <4>1. Reply(h, "id", registry.providerTaskId)
          BY <1>2, <2>2, <3>2 DEF Begin
        <4>2. registry.providerTaskId \in ProviderTaskIds \cup {NoId}
          BY <1>0 DEF RegistryRow
        <4> QED  BY <1>0, <2>0, <3>1, <3>2, <4>1, <4>2, ReplyFields DEF TypeOK, Replies
      <3>3. CASE ~(registry.status = "ACCEPTED" /\ registry.providerTaskId # NoId)
        <4>1. Reply(h, "conflict", NoId)
          BY <1>2, <2>2, <3>3 DEF Begin
        <4> QED  BY <1>0, <2>0, <3>1, <4>1, ReplyFields DEF TypeOK, Replies
      <3> QED  BY <3>2, <3>3
    <2> QED  BY <2>1, <2>2
  <1>3. ASSUME NEW h \in Handlers, handler[h].step = "begun",
               calls' = calls + 1, UNCHANGED registry,
               remote \subseteq remote', remote' \subseteq ProviderTaskIds,
               \A a, b \in remote' : a = b,
               handler' \in [Handlers -> Handler],
               \/ handler'[h].step = "unknown"
               \/ handler'[h].step = "accept" /\ handler'[h].id \in remote'
               \/ handler'[h].step = "notCreated" /\ remote' = remote,
               handler'[h].reply = handler[h].reply,
               handler[h].reply = "id" => handler'[h].id = handler[h].id,
               \A g \in Handlers \ {h} : handler'[g] = handler[g]
        PROVE  BridgeInv'
    <2>1. calls = 0 /\ remote = {} /\ calls' = 1 /\ registry.status # "NONE"
      BY <1>3
    <2>2. \A g \in Handlers : /\ handler[g].reply # "notCreated"
                              /\ handler[g].step \notin {"notCreated", "setNotCreated"}
      BY <2>1
    <2>3. \A g \in Handlers : handler'[g].step # "begun"
      BY <1>3
    <2> QED  BY <1>0, <1>3, <2>1, <2>2, <2>3 DEF TypeOK
  <1>4. ASSUME NEW h \in Handlers, Created(h) PROVE BridgeInv'
    <2>1. PICK id \in ProviderTaskIds \ remote :
            /\ remote' = remote \cup {id}
            /\ handler' = [handler EXCEPT ![h].step = "accept", ![h].id = id]
      BY <1>4 DEF Created
    <2>2. /\ handler' \in [Handlers -> Handler]
          /\ handler'[h].step = "accept" /\ handler'[h].id = id
          /\ handler'[h].reply = handler[h].reply
          /\ \A g \in Handlers \ {h} : handler'[g] = handler[g]
      BY <1>0, <2>1 DEF Handler, HandlerSteps
    <2>3. handler[h].step = "begun" /\ calls' = calls + 1 /\ UNCHANGED registry
      BY <1>4 DEF Created
    <2>4. handler[h].reply # "id" /\ remote = {}
      BY <2>3
    <2> QED  BY <1>0, <1>3, <2>1, <2>2, <2>3, <2>4
  <1>5. ASSUME NEW h \in Handlers, OutcomeUnknown(h) PROVE BridgeInv'
    <2>1. /\ handler[h].step = "begun" /\ calls' = calls + 1 /\ UNCHANGED registry
          /\ Goto(h, "unknown")
      BY <1>5 DEF OutcomeUnknown
    <2>2. PICK o \in SdkOutcome : remote' \in After(o)
      BY <1>5 DEF OutcomeUnknown
    <2>3. remote' = remote \/ \E id \in ProviderTaskIds : remote' = remote \cup {id}
      BY <2>2 DEF After
    <2>4. remote = {}
      BY <2>1
    <2> QED  BY <1>0, <1>3, <2>1, <2>3, <2>4, GotoFields DEF HandlerSteps
  <1>6. ASSUME NEW h \in Handlers, NotCreated(h) PROVE BridgeInv'
    <2>1. /\ handler[h].step = "begun" /\ calls' = calls + 1
          /\ UNCHANGED registry /\ Goto(h, "notCreated")
      BY <1>6 DEF NotCreated
    <2>2. PICK o \in SdkOutcome :
            CreateCode(o) \in NotCreatedCodes /\ remote' \in After(o)
      BY <1>6 DEF NotCreated
    <2>3. remote' = remote
      BY <2>2, RejectionIsCertain DEF After
    <2> QED  BY <1>0, <1>3, <2>1, <2>3, GotoFields DEF HandlerSteps
  <1>7. ASSUME NEW h \in Handlers, Accept(h) PROVE BridgeInv'
    <2>1. /\ handler[h].step = "accept" /\ Goto(h, "answer")
          /\ registry' = AcceptRow(registry, handler[h].id)
          /\ handler[h].id \in remote /\ registry.status # "NONE"
          /\ UNCHANGED <<remote, calls>>
      BY <1>7 DEF Accept
    <2>2. /\ registry' \in RegistryRow /\ registry'.status = "ACCEPTED"
          /\ registry'.providerTaskId = handler[h].id
      BY <1>0, <2>1, RowFields
    <2> QED  BY <1>0, <2>1, <2>2, GotoFields DEF TypeOK, HandlerSteps
  <1>7a. ASSUME NEW h \in Handlers, Answer(h) PROVE BridgeInv'
    <2>1. /\ handler[h].step = "answer" /\ Reply(h, "id", handler[h].id)
          /\ handler[h].id \in remote /\ UNCHANGED <<registry, remote, calls>>
      BY <1>7a DEF Answer
    <2> QED  BY <1>0, <2>1, ReplyFields DEF TypeOK, Replies
  <1>8. ASSUME NEW h \in Handlers, AcceptFails(h) PROVE BridgeInv'
    <2>1. /\ handler[h].step \in {"accept", "answer"} /\ Goto(h, "unknown")
          /\ UNCHANGED <<registry, remote, calls>>
      BY <1>8 DEF AcceptFails
    <2> QED  BY <1>0, <2>1, GotoFields DEF TypeOK, HandlerSteps
  <1>9. ASSUME NEW h \in Handlers, MarkUnknown(h) PROVE BridgeInv'
    <2>1. /\ handler[h].step = "unknown" /\ Reply(h, "unknown", NoId)
          /\ registry' = MarkUnknownRow(registry) /\ registry.status # "NONE"
          /\ UNCHANGED <<remote, calls>>
      BY <1>9 DEF MarkUnknown
    <2>2. registry' \in RegistryRow /\ registry'.status = "OUTCOME_UNKNOWN"
      BY <2>1 DEF MarkUnknownRow, RegistryRow, RegistryStatus
    <2> QED  BY <1>0, <2>1, <2>2, ReplyFields DEF TypeOK, Replies
  <1>10. ASSUME NEW h \in Handlers, MarkNotCreated(h) PROVE BridgeInv'
    <2>1. /\ handler[h].step = "notCreated" /\ Goto(h, "setNotCreated")
          /\ registry' = MarkUnknownRow(registry) /\ registry.status # "NONE"
          /\ UNCHANGED <<remote, calls>>
      BY <1>10 DEF MarkNotCreated
    <2>2. registry' \in RegistryRow /\ registry'.status = "OUTCOME_UNKNOWN"
      BY <2>1 DEF MarkUnknownRow, RegistryRow, RegistryStatus
    <2> QED  BY <1>0, <2>1, <2>2, GotoFields DEF TypeOK, HandlerSteps
  <1>11. ASSUME NEW h \in Handlers, SetNotCreated(h) PROVE BridgeInv'
    <2>1. /\ handler[h].step = "setNotCreated" /\ Reply(h, "notCreated", NoId)
          /\ registry' = SetNotCreatedRow(registry) /\ registry.status # "NONE"
          /\ UNCHANGED <<remote, calls>>
      BY <1>11 DEF SetNotCreated
    <2>2. registry' \in RegistryRow /\ registry'.status = "NOT_CREATED"
      BY <1>0, <2>1 DEF SetNotCreatedRow, RegistryRow, RegistryStatus
    <2> QED  BY <1>0, <2>1, <2>2, ReplyFields DEF TypeOK, Replies
  <1>12. ASSUME NEW h \in Handlers, Close(h) PROVE BridgeInv'
    <2>1. /\ handler' = [handler EXCEPT ![h] = IdleHandler]
          /\ UNCHANGED <<registry, remote, calls>>
      BY <1>12 DEF Close
    <2>2. /\ handler' \in [Handlers -> Handler]
          /\ handler'[h].step = "idle" /\ handler'[h].reply = "none"
          /\ \A g \in Handlers \ {h} : handler'[g] = handler[g]
      BY <1>0, <2>1, IdleFields
    <2> QED  BY <1>0, <2>1, <2>2 DEF TypeOK
  <1>13. CASE Restart
    <2>1. /\ handler' \in [Handlers -> Handler]
          /\ \A g \in Handlers : handler'[g].step = "idle" /\ handler'[g].reply = "none"
      BY <1>13, IdleFields DEF Restart
    <2>2. UNCHANGED <<registry, remote, calls>>
      BY <1>13 DEF Restart
    <2> QED  BY <1>0, <2>1, <2>2 DEF TypeOK
  <1>14. ASSUME NEW id \in remote, ReconcileAccepted(id) PROVE BridgeInv'
    <2>1. registry' = AcceptRow(registry, id) /\ UNCHANGED <<handler, remote, calls>>
      BY <1>14 DEF ReconcileAccepted
    <2>2. registry.status # "NONE"
      OBVIOUS
    <2>3. /\ registry' \in RegistryRow /\ registry'.status = "ACCEPTED"
          /\ registry'.providerTaskId = id
      BY <1>0, <2>1, <2>2, RowFields
    <2> QED  BY <1>0, <2>1, <2>2, <2>3 DEF TypeOK
  <1>15. CASE ReconcileNotCreated
    <2>1. UNCHANGED <<handler, remote, calls>>
      BY <1>15 DEF ReconcileNotCreated
    <2>2. CASE ConfirmNotCreatedWhere(registry)
      <3>1. registry' \in RegistryRow /\ registry'.status = "NOT_CREATED"
        BY <1>15, <2>2 DEF ReconcileNotCreated, ConfirmNotCreatedRow,
                           RegistryRow, RegistryStatus
      <3>2. registry.status # "NONE"
        BY <2>2 DEF ConfirmNotCreatedWhere
      <3> QED  BY <1>0, <2>1, <3>1, <3>2 DEF TypeOK
    <2>3. CASE ~ConfirmNotCreatedWhere(registry)
      <3>1. UNCHANGED registry
        BY <1>15, <2>3 DEF ReconcileNotCreated
      <3> QED  BY <1>0, <2>1, <3>1 DEF TypeOK
    <2> QED  BY <2>2, <2>3
  <1>16. CASE UNCHANGED vars
    BY <1>0, <1>16 DEF vars, TypeOK
  <1> QED  BY <1>1, <1>2, <1>4, <1>5, <1>6, <1>7, <1>8, <1>9, <1>10, <1>11,
              <1>12, <1>13, <1>14, <1>15, <1>16, <1>7a DEF Next, Serve, Operator

\* The registry row, the threads and the Provider stay in the relation
\* BridgeInv describes, whatever is repeated, lost or reconciled.
THEOREM BridgeInvariant == Spec => []BridgeInv
  BY InitHolds, StepKeeps, PTL DEF Spec

\* registry.begin lets one create per clientRequestId through to the Provider,
\* over all threads, repeats, restarts and reconciliations.
THEOREM TheProviderIsCalledOnce == Spec => []ProviderCalledOnce
  <1>1. BridgeInv => ProviderCalledOnce
    BY DEF BridgeInv
  <1> QED  BY <1>1, BridgeInvariant, PTL

\* A reply with an identifier, and a reply that nothing was created, are true
\* when they are given and stay true.
THEOREM TheRepliesAreTrue == Spec => []RepliesAreTrue
  <1>1. BridgeInv => RepliesAreTrue
    BY DEF BridgeInv
  <1> QED  BY <1>1, BridgeInvariant, PTL

\* All answers that carry an identifier carry the same one, since the Provider
\* has at most one task for the clientRequestId.
THEOREM TheAnswersAgree == Spec => []AnswersAgree
  <1>1. BridgeInv => AnswersAgree
    BY DEF BridgeInv, RepliesAreTrue, RegistryKnows, OneTask, AnswersAgree, Recover
  <1> QED  BY <1>1, BridgeInvariant, PTL

\* An accepted mapping is only ever lost, to the write of a thread whose accept or
\* reply failed after the Provider had made the task, and never moves to another
\* task: MappingKept has no other exception.
MappingOnlyForgotten ==
  [][registry.status = "ACCEPTED" /\ registry' # registry =>
       /\ registry' = [status |-> "OUTCOME_UNKNOWN", providerTaskId |-> NoId]
       /\ \E h \in Handlers : handler[h].step = "unknown"]_vars

THEOREM MappingsAreOnlyForgotten == Spec => MappingOnlyForgotten
  <1> DEFINE Forgotten == registry.status = "ACCEPTED" /\ registry' # registry =>
               /\ registry' = [status |-> "OUTCOME_UNKNOWN", providerTaskId |-> NoId]
               /\ \E h \in Handlers : handler[h].step = "unknown"
  <1>1. ASSUME BridgeInv, Next, registry.status = "ACCEPTED", registry' # registry
        PROVE  \E h \in Handlers : MarkUnknown(h)
    <2>0. registry \in RegistryRow /\ registry.providerTaskId \in remote
      BY <1>1 DEF BridgeInv, TypeOK, RegistryKnows
    <2>1. \A id \in remote : AcceptRow(registry, id) = registry
      BY <1>1, <2>0 DEF BridgeInv, OneTask, AcceptRow, RegistryRow
    <2>2. \A h \in Handlers : ~Accept(h) /\ ~MarkNotCreated(h) /\ ~SetNotCreated(h)
      BY <1>1, <2>0, <2>1
         DEF BridgeInv, ThreadsKnow, Accept, MarkNotCreated, SetNotCreated
    <2>3. ~Operator
      BY <1>1, <2>1 DEF Operator, ReconcileAccepted, ReconcileNotCreated, ConfirmNotCreatedWhere
    <2> QED  BY <1>1, <2>2, <2>3
             DEF Next, Serve, Receive, Begin, Begins, Created, OutcomeUnknown, NotCreated,
                 Answer, AcceptFails, Close, Restart
  <1>2. BridgeInv /\ [Next]_vars => [Forgotten]_vars
    BY <1>1 DEF MarkUnknown, MarkUnknownRow
  <1> QED  BY <1>2, BridgeInvariant, PTL DEF Spec, MappingOnlyForgotten
=============================================================================
