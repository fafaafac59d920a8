-------------------------------- MODULE Bridge --------------------------------
(***************************************************************************)
(* The Provider bridge's side of a create: the registry row of one         *)
(* clientRequestId (registry.py), the handler threads of the HTTP server   *)
(* that serve create and reconcile requests for it (app.py), the process   *)
(* that may die, and the Provider it calls.                                *)
(*                                                                         *)
(* Rows of different clientRequestIds never meet.  Clients may send a      *)
(* create any number of times; the registry outlives the process.  What    *)
(* the Provider did and what the SDK made of it is CreateOutcome's.        *)
(***************************************************************************)
EXTENDS CreateOutcome, FiniteSets

CONSTANTS Handlers,          \* threads of the HTTP server
          ProviderTaskIds,   \* identifiers the Provider may hand out
          NoId,              \* the NULL of provider_task_id
          Reconciles         \* whether an operator uses the reconcile endpoint

ASSUME BridgeAssumption ==
  /\ NoId \notin ProviderTaskIds
  /\ Reconciles \in BOOLEAN

VARIABLES registry,   \* the row of the clientRequestId
          handler,    \* handler[h]: the create request thread h serves
          remote,     \* the Provider tasks that exist for the clientRequestId
          calls       \* how often the Provider was called

vars == <<registry, handler, remote, calls>>

RegistryStatus == {"NONE", "STARTED", "ACCEPTED", "OUTCOME_UNKNOWN", "NOT_CREATED"}
RegistryRow == [status: RegistryStatus, providerTaskId: ProviderTaskIds \cup {NoId}]
NoRow == [status |-> "NONE", providerTaskId |-> NoId]

HandlerSteps == {"idle", "received", "begun", "accept", "answer", "unknown",
                 "notCreated", "setNotCreated", "replied"}
Replies == {"none", "id", "notCreated", "unknown", "conflict"}
Handler == [step: HandlerSteps, id: ProviderTaskIds \cup {NoId}, reply: Replies]
IdleHandler == [step |-> "idle", id |-> NoId, reply |-> "none"]

-----------------------------------------------------------------------------
(* The statements of registry.py; an UPDATE without a row changes nothing. *)

\* Mutant: an unresolved submission may begin again.
BeginsAgain(row) == row.status \in {"NONE", "NOT_CREATED", "OUTCOME_UNKNOWN"}

Begins(row) == row.status = "NONE"
Started == [status |-> "STARTED", providerTaskId |-> NoId]

AcceptRow(row, id) ==
  IF row.status = "NONE" THEN row
  ELSE [status |-> "ACCEPTED", providerTaskId |-> id]

MarkUnknownRow(row) ==
  IF row.status = "NONE" THEN row
  ELSE [status |-> "OUTCOME_UNKNOWN", providerTaskId |-> NoId]

\* mark_not_created is mark_unknown followed, after the lock was given up,
\* by a second UPDATE of the status alone.
SetNotCreatedRow(row) ==
  IF row.status = "NONE" THEN row ELSE [row EXCEPT !.status = "NOT_CREATED"]

ConfirmNotCreatedWhere(row) ==
  row.status \in {"STARTED", "OUTCOME_UNKNOWN", "NOT_CREATED"}
ConfirmNotCreatedRow == [status |-> "NOT_CREATED", providerTaskId |-> NoId]

Recover(row) == IF row.status = "ACCEPTED" THEN row.providerTaskId ELSE NoId

-----------------------------------------------------------------------------
Init == /\ registry = NoRow
        /\ handler = [h \in Handlers |-> IdleHandler]
        /\ remote = {}
        /\ calls = 0

Goto(h, step) == handler' = [handler EXCEPT ![h].step = step]
Reply(h, reply, id) ==
  handler' = [handler EXCEPT ![h] = [step |-> "replied", id |-> id, reply |-> reply]]

\* A create request arrives.
Receive(h) ==
  /\ handler[h].step = "idle"
  /\ Goto(h, "received")
  /\ UNCHANGED <<registry, remote, calls>>

\* registry.begin: the row is read and inserted under one lock.  A request
\* that is not the first is answered from the row.
Begin(h) ==
  /\ handler[h].step = "received"
  /\ IF Begins(registry)
       THEN registry' = Started /\ Goto(h, "begun")
       ELSE /\ IF registry.status = "ACCEPTED" /\ registry.providerTaskId # NoId
                 THEN Reply(h, "id", registry.providerTaskId)
                 ELSE Reply(h, "conflict", NoId)
            /\ UNCHANGED registry
  /\ UNCHANGED <<remote, calls>>

\* What the Provider may have done about a request with this outcome.
After(o) == {remote} \cup
  (IF MayCreate(o) THEN {remote \cup {id} : id \in ProviderTaskIds \ remote} ELSE {})

\* runtime.create_task: the Provider creates a task and the answer names it ...
Created(h) ==
  /\ handler[h].step = "begun"
  /\ calls' = calls + 1
  /\ \E o \in SdkOutcome : CreateCode(o) = "created"
  /\ \E id \in ProviderTaskIds \ remote :
       /\ remote' = remote \cup {id}
       /\ handler' = [handler EXCEPT ![h].step = "accept", ![h].id = id]
  /\ UNCHANGED registry

\* ... or the answer is lost, a 5xx or unreadable, with or without a task ...
OutcomeUnknown(h) ==
  /\ handler[h].step = "begun"
  /\ calls' = calls + 1
  /\ \E o \in SdkOutcome : CreateCode(o) \in UnknownCodes /\ remote' \in After(o)
  /\ Goto(h, "unknown")
  /\ UNCHANGED registry

\* ... or the request was not sent, or was rejected.
NotCreated(h) ==
  /\ handler[h].step = "begun"
  /\ calls' = calls + 1
  /\ \E o \in SdkOutcome : CreateCode(o) \in NotCreatedCodes /\ remote' \in After(o)
  /\ Goto(h, "notCreated")
  /\ UNCHANGED registry

Accept(h) ==
  /\ handler[h].step = "accept"
  /\ registry' = AcceptRow(registry, handler[h].id)
  /\ Goto(h, "answer")
  /\ UNCHANGED <<remote, calls>>

Answer(h) ==
  /\ handler[h].step = "answer"
  /\ Reply(h, "id", handler[h].id)
  /\ UNCHANGED <<registry, remote, calls>>

\* The write of the accept fails, or the client is gone and writing the reply
\* raises: one generic handler catches both and marks the row unknown.
AcceptFails(h) ==
  /\ handler[h].step \in {"accept", "answer"}
  /\ Goto(h, "unknown")
  /\ UNCHANGED <<registry, remote, calls>>

MarkUnknown(h) ==
  /\ handler[h].step = "unknown"
  /\ registry' = MarkUnknownRow(registry)
  /\ Reply(h, "unknown", NoId)
  /\ UNCHANGED <<remote, calls>>

MarkNotCreated(h) ==
  /\ handler[h].step = "notCreated"
  /\ registry' = MarkUnknownRow(registry)
  /\ Goto(h, "setNotCreated")
  /\ UNCHANGED <<remote, calls>>

SetNotCreated(h) ==
  /\ handler[h].step = "setNotCreated"
  /\ registry' = SetNotCreatedRow(registry)
  /\ Reply(h, "notCreated", NoId)
  /\ UNCHANGED <<remote, calls>>

\* The client has read the reply, or is gone; or the thread died of a failed
\* registry write and closes the connection.
Close(h) ==
  /\ handler[h].step \in {"unknown", "notCreated", "setNotCreated", "replied"}
  /\ handler' = [handler EXCEPT ![h] = IdleHandler]
  /\ UNCHANGED <<registry, remote, calls>>

\* The process dies with all its threads.
Restart ==
  /\ \E h \in Handlers : handler[h].step # "idle"
  /\ handler' = [h \in Handlers |-> IdleHandler]
  /\ UNCHANGED <<registry, remote, calls>>

\* The reconcile endpoint, after an operator has looked at the Provider.
ReconcileAccepted(id) ==
  /\ registry' = AcceptRow(registry, id)
  /\ UNCHANGED <<handler, remote, calls>>

ReconcileNotCreated ==
  /\ registry' = IF ConfirmNotCreatedWhere(registry)
                   THEN ConfirmNotCreatedRow ELSE registry
  /\ UNCHANGED <<handler, remote, calls>>

Serve(h) == \/ Begin(h) \/ Created(h) \/ OutcomeUnknown(h) \/ NotCreated(h)
            \/ Accept(h) \/ Answer(h) \/ AcceptFails(h) \/ MarkUnknown(h)
            \/ MarkNotCreated(h) \/ SetNotCreated(h)

Operator == \/ \E id \in remote : ReconcileAccepted(id)
            \/ ReconcileNotCreated

Next == \/ \E h \in Handlers : Receive(h) \/ Serve(h) \/ Close(h)
        \/ Restart
        \/ Reconciles /\ Operator

Spec == Init /\ [][Next]_vars
-----------------------------------------------------------------------------
TypeOK ==
  /\ registry \in RegistryRow
  /\ handler \in [Handlers -> Handler]
  /\ remote \subseteq ProviderTaskIds
  /\ calls \in Nat

\* The Provider is called once for a clientRequestId: whatever clients repeat,
\* the process forgets or the operator decides.
ProviderCalledOnce == calls <= 1

\* A client is told an identifier only of a task that exists, and is told that
\* there is none only when there is none.
RepliesAreTrue ==
  \A h \in Handlers :
    /\ handler[h].reply = "id" => handler[h].id \in remote
    /\ handler[h].reply = "notCreated" => remote = {}

\* Whatever is answered for a clientRequestId with an identifier, by a create, by
\* its repetition or by recover, is the same identifier.
AnswersAgree ==
  \A h \in Handlers : handler[h].reply = "id" =>
    /\ Recover(registry) \in {NoId, handler[h].id}
    /\ \A g \in Handlers : handler[g].reply = "id" => handler[g].id = handler[h].id

\* Before the row exists nobody has been to the Provider; the one thread that
\* goes is the first; what a thread is about to write down is true.
BeganOnce ==
  /\ registry.status = "NONE" =>
       /\ calls = 0
       /\ \A h \in Handlers : handler[h].step \in {"idle", "received"}
  /\ calls = 0 => remote = {}
  /\ \A h \in Handlers : handler[h].step = "begun" => calls = 0
  /\ \A g, h \in Handlers :
       handler[g].step = "begun" /\ handler[h].step = "begun" => g = h

ThreadsKnow ==
  \A h \in Handlers :
    /\ handler[h].step \in {"accept", "answer"} => handler[h].id \in remote
    /\ handler[h].step \in {"notCreated", "setNotCreated"} => remote = {}
    /\ handler[h].reply = "notCreated" \/ handler[h].step \in {"notCreated", "setNotCreated"}
         => calls = 1

RegistryKnows == registry.status = "ACCEPTED" => registry.providerTaskId \in remote

OneTask == \A a, b \in remote : a = b

\* The inductive invariant.
BridgeInv == /\ TypeOK /\ ProviderCalledOnce /\ BeganOnce /\ ThreadsKnow
             /\ RepliesAreTrue /\ RegistryKnows /\ OneTask

\* A mapping, once accepted, stays: later creates and recoveries are answered
\* from it.
MappingKept ==
  [][registry.status = "ACCEPTED" =>
       /\ registry'.status = "ACCEPTED"
       /\ registry'.providerTaskId = registry.providerTaskId]_vars
=============================================================================
