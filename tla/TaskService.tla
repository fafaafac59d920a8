----------------------------- MODULE TaskService ------------------------------
(***************************************************************************)
(* What the API's task routes promise to their clients: POST /api/tasks    *)
(* makes one task per clientRequestId, and says so at most once.  TaskApi  *)
(* implements this promise; the console is checked against it.             *)
(*                                                                         *)
(* A request is one POST.  The id of a task and a clientRequestId are named *)
(* by the request that created or first used them.                         *)
(***************************************************************************)
EXTENDS Naturals, FiniteSets

CONSTANTS Requests,    \* the requests that are made, and so ids and keys
          NoTask,      \* no id
          Stages       \* bound: the statuses tasks take

\* No row is ever stored as a DRAFT.
Final == {"SUCCEEDED", "FAILED", "CANCELLED", "EXPIRED"}
TaskStatus == Final \cup {"QUEUED", "SUBMITTING", "PROCESSING", "RECONCILIATION_REQUIRED"}

ASSUME TaskServiceAssumption ==
  /\ NoTask \notin Requests
  /\ Stages \subseteq TaskStatus /\ {"QUEUED", "SUBMITTING"} \subseteq Stages

VARIABLES status,    \* status[t]: the row's, or "ABSENT"
          reply      \* reply[r]: the request r as its client sees it

serviceVars == <<status, reply>>

\* 400 stands for every error, and for no answer at all.
Codes == {0, 200, 202, 400}
\* key: the clientRequestId of the body; task: the id in the answer.
Reply == [step: {"idle", "open", "answered"}, key: Requests \cup {NoTask},
          code: Codes, task: Requests \cup {NoTask}]
State(step, key, code, task) == [step |-> step, key |-> key, code |-> code, task |-> task]
NoReply == State("idle", NoTask, 0, NoTask)

ServiceInit == /\ status = [t \in Requests |-> "ABSENT"]
               /\ reply = [r \in Requests |-> NoReply]

Exists(t) == status[t] # "ABSENT"
Under(key) == {t \in Requests : Exists(t) /\ reply[t].key = key}

\* The clientRequestId is new, or one that was used before: a client that has
\* no answer posts the same body again.
Post(r, key) == /\ reply[r].step = "idle"
                /\ key = r \/ reply[key].key = key
                /\ reply' = [reply EXCEPT ![r] = State("open", key, 0, NoTask)]
                /\ UNCHANGED status

\* The row is committed; the request goes on, and may yet fail.
Create(r) == /\ reply[r].step = "open" /\ Under(reply[r].key) = {}
             /\ status' = [status EXCEPT ![r] = "QUEUED"]
             /\ UNCHANGED reply

\* 202 for a task this request created, 200 for one that was there.
Answer(r) ==
  /\ reply[r].step = "open"
  /\ \E t \in Under(reply[r].key) :
       reply' = [reply EXCEPT ![r] =
                   State("answered", reply[r].key, IF t = r THEN 202 ELSE 200, t)]
  /\ UNCHANGED status

\* A refusal or a failure, which may come after the row was committed; the
\* process may die, and all its requests with it.
Failed(rs) == /\ reply' = [r \in Requests |->
                   IF r \in rs /\ reply[r].step = "open"
                     THEN State("answered", reply[r].key, 400, NoTask) ELSE reply[r]]
              /\ UNCHANGED status

\* Where a status goes: the processors, the coordinator, the operator's script
\* and the cancel route.
Moves == ({"QUEUED"} \X {"SUBMITTING"})
  \cup ({"SUBMITTING"} \X {"PROCESSING", "FAILED", "RECONCILIATION_REQUIRED"})
  \cup ({"RECONCILIATION_REQUIRED"} \X {"PROCESSING", "FAILED"})
  \cup ({"PROCESSING"} \X (Final \cup {"RECONCILIATION_REQUIRED"}))
  \cup ({"QUEUED", "SUBMITTING", "PROCESSING"} \X {"CANCELLED"})

Move(t) == /\ \E next \in Stages : /\ <<status[t], next>> \in Moves
                                   /\ status' = [status EXCEPT ![t] = next]
           /\ UNCHANGED reply

Serving == \/ \E r \in Requests : Create(r) \/ Answer(r) \/ Failed({r})
           \/ Failed(Requests)
           \/ \E t \in Requests : Move(t)

ServiceNext == Serving \/ \E r, key \in Requests : Post(r, key)

ServiceSpec == ServiceInit /\ [][ServiceNext]_serviceVars

Answered(r) == reply[r].step = "answered" /\ reply[r].code \in {200, 202}

\* All answers to one clientRequestId that are not errors name one task, and
\* at most one of them says it is new, however the requests overlap, fail and
\* are repeated.
RepliesAgree ==
  \A r, q \in Requests :
    Answered(r) /\ Answered(q) /\ reply[r].key = reply[q].key =>
      /\ reply[r].task = reply[q].task
      /\ reply[r].code = 202 /\ reply[q].code = 202 => r = q
=============================================================================
