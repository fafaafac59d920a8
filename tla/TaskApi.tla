------------------------------- MODULE TaskApi --------------------------------
(***************************************************************************)
(* POST /api/tasks of api/src/mvp-routes.ts, several requests at a time,   *)
(* as they share the VideoTask table and the queue of submit jobs: what    *)
(* the clientRequestId and the deterministic job id are for.  The worker   *)
(* takes the jobs; what becomes of a task after that are the moves of its  *)
(* status (Submission, Polling and Download show them in detail).          *)
(*                                                                         *)
(* A request is one run of the handler.  It draws the id of the row it     *)
(* creates, so a task is named by the request that created it; a           *)
(* clientRequestId is named by the request that first used it.             *)
(***************************************************************************)
EXTENDS Naturals, FiniteSets

CONSTANTS Requests,    \* runs of the handler, and so ids and keys
          NoTask,      \* no id
          Stages,      \* bound: the statuses tasks take
          MaxFaults    \* bound: failures of the database, Redis or a process

VARIABLES status,    \* status[t]: the row's, or "ABSENT"
          job,       \* job[t]: the submit job under the id made of t
          request,   \* request[r]: the run r of the handler
          faults     \* faults so far

vars == <<status, job, request, faults>>

\* The handler runs.
Open(r) == request[r].step \notin {"idle", "answered", "lost"}

\* The request as its client sees it: how far the handler has come, and the
\* task it works on, show only in the answer.
SeenOutside(r) ==
  [step |-> IF Open(r) THEN "open" ELSE IF request[r].step = "idle" THEN "idle" ELSE "answered",
   key |-> request[r].key,
   code |-> IF request[r].step = "lost" \/ request[r].code = 500 THEN 400 ELSE request[r].code,
   task |-> IF request[r].code \in {200, 202} THEN request[r].task ELSE NoTask]

Service == INSTANCE TaskService WITH reply <- [r \in Requests |-> SeenOutside(r)]
ServiceSpec == Service!ServiceSpec

ASSUME TaskApiAssumption ==
  /\ NoTask \notin Requests
  /\ Stages \subseteq Service!TaskStatus /\ {"QUEUED", "SUBMITTING"} \subseteq Stages
  /\ MaxFaults \in Nat

\* "none" and "lost" are one to the handler, a queue without the job: "lost" is a
\* job that was there and went without having been worked off.
JobStates == {"none", "waiting", "active", "failed", "lost"}
Steps == {"idle", "find", "create", "enqueue", "read", "answered", "lost"}
Codes == {0, 200, 202, 400, 500}

\* key: the clientRequestId of the body; task: the id found or created.
Request == [step: Steps, key: Requests \cup {NoTask}, task: Requests \cup {NoTask},
            code: Codes]
IdleRequest == [step |-> "idle", key |-> NoTask, task |-> NoTask, code |-> 0]

Init == /\ status = [t \in Requests |-> "ABSENT"]
        /\ job = [t \in Requests |-> "none"]
        /\ request = [r \in Requests |-> IdleRequest]
        /\ faults = 0

-----------------------------------------------------------------------------
(* The handler. *)

Exists(t) == status[t] # "ABSENT"
Under(key) == {t \in Requests : Exists(t) /\ request[t].key = key}

\* A body arrives; its clientRequestId is new, or one that was used before: a
\* client that has no answer posts the same body again.
Post(r, key) == /\ request[r].step = "idle"
                /\ key = r \/ request[key].key = key
                /\ request' = [request EXCEPT ![r] = [IdleRequest EXCEPT !.step = "find",
                                                                         !.key = key]]
                /\ UNCHANGED <<status, job, faults>>

Goto(r, step) == request' = [request EXCEPT ![r].step = step]
Reply(r, code) ==
  request' = [request EXCEPT ![r] = [@ EXCEPT !.step = "answered", !.code = code]]

\* The body or its parameters are refused before anything is read; references
\* that do not exist or do not suit the Provider, only for a new task.
Refuse(r) == /\ request[r].step \in {"find", "create"}
             /\ Reply(r, 400)
             /\ UNCHANGED <<status, job, faults>>

\* findUnique by clientRequestId.
Find(r) ==
  /\ request[r].step = "find"
  /\ \/ /\ Under(request[r].key) = {}
        /\ Goto(r, "create")
     \/ \E t \in Under(request[r].key) :
          request' = [request EXCEPT ![r].step = "enqueue", ![r].task = t]
  /\ UNCHANGED <<status, job, faults>>

\* Mutant: clientRequestId is not unique.
KeyIsNotCompared(r) == ~Exists(r)

\* videoTask.create: clientRequestId is unique, and a violation is a 500.
KeyIsFree(r) == Under(request[r].key) = {}
Create(r) ==
  /\ request[r].step = "create"
  /\ IF KeyIsFree(r)
       THEN /\ status' = [status EXCEPT ![r] = "QUEUED"]
            /\ request' = [request EXCEPT ![r].step = "enqueue", ![r].task = r]
       ELSE Reply(r, 500) /\ UNCHANGED status
  /\ UNCHANGED <<job, faults>>

\* Mutant: only a new task is enqueued.
AddedForNew(r, t) == IF job[t] \in {"none", "lost"} /\ t = r THEN "waiting" ELSE job[t]

\* taskQueue.add, for a new task and for a known one: a job whose id exists,
\* a failed one too, is left as it is.
Added(r, t) == IF job[t] \in {"none", "lost"} THEN "waiting" ELSE job[t]
Enqueue(r) ==
  /\ request[r].step = "enqueue"
  /\ job' = [job EXCEPT ![request[r].task] = Added(r, request[r].task)]
  /\ Goto(r, "read")
  /\ UNCHANGED <<status, faults>>

\* findTask, and the reply: 202 for a task that was not there before.
Read(r) ==
  /\ request[r].step = "read"
  /\ request' = [request EXCEPT ![r] =
       [@ EXCEPT !.step = "answered", !.code = IF request[r].task = r THEN 202 ELSE 200]]
  /\ UNCHANGED <<status, job, faults>>

-----------------------------------------------------------------------------
(* Failures: a statement or the enqueue throws; the process dies and its      *)
(* requests with it.                                                          *)

Fault == faults < MaxFaults /\ faults' = faults + 1

Fail(r) == /\ Open(r) /\ Fault
           /\ Reply(r, 500)
           /\ UNCHANGED <<status, job>>

ApiDies == /\ \E r \in Requests : Open(r)
           /\ Fault
           /\ request' = [r \in Requests |-> IF Open(r) THEN [request[r] EXCEPT !.step = "lost"]
                                             ELSE request[r]]
           /\ UNCHANGED <<status, job>>

-----------------------------------------------------------------------------
(* The worker. *)

Deliver(t) == /\ job[t] = "waiting"
              /\ job' = [job EXCEPT ![t] = "active"]
              /\ UNCHANGED <<status, request, faults>>

\* claimSubmission.
Claim(t) == /\ job[t] = "active" /\ status[t] = "QUEUED"
            /\ status' = [status EXCEPT ![t] = "SUBMITTING"]
            /\ UNCHANGED <<job, request, faults>>

\* The processor returns; the job is removed.
Done(t) == /\ job[t] = "active" /\ status[t] # "QUEUED"
           /\ job' = [job EXCEPT ![t] = "none"]
           /\ UNCHANGED <<status, request, faults>>

\* The processor throws, and the job is kept; or its worker dies, and the job
\* is handed out again.
Interrupted(t) == /\ job[t] = "active" /\ Fault
                  /\ \E state \in {"failed", "waiting"} : job' = [job EXCEPT ![t] = state]
                  /\ UNCHANGED <<status, request>>

\* Redis loses a waiting job.
LoseJob(t) == /\ job[t] = "waiting" /\ Fault
              /\ job' = [job EXCEPT ![t] = "lost"]
              /\ UNCHANGED <<status, request>>

\* The queue keeps a hundred failed jobs; an older one goes, whatever became of
\* its task.
Evict(t) == /\ job[t] = "failed"
            /\ job' = [job EXCEPT ![t] = "lost"]
            /\ UNCHANGED <<status, request, faults>>

\* What becomes of the task, its claim aside: the processors, the coordinator,
\* the operator's script and the cancel route.
Move(t) == /\ \E next \in Stages : /\ <<status[t], next>> \in Service!Moves \ {<<"QUEUED", "SUBMITTING">>}
                                   /\ status' = [status EXCEPT ![t] = next]
           /\ UNCHANGED <<job, request, faults>>

-----------------------------------------------------------------------------
Handle(r) == Find(r) \/ Create(r) \/ Enqueue(r) \/ Read(r)
Work(t) == Deliver(t) \/ Claim(t) \/ Done(t)

Next == \/ \E r, key \in Requests : Post(r, key)
        \/ \E r \in Requests : Handle(r) \/ Refuse(r) \/ Fail(r)
        \/ \E t \in Requests : Work(t) \/ Interrupted(t) \/ LoseJob(t) \/ Evict(t) \/ Move(t)
        \/ ApiDies

\* A handler that runs, and a worker that is up, go on.
Fairness == /\ \A r \in Requests : WF_vars(Handle(r))
            /\ \A t \in Requests : WF_vars(Work(t))

Spec == Init /\ [][Next]_vars /\ Fairness

-----------------------------------------------------------------------------
TypeOK == /\ status \in [Requests -> Stages \cup {"ABSENT"}]
          /\ job \in [Requests -> JobStates]
          /\ request \in [Requests -> Request]
          /\ faults \in 0..MaxFaults

\* What every request knows is so: it was posted under a key, the task it has
\* found or created is there, and carries that key.
RequestsAreTrue ==
  \A r \in Requests :
    /\ (request[r].step = "idle") <=> (request[r].key = NoTask)
    /\ request[r].task # NoTask => request[r].task \in Under(request[r].key)
    /\ request[r].step \in {"enqueue", "read"} => request[r].task # NoTask
    /\ request[r].step \in {"idle", "find", "create"} => request[r].task = NoTask
    /\ request[r].code # 0 => request[r].step = "answered"
    /\ request[r].code \in {200, 202} =>
         request[r].task # NoTask /\ ((request[r].code = 202) <=> (request[r].task = r))
    /\ Exists(r) => request[r].task = r

\* No two tasks carry one clientRequestId.
KeysAreUnique ==
  \A t, u \in Requests : Exists(t) /\ Exists(u) /\ request[t].key = request[u].key => t = u

\* The API never answers with a task it has not enqueued: one that is QUEUED and
\* has no job lost it in the queue.  (A request that failed half-way may leave one
\* that was never enqueued; repeating the request mends that.)
WasEnqueued(t) == job[t] # "none" \/ status[t] # "QUEUED"
NamedAreEnqueued ==
  \A r \in Requests : request[r].step = "read" \/ request[r].code \in {200, 202}
                        => WasEnqueued(request[r].task)

\* The inductive invariant: the types, what the requests know, the unique key
\* and the enqueue that precedes every reply.
ApiInv == TypeOK /\ RequestsAreTrue /\ KeysAreUnique /\ NamedAreEnqueued

\* All replies agree, as TaskService says.
RepliesAgree == Service!RepliesAgree

\* A request for a task gets it started, whatever became of its job before: one
\* that was never added, was lost or was evicted is added again.  In the way are
\* only a failed job the queue still keeps, and a further fault.  (No coordinator
\* looks for QUEUED tasks: without a request a lost job stays lost.)
InHand(t) == \E r \in Requests : request[r].step = "enqueue" /\ request[r].task = t
AskedForIsStarted ==
  \A t \in Requests, k \in 0..MaxFaults :
    InHand(t) /\ job[t] # "failed" /\ faults = k ~> status[t] # "QUEUED" \/ faults > k
=============================================================================
