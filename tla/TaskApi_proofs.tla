--------------------------- MODULE TaskApi_proofs ---------------------------
(***************************************************************************)
(* TaskApi keeps its invariant and implements TaskService, for every set   *)
(* of requests, every set of statuses and every number of faults.          *)
(***************************************************************************)
EXTENDS TaskApi, TLAPS

LEMMA InitEstablishesApiInv ==
  ASSUME Init
  PROVE  ApiInv
  BY TaskApiAssumption DEF Init, ApiInv, TypeOK, RequestsAreTrue, KeysAreUnique,
     NamedAreEnqueued, Exists, Under, Request, IdleRequest, Steps, Codes, JobStates, WasEnqueued

\* A reply changes the step and the code of its request, and nothing else.
LEMMA ReplyChanges ==
  ASSUME request \in [Requests -> Request], NEW r \in Requests, NEW code \in Codes,
         Reply(r, code)
  PROVE  /\ request' \in [Requests -> Request]
         /\ request'[r].step = "answered" /\ request'[r].code = code
         /\ request'[r].key = request[r].key /\ request'[r].task = request[r].task
         /\ \A q \in Requests \ {r} : request'[q] = request[q]
<1> DEFINE new == [request[r] EXCEPT !.step = "answered", !.code = code]
<1>1. new \in Request
  BY DEF Request, Steps
<1>2. request' = [request EXCEPT ![r] = new]
  BY DEF Reply
<1>3. /\ new.step = "answered" /\ new.code = code
      /\ new.key = request[r].key /\ new.task = request[r].task
  BY DEF Request
<1> HIDE DEF new
<1>4. QED
  BY <1>1, <1>2, <1>3

\* A reply that is an error keeps the invariant: it promises nothing.
LEMMA ErrorsKeepApiInv ==
  ASSUME ApiInv, NEW r \in Requests, NEW code \in {400, 500}, Reply(r, code), Open(r),
         UNCHANGED <<status, job>>, faults' \in 0..MaxFaults
  PROVE  ApiInv'
<1>1. /\ request \in [Requests -> Request] /\ code \in Codes
      /\ code \notin {200, 202} /\ request[r].step # "idle"
  BY DEF ApiInv, TypeOK, Codes, Open
<1>2. /\ request' \in [Requests -> Request]
      /\ request'[r].step = "answered" /\ request'[r].code \notin {200, 202}
      /\ \A q \in Requests : /\ request'[q].key = request[q].key
                             /\ request'[q].task = request[q].task
      /\ \A q \in Requests \ {r} : request'[q] = request[q]
  BY <1>1, ReplyChanges
<1>3. TypeOK'
  BY <1>2 DEF ApiInv, TypeOK
<1>4. \A key : Under(key)' = Under(key)
  BY <1>2 DEF Under, Exists
<1>5. RequestsAreTrue'
  BY <1>1, <1>2, <1>4 DEF ApiInv, RequestsAreTrue, Exists
<1>6. KeysAreUnique'
  BY <1>2 DEF ApiInv, KeysAreUnique, Exists
<1>7. NamedAreEnqueued'
  BY <1>2 DEF ApiInv, NamedAreEnqueued, WasEnqueued
<1>8. QED
  BY <1>3, <1>5, <1>6, <1>7 DEF ApiInv

LEMMA NextKeepsApiInv ==
  ASSUME ApiInv, Next
  PROVE  ApiInv'
<1> USE DEF ApiInv, Exists, Under
<1>1. ASSUME NEW r \in Requests, NEW key \in Requests, Post(r, key)
      PROVE  ApiInv'
  <2>1. TypeOK'
    BY <1>1, TaskApiAssumption DEF Post, TypeOK, Request, IdleRequest, Steps, Codes
  <2>2. RequestsAreTrue'
    BY <1>1, TaskApiAssumption DEF Post, TypeOK, Request, IdleRequest, RequestsAreTrue
  <2>3. KeysAreUnique'
    BY <1>1, TaskApiAssumption DEF Post, TypeOK, Request, IdleRequest, RequestsAreTrue, KeysAreUnique
  <2>4. NamedAreEnqueued'
    BY <1>1, TaskApiAssumption DEF Post, TypeOK, Request, IdleRequest, NamedAreEnqueued, WasEnqueued
  <2>5. QED
    BY <2>1, <2>2, <2>3, <2>4
<1>2. ASSUME NEW r \in Requests, Find(r)
      PROVE  ApiInv'
  <2>1. TypeOK'
    BY <1>2, TaskApiAssumption DEF Find, Goto, TypeOK, Request, Steps, Codes
  <2>2. RequestsAreTrue'
    BY <1>2, TaskApiAssumption DEF Find, Goto, TypeOK, Request, RequestsAreTrue
  <2>3. KeysAreUnique'
    BY <1>2, TaskApiAssumption DEF Find, Goto, TypeOK, Request, RequestsAreTrue, KeysAreUnique
  <2>4. NamedAreEnqueued'
    BY <1>2, TaskApiAssumption DEF Find, Goto, TypeOK, Request, NamedAreEnqueued, WasEnqueued, RequestsAreTrue
  <2>5. QED
    BY <2>1, <2>2, <2>3, <2>4
<1>3. ASSUME NEW r \in Requests, Create(r)
      PROVE  ApiInv'
  <2>1. CASE ~KeyIsFree(r)
    <3>1. Reply(r, 500) /\ Open(r) /\ UNCHANGED <<status, job, faults>>
      BY <1>3, <2>1 DEF Create, Open
    <3>2. faults' \in 0..MaxFaults
      BY <3>1 DEF TypeOK
    <3>3. QED
      BY <3>1, <3>2, ErrorsKeepApiInv
  <2>2. CASE KeyIsFree(r)
    <3>1. /\ request[r].step = "create" /\ status' = [status EXCEPT ![r] = "QUEUED"]
          /\ request' = [request EXCEPT ![r].step = "enqueue", ![r].task = r]
          /\ UNCHANGED <<job, faults>>
      BY <1>3, <2>2 DEF Create
    <3>2. TypeOK'
      BY <3>1, TaskApiAssumption DEF TypeOK, Request, Steps
    <3>3. request[r].task = NoTask /\ request[r].key # NoTask /\ ~Exists(r)
      BY <3>1, TaskApiAssumption DEF RequestsAreTrue
    <3>4. RequestsAreTrue'
      BY <3>1, <3>3, TaskApiAssumption DEF TypeOK, Request, RequestsAreTrue
    <3>5. KeysAreUnique'
      BY <3>1, <2>2 DEF KeyIsFree, TypeOK, Request, KeysAreUnique
    <3>6. NamedAreEnqueued'
      <4>1. \A q \in Requests : request[q].task # NoTask => request[q].task # r
        BY <3>3 DEF RequestsAreTrue
      <4>2. \A q \in Requests : q # r => request'[q] = request[q]
        BY <3>1 DEF TypeOK
      <4>3. request'[r].step # "read" /\ request'[r].code = request[r].code
        BY <3>1 DEF TypeOK, Request
      <4>4. request[r].code \notin {200, 202}
        BY <3>1 DEF RequestsAreTrue
      <4>5. \A t \in Requests : t # r => WasEnqueued(t)' = WasEnqueued(t)
        BY <3>1 DEF TypeOK, WasEnqueued
      <4>6. ASSUME NEW q \in Requests, q # r,
                   request[q].step = "read" \/ request[q].code \in {200, 202}
            PROVE  WasEnqueued(request[q].task)'
        <5>1. request[q].task \in Requests /\ request[q].task # r
          BY <4>1, <4>6 DEF RequestsAreTrue
        <5>2. WasEnqueued(request[q].task)
          BY <4>6 DEF NamedAreEnqueued
        <5>3. QED
          BY <3>1, <5>1, <5>2, <4>2, <4>6 DEF WasEnqueued, TypeOK
      <4>7. QED
        BY <4>2, <4>3, <4>4, <4>6 DEF NamedAreEnqueued
    <3>7. QED
      BY <3>2, <3>4, <3>5, <3>6
  <2>3. QED
    BY <2>1, <2>2
<1>4. ASSUME NEW r \in Requests, Enqueue(r)
      PROVE  ApiInv'
  <2>1. TypeOK'
    <3>1. request[r].task \in Requests /\ Added(r, request[r].task) \in JobStates
      BY <1>4 DEF Enqueue, Added, TypeOK, RequestsAreTrue, JobStates
    <3>2. request' \in [Requests -> Request]
      BY <1>4 DEF Enqueue, Goto, TypeOK, Request, Steps
    <3>3. QED
      BY <1>4, <3>1, <3>2 DEF Enqueue, TypeOK
  <2>2. RequestsAreTrue'
    BY <1>4, TaskApiAssumption DEF Enqueue, Goto, TypeOK, Request, RequestsAreTrue
  <2>3. KeysAreUnique'
    BY <1>4, TaskApiAssumption DEF Enqueue, Goto, TypeOK, Request, KeysAreUnique
  <2>4. NamedAreEnqueued'
    BY <1>4, TaskApiAssumption DEF Enqueue, Added, Goto, TypeOK, Request, NamedAreEnqueued, WasEnqueued, RequestsAreTrue
  <2>5. QED
    BY <2>1, <2>2, <2>3, <2>4
<1>5. ASSUME NEW r \in Requests, Read(r)
      PROVE  ApiInv'
  <2>1. TypeOK'
    <3> DEFINE code == IF request[r].task = r THEN 202 ELSE 200
    <3>1. code \in Codes
      BY DEF Codes
    <3>2. Reply(r, code) /\ UNCHANGED <<status, job, faults>>
      BY <1>5 DEF Read, Reply
    <3> HIDE DEF code
    <3>3. QED
      BY <3>1, <3>2, ReplyChanges DEF TypeOK
  <2>2. RequestsAreTrue'
    BY <1>5, TaskApiAssumption DEF Read, TypeOK, Request, RequestsAreTrue
  <2>3. KeysAreUnique'
    BY <1>5, TaskApiAssumption DEF Read, TypeOK, Request, KeysAreUnique
  <2>4. NamedAreEnqueued'
    BY <1>5, TaskApiAssumption DEF Read, TypeOK, Request, NamedAreEnqueued, WasEnqueued
  <2>5. QED
    BY <2>1, <2>2, <2>3, <2>4
<1>6. ASSUME NEW r \in Requests, Refuse(r) \/ Fail(r)
      PROVE  ApiInv'
  <2>1. \E code \in {400, 500} : Reply(r, code)
    BY <1>6 DEF Refuse, Fail
  <2>2. Open(r) /\ UNCHANGED <<status, job>> /\ faults' \in 0..MaxFaults
    BY <1>6, TaskApiAssumption DEF Refuse, Fail, Fault, Open, TypeOK
  <2>3. QED
    BY <2>1, <2>2, ErrorsKeepApiInv
<1>7. ASSUME ApiDies
      PROVE  ApiInv'
  <2>1. TypeOK'
    BY <1>7, TaskApiAssumption DEF ApiDies, Fault, TypeOK, Request, Steps, Codes
  <2>2. RequestsAreTrue'
    BY <1>7, TaskApiAssumption DEF ApiDies, Open, TypeOK, Request, RequestsAreTrue
  <2>3. KeysAreUnique'
    BY <1>7, TaskApiAssumption DEF ApiDies, TypeOK, Request, KeysAreUnique
  <2>4. NamedAreEnqueued'
    BY <1>7, TaskApiAssumption DEF ApiDies, TypeOK, Request, NamedAreEnqueued, WasEnqueued
  <2>5. QED
    BY <2>1, <2>2, <2>3, <2>4
<1>8. ASSUME NEW t \in Requests, Work(t) \/ Interrupted(t) \/ LoseJob(t) \/ Evict(t)
      PROVE  ApiInv'
  <2>1. TypeOK'
    BY <1>8, TaskApiAssumption DEF Work, Deliver, Claim, Done, Interrupted, LoseJob, Evict, Fault, TypeOK, JobStates
  <2>2. RequestsAreTrue'
    BY <1>8, TaskApiAssumption DEF Work, Deliver, Claim, Done, Interrupted, LoseJob, Evict, TypeOK, RequestsAreTrue
  <2>3. KeysAreUnique'
    BY <1>8, TaskApiAssumption DEF Work, Deliver, Claim, Done, Interrupted, LoseJob, Evict, TypeOK, KeysAreUnique
  <2>4. NamedAreEnqueued'
    BY <1>8, TaskApiAssumption DEF Work, Deliver, Claim, Done, Interrupted, LoseJob, Evict, TypeOK, NamedAreEnqueued, WasEnqueued, RequestsAreTrue
  <2>5. QED
    BY <2>1, <2>2, <2>3, <2>4
<1>9. ASSUME NEW t \in Requests, Move(t)
      PROVE  ApiInv'
  <2>1. PICK next \in Stages : /\ <<status[t], next>> \in Service!Moves
                               /\ status' = [status EXCEPT ![t] = next]
    BY <1>9 DEF Move
  <2>2. status[t] # "ABSENT" /\ next # "ABSENT" /\ next # "QUEUED"
    BY <2>1 DEF Service!Moves, Service!Final
  <2>3. UNCHANGED <<job, request, faults>>
    BY <1>9 DEF Move
  <2>4. TypeOK'
    BY <2>1, <2>3 DEF TypeOK
  <2>5. RequestsAreTrue'
    BY <2>1, <2>2, <2>3 DEF TypeOK, RequestsAreTrue
  <2>6. KeysAreUnique'
    BY <2>1, <2>2, <2>3 DEF TypeOK, KeysAreUnique
  <2>7. NamedAreEnqueued'
    BY <2>1, <2>2, <2>3 DEF TypeOK, NamedAreEnqueued, WasEnqueued, RequestsAreTrue
  <2>8. QED
    BY <2>4, <2>5, <2>6, <2>7
<1>10. QED
  BY <1>1, <1>2, <1>3, <1>4, <1>5, <1>6, <1>7, <1>8, <1>9 DEF Next, Handle

\* The types, the unique clientRequestId, what the requests know and the
\* enqueue before every answer hold however requests overlap, fail and are
\* repeated.
THEOREM ApiInvariant == Spec => []ApiInv
<1>1. Init => ApiInv
  BY InitEstablishesApiInv
<1>2. ApiInv /\ [Next]_vars => ApiInv'
  <2>1. CASE Next
    BY <2>1, NextKeepsApiInv
  <2>2. CASE UNCHANGED vars
    BY <2>2 DEF vars, ApiInv, TypeOK, RequestsAreTrue, KeysAreUnique, NamedAreEnqueued,
         Exists, Under, WasEnqueued
  <2>3. QED
    BY <2>1, <2>2
<1>3. QED
  BY <1>1, <1>2, PTL DEF Spec

-----------------------------------------------------------------------------
(* TaskApi implements TaskService. *)

\* A request shows outside what it is itself about.
LEMMA UnderIsService ==
  ASSUME NEW key
  PROVE  Service!Under(key) = Under(key)
  BY DEF Service!Under, Service!Exists, Under, Exists, SeenOutside

\* A step of one request shows outside as a step of that request.
LEMMA OutsideOthers ==
  ASSUME NEW r \in Requests, \A q \in Requests \ {r} : request'[q] = request[q]
  PROVE  \A q \in Requests \ {r} : SeenOutside(q)' = SeenOutside(q)
  BY DEF SeenOutside, Open

LEMMA RepliesAreAnswers ==
  ASSUME ApiInv, NEW r \in Requests, NEW code \in {200, 202, 400, 500}, Reply(r, code), Open(r)
  PROVE  /\ SeenOutside(r).step = "open"
         /\ SeenOutside(r)' = [step |-> "answered", key |-> request[r].key,
                              code |-> IF code = 500 THEN 400 ELSE code,
                              task |-> IF code \in {200, 202} THEN request[r].task ELSE NoTask]
         /\ \A q \in Requests \ {r} : SeenOutside(q)' = SeenOutside(q)
<1>1. request \in [Requests -> Request] /\ code \in Codes
  BY DEF ApiInv, TypeOK, Codes
<1>2. /\ request'[r].step = "answered" /\ request'[r].code = code
      /\ request'[r].key = request[r].key /\ request'[r].task = request[r].task
      /\ \A q \in Requests \ {r} : request'[q] = request[q]
  BY <1>1, ReplyChanges
<1>3. SeenOutside(r).step = "open"
  BY DEF SeenOutside
<1>4. SeenOutside(r)' = [step |-> "answered", key |-> request[r].key,
                         code |-> IF code = 500 THEN 400 ELSE code,
                         task |-> IF code \in {200, 202} THEN request[r].task ELSE NoTask]
  BY <1>2 DEF SeenOutside, Open
<1>5. QED
  BY <1>2, <1>3, <1>4, OutsideOthers

\* An open request shows its key, and no task yet.
LEMMA OpenOutside ==
  ASSUME ApiInv, NEW r \in Requests, Open(r)
  PROVE  SeenOutside(r) = [step |-> "open", key |-> request[r].key, code |-> 0, task |-> NoTask]
<1>1. request[r].code = 0 /\ request[r].step # "lost"
  BY DEF ApiInv, RequestsAreTrue, Open
<1>2. QED
  BY <1>1 DEF SeenOutside

\* A request that fails shows as one that fails.
LEMMA ErrorsAreFailures ==
  ASSUME ApiInv, NEW r \in Requests, NEW code \in {400, 500}, Reply(r, code), Open(r),
         UNCHANGED status
  PROVE  Service!Failed({r})
<1>1. /\ SeenOutside(r) = [step |-> "open", key |-> request[r].key, code |-> 0, task |-> NoTask]
      /\ SeenOutside(r)' = [step |-> "answered", key |-> request[r].key, code |-> 400,
                           task |-> NoTask]
      /\ \A q \in Requests \ {r} : SeenOutside(q)' = SeenOutside(q)
  <2>1. code \in {200, 202, 400, 500} /\ code \notin {200, 202}
          /\ (IF code = 500 THEN 400 ELSE code) = 400
    OBVIOUS
  <2>2. QED
    BY <2>1, OpenOutside, RepliesAreAnswers
<1>2. SeenOutside(r)' = Service!State("answered", SeenOutside(r).key, 400, NoTask)
  BY <1>1 DEF Service!State
<1>3. SeenOutside(r).step = "open"
  BY <1>1
<1>4. QED
  BY <1>1, <1>2, <1>3 DEF Service!Failed

\* A step that changes nothing a client can see.
LEMMA HiddenSteps ==
  ASSUME UNCHANGED status, \A q \in Requests : SeenOutside(q)' = SeenOutside(q)
  PROVE  UNCHANGED Service!serviceVars
  BY DEF Service!serviceVars

LEMMA NextIsServiceNext ==
  ASSUME ApiInv, ApiInv', Next
  PROVE  [Service!ServiceNext]_Service!serviceVars
<1>1. ASSUME NEW r \in Requests, NEW key \in Requests, Post(r, key)
      PROVE  Service!Post(r, key)
  <2>1. /\ request[r].step = "idle" /\ request[r] \in Request
        /\ request'[r] = [step |-> "find", key |-> key, task |-> NoTask, code |-> 0]
        /\ \A q \in Requests \ {r} : request'[q] = request[q]
    BY <1>1 DEF Post, IdleRequest, ApiInv, TypeOK
  <2>2. SeenOutside(r).step = "idle"
    BY <2>1 DEF SeenOutside, Open
  <2>3. SeenOutside(r)' = Service!State("open", key, 0, NoTask)
    BY <2>1 DEF SeenOutside, Open, Service!State
  <2>4. \A q \in Requests \ {r} : SeenOutside(q)' = SeenOutside(q)
    BY <2>1, OutsideOthers
  <2>5. \A q \in Requests : SeenOutside(q).key = request[q].key
    BY DEF SeenOutside
  <2>6. (key = r \/ request[key].key = key) /\ UNCHANGED status
    BY <1>1 DEF Post
  <2>7. QED
    BY <2>2, <2>3, <2>4, <2>5, <2>6 DEF Service!Post
<1>2. ASSUME NEW r \in Requests, Find(r) \/ Enqueue(r)
      PROVE  UNCHANGED Service!serviceVars
  <2>1. UNCHANGED status /\ Open(r)
    BY <1>2 DEF Find, Enqueue, Open
  <2>2. /\ request'[r].step \in {"create", "enqueue", "read"} /\ request'[r].key = request[r].key
        /\ \A q \in Requests \ {r} : request'[q] = request[q]
    BY <1>2 DEF Find, Enqueue, Goto, ApiInv, TypeOK, Request
  <2>3. Open(r)'
    BY <2>2 DEF Open
  <2>4. /\ SeenOutside(r) = [step |-> "open", key |-> request[r].key, code |-> 0, task |-> NoTask]
        /\ SeenOutside(r)' = [step |-> "open", key |-> request'[r].key, code |-> 0, task |-> NoTask]
    <3>1. request[r].code = 0 /\ request'[r].code = 0
      BY <2>1, <2>3 DEF ApiInv, RequestsAreTrue, Open
    <3>2. QED
      BY <2>1, <2>3, <3>1 DEF SeenOutside, Open
  <2>5. QED
    BY <2>1, <2>2, <2>4, OutsideOthers, HiddenSteps
<1>3. ASSUME NEW r \in Requests, Create(r)
      PROVE  Service!Create(r) \/ Service!Failed({r})
  <2>1. CASE ~KeyIsFree(r)
    <3>1. Reply(r, 500) /\ Open(r) /\ UNCHANGED status
      BY <1>3, <2>1 DEF Create, Open
    <3>2. QED
      BY <3>1, ErrorsAreFailures
  <2>2. CASE KeyIsFree(r)
    <3>1. /\ Open(r) /\ status' = [status EXCEPT ![r] = "QUEUED"]
          /\ request' = [request EXCEPT ![r].step = "enqueue", ![r].task = r]
      BY <1>3, <2>2 DEF Create, Open
    <3>2. /\ request'[r].step = "enqueue" /\ request'[r].key = request[r].key
          /\ request'[r].code = request[r].code
          /\ \A q \in Requests \ {r} : request'[q] = request[q]
      BY <3>1 DEF ApiInv, TypeOK, Request
    <3>3. request[r].code = 0
      BY <3>1 DEF ApiInv, RequestsAreTrue, Open
    <3>4. SeenOutside(r)' = SeenOutside(r) /\ SeenOutside(r).step = "open"
      BY <3>1, <3>2, <3>3 DEF SeenOutside, Open
    <3>5. \A q \in Requests : SeenOutside(q)' = SeenOutside(q)
      BY <3>2, <3>4, OutsideOthers
    <3>6. Service!Under(SeenOutside(r).key) = {}
      BY <2>2, UnderIsService DEF KeyIsFree, SeenOutside
    <3>7. QED
      BY <3>1, <3>4, <3>5, <3>6 DEF Service!Create
  <2>3. QED
    BY <2>1, <2>2
<1>4. ASSUME NEW r \in Requests, Read(r)
      PROVE  Service!Answer(r)
  <2> DEFINE t == request[r].task
             code == IF t = r THEN 202 ELSE 200
  <2>1. Reply(r, code) /\ Open(r) /\ UNCHANGED status
    BY <1>4 DEF Read, Reply, Open
  <2>2. t \in Under(request[r].key)
    BY <1>4 DEF Read, ApiInv, RequestsAreTrue
  <2>3. code \in {200, 202} /\ code # 500
    OBVIOUS
  <2>4. SeenOutside(r) = [step |-> "open", key |-> request[r].key, code |-> 0, task |-> NoTask]
    BY <2>1, OpenOutside
  <2> HIDE DEF code, t
  <2>5. /\ SeenOutside(r)' = [step |-> "answered", key |-> request[r].key, code |-> code,
                             task |-> t]
        /\ \A q \in Requests \ {r} : SeenOutside(q)' = SeenOutside(q)
    BY <2>1, <2>3, RepliesAreAnswers DEF t
  <2>6. SeenOutside(r)' = Service!State("answered", SeenOutside(r).key, code, t)
    BY <2>4, <2>5 DEF Service!State
  <2>7. t \in Service!Under(SeenOutside(r).key) /\ SeenOutside(r).step = "open"
    BY <2>2, <2>4, UnderIsService
  <2>8. SeenOutside(r)' = Service!State("answered", SeenOutside(r).key,
                                        IF t = r THEN 202 ELSE 200, t)
    BY <2>6 DEF code
  <2>9. [q \in Requests |-> SeenOutside(q)]' =
          [[q \in Requests |-> SeenOutside(q)] EXCEPT ![r] =
             Service!State("answered", SeenOutside(r).key, IF t = r THEN 202 ELSE 200, t)]
    BY <2>5, <2>8
  <2>10. UNCHANGED status
    BY <2>1
  <2>11. QED
    BY <2>7, <2>9, <2>10 DEF Service!Answer
<1>5. ASSUME NEW r \in Requests, Refuse(r) \/ Fail(r)
      PROVE  Service!Failed({r})
  <2>1. \E code \in {400, 500} : Reply(r, code)
    BY <1>5 DEF Refuse, Fail
  <2>2. Open(r) /\ UNCHANGED status
    BY <1>5 DEF Refuse, Fail, Open
  <2>3. QED
    BY <2>1, <2>2, ErrorsAreFailures
<1>6. ASSUME ApiDies
      PROVE  Service!Failed(Requests)
  <2>1. ASSUME NEW q \in Requests, Open(q)
        PROVE  /\ SeenOutside(q).step = "open"
               /\ SeenOutside(q)' = Service!State("answered", SeenOutside(q).key, 400, NoTask)
    <3>1. request'[q] = [request[q] EXCEPT !.step = "lost"] /\ request[q] \in Request
      BY <1>6, <2>1 DEF ApiDies, ApiInv, TypeOK
    <3>2. /\ request'[q].step = "lost" /\ request'[q].key = request[q].key
          /\ request'[q].task = request[q].task /\ request'[q].code = request[q].code
      BY <3>1 DEF Request
    <3>3. SeenOutside(q) = [step |-> "open", key |-> request[q].key, code |-> 0, task |-> NoTask]
      BY <2>1, OpenOutside
    <3>4. request[q].code = 0
      BY <2>1 DEF ApiInv, RequestsAreTrue, Open
    <3>5. SeenOutside(q)' = [step |-> "answered", key |-> request[q].key, code |-> 400,
                             task |-> NoTask]
      BY <3>2, <3>4 DEF SeenOutside, Open
    <3>6. QED
      BY <3>3, <3>5 DEF Service!State
  <2>2. ASSUME NEW q \in Requests, ~Open(q)
        PROVE  SeenOutside(q).step # "open" /\ SeenOutside(q)' = SeenOutside(q)
    <3>1. request'[q] = request[q]
      BY <1>6, <2>2 DEF ApiDies
    <3>2. QED
      BY <2>2, <3>1 DEF SeenOutside, Open
  <2>3. UNCHANGED status
    BY <1>6 DEF ApiDies
  <2>4. QED
    BY <2>1, <2>2, <2>3 DEF Service!Failed
<1>7. ASSUME NEW t \in Requests, Work(t) \/ Interrupted(t) \/ LoseJob(t) \/ Evict(t)
      PROVE  Service!Move(t) \/ UNCHANGED Service!serviceVars
  <2>1. \A q \in Requests : SeenOutside(q)' = SeenOutside(q)
    BY <1>7 DEF Work, Deliver, Claim, Done, Interrupted, LoseJob, Evict, SeenOutside, Open
  <2>2. CASE Claim(t)
    <3>1. /\ <<status[t], "SUBMITTING">> \in Service!Moves /\ "SUBMITTING" \in Stages
          /\ status' = [status EXCEPT ![t] = "SUBMITTING"]
      BY <2>2, TaskApiAssumption DEF Claim, Service!Moves
    <3>2. QED
      BY <2>1, <3>1 DEF Service!Move
  <2>3. CASE Deliver(t) \/ Done(t) \/ Interrupted(t) \/ LoseJob(t) \/ Evict(t)
    <3>1. UNCHANGED status
      BY <2>3 DEF Deliver, Done, Interrupted, LoseJob, Evict
    <3>2. QED
      BY <2>1, <3>1, HiddenSteps
  <2>4. QED
    BY <1>7, <2>2, <2>3 DEF Work
<1>8. ASSUME NEW t \in Requests, Move(t)
      PROVE  Service!Move(t)
  <2>1. \A q \in Requests : SeenOutside(q)' = SeenOutside(q)
    BY <1>8 DEF Move, SeenOutside, Open
  <2>2. QED
    BY <1>8, <2>1 DEF Move, Service!Move
<1>9. QED
  BY <1>1, <1>2, <1>3, <1>4, <1>5, <1>6, <1>7, <1>8
     DEF Next, Handle, Service!ServiceNext, Service!Serving

\* TaskApi implements TaskService: outside, a POST is a request that creates at
\* most one task and is answered or fails, whatever happens inside.
THEOREM ApiImplementsService == Spec => ServiceSpec
<1>1. Init => Service!ServiceInit
  <2>1. ASSUME Init
        PROVE  \A r \in Requests : SeenOutside(r) = Service!NoReply
    BY <2>1 DEF Init, IdleRequest, SeenOutside, Open, Service!NoReply, Service!State
  <2>2. QED
    BY <2>1 DEF Init, Service!ServiceInit
<1>2. ApiInv /\ ApiInv' /\ [Next]_vars => [Service!ServiceNext]_Service!serviceVars
  <2>1. CASE Next
    BY <2>1, NextIsServiceNext
  <2>2. CASE UNCHANGED vars
    BY <2>2 DEF vars, Service!serviceVars, SeenOutside, Open
  <2>3. QED
    BY <2>1, <2>2
<1>3. QED
  BY <1>1, <1>2, ApiInvariant, PTL DEF Spec, ServiceSpec, Service!ServiceSpec

\* All answers to one clientRequestId name one task, and one at most is a 202.
THEOREM TheRepliesAgree == Spec => []RepliesAgree
<1>1. ApiInv => RepliesAgree
  <2> SUFFICES ASSUME ApiInv, NEW r \in Requests, NEW q \in Requests,
                      Service!Answered(r), Service!Answered(q), request[r].key = request[q].key
               PROVE  /\ request[r].task = request[q].task
                      /\ request[r].code = 202 /\ request[q].code = 202 => r = q
    BY DEF RepliesAgree, Service!RepliesAgree, Service!Answered, SeenOutside
  <2>1. request[r].code \in {200, 202} /\ request[q].code \in {200, 202}
    BY DEF Service!Answered, SeenOutside
  <2>2. /\ request[r].task \in Under(request[r].key)
        /\ request[q].task \in Under(request[q].key)
    BY <2>1 DEF ApiInv, RequestsAreTrue
  <2>3. request[r].task = request[q].task
    BY <2>2 DEF ApiInv, KeysAreUnique, Under
  <2>4. QED
    BY <2>1, <2>3 DEF ApiInv, RequestsAreTrue
<1>2. QED
  BY <1>1, ApiInvariant, PTL
=============================================================================
