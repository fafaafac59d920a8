---------------------------- MODULE Console_proofs ----------------------------
(***************************************************************************)
(* Proofs about Console, for any number of requests and of loads on their  *)
(* way and any set of statuses.  ConsoleInv is inductive, and the console  *)
(* asks nothing of the API that TaskService does not promise: each of its  *)
(* steps is one of TaskService or leaves the API alone.                    *)
(***************************************************************************)
EXTENDS Console, TLAPS

-----------------------------------------------------------------------------
(* The API. *)

\* The fields of a reply.
LEMMA ReplyFields ==
  ASSUME reply \in [Requests -> Reply], NEW r \in Requests
  PROVE  /\ reply[r].step \in {"idle", "open", "answered"}
         /\ reply[r].key \in Requests \cup {NoTask} /\ reply[r].task \in Requests \cup {NoTask}
         /\ reply[r].code \in Codes
<1>1. reply[r] \in Reply
  OBVIOUS
<1> QED  BY <1>1 DEF Reply

\* A reply made of its fields.
LEMMA StateFields ==
  ASSUME NEW step \in {"idle", "open", "answered"}, NEW key \in Requests \cup {NoTask},
         NEW code \in Codes, NEW task \in Requests \cup {NoTask}
  PROVE  LET s == State(step, key, code, task)
         IN  /\ s \in Reply
             /\ s.step = step /\ s.key = key /\ s.code = code /\ s.task = task
  BY DEF State, Reply

\* No task leaves its end, and none goes back to where it began.
LEMMA MovesGoOn ==
  ASSUME NEW s, NEW next, <<s, next>> \in Moves
  PROVE  /\ s \notin Final /\ next # "QUEUED" /\ s # "ABSENT" /\ next # "ABSENT"
         /\ next = "SUBMITTING" => s = "QUEUED"
  BY DEF Moves, Final

\* How statuses change.
StatusesGoOn ==
  \A t \in Requests : Exists(t) =>
    status'[t] = status[t] \/ <<status[t], status'[t]>> \in Moves

\* What a task had, it had.
LEMMA HadStays ==
  ASSUME StatusesGoOn, NEW t \in Requests, NEW seen, Had(t, seen)
  PROVE  Had(t, seen)'
<1>1. Exists(t)
  BY DEF Had
<1>2. CASE status'[t] = status[t]
  BY <1>2 DEF Had, Exists
<1>3. CASE <<status[t], status'[t]>> \in Moves
  <2>1. /\ status[t] \notin Final /\ status'[t] # "QUEUED" /\ status'[t] # "ABSENT"
        /\ status'[t] = "SUBMITTING" => status[t] = "QUEUED"
    BY <1>3, MovesGoOn
  <2> QED  BY <2>1 DEF Had, Exists
<1> QED  BY <1>1, <1>2, <1>3 DEF StatusesGoOn

\* The status a row has now.
LEMMA HasIt == ASSUME NEW t \in Requests, Exists(t) PROVE Had(t, status[t])
  BY DEF Had, Final

\* What the API's own steps do to the statuses, and that they stay statuses.
LEMMA ServingSteps ==
  ASSUME ConsoleInv, NEW r \in Requests, Create(r) \/ Move(r)
  PROVE  /\ status' \in [Requests -> Stages \cup {"ABSENT"}]
         /\ StatusesGoOn /\ UNCHANGED reply
         /\ \A t \in Requests : Exists(t)' => Exists(t) \/ reply[t].step # "idle"
<1>0. status \in [Requests -> Stages \cup {"ABSENT"}] /\ reply \in [Requests -> Reply]
  BY DEF ConsoleInv, TypeOK
<1>1. CASE Create(r)
  <2>1. reply[r].step = "open" /\ r \notin Under(reply[r].key)
    BY <1>1 DEF Create
  <2>2. ~Exists(r)
    BY <2>1 DEF Under, ConsoleInv, RepliesFit
  <2> QED  BY <1>0, <1>1, <2>1, <2>2, TaskServiceAssumption DEF Create, StatusesGoOn, Exists
<1>2. CASE Move(r)
  <2>1. PICK next \in Stages : <<status[r], next>> \in Moves
                               /\ status' = [status EXCEPT ![r] = next]
    BY <1>2 DEF Move
  <2>2. UNCHANGED reply
    BY <1>2 DEF Move
  <2>3. status[r] # "ABSENT"
    BY <2>1, MovesGoOn
  <2> QED  BY <1>0, <2>1, <2>2, <2>3 DEF StatusesGoOn, Exists
<1> QED  BY <1>1, <1>2

\* While the API stands still, so does everything that is said of it.
LEMMA ApiStands ==
  ASSUME UNCHANGED <<status, reply>>
  PROVE  /\ RepliesFit => RepliesFit'
         /\ \A t, seen : Had(t, seen) => Had(t, seen)'
         /\ \A r : Answered(r) <=> Answered(r)'
         /\ \A p : PostFits(p) => PostFits(p)'
         /\ \A l : LoadFits(l) => LoadFits(l)'
  BY DEF RepliesFit, Had, Exists, Answered, PostFits, LoadFits

\* Tasks are created and go on elsewhere.
LEMMA ElsewhereKeeps ==
  ASSUME ConsoleInv, Elsewhere PROVE ConsoleInv'
<1>0. TypeOK /\ RepliesFit /\ AnswersFit /\ PageFits
  BY DEF ConsoleInv
<1>1. PICK r \in Requests : Create(r) \/ Move(r)
  BY DEF Elsewhere
<1>2. UNCHANGED <<shown, submitting, pending, loads, last>>
  BY DEF Elsewhere
<1>3. /\ status' \in [Requests -> Stages \cup {"ABSENT"}]
      /\ StatusesGoOn /\ UNCHANGED reply
      /\ \A t \in Requests : Exists(t)' => Exists(t) \/ reply[t].step # "idle"
  BY <1>1, ServingSteps
<1>4. TypeOK'
  BY <1>0, <1>2, <1>3 DEF TypeOK
<1>5. \A t \in Requests : Exists(t) => Exists(t)'
  BY <1>3, MovesGoOn DEF StatusesGoOn, Exists
<1>6. \A t \in Requests : Answered(t) <=> Answered(t)'
  BY <1>3 DEF Answered
<1>7. RepliesFit'
  BY <1>0, <1>3, <1>5, <1>6 DEF RepliesFit
<1>8. \A t \in Requests : \A seen : Had(t, seen) => Had(t, seen)'
  BY <1>3, HadStays
<1>9. AnswersFit'
  <2>1. ASSUME NEW p \in pending PROVE PostFits(p)'
    <3>1. p.request \in Requests /\ PostFits(p)
      BY <1>0 DEF TypeOK, Pending, AnswersFit
    <3> QED  BY <1>3, <1>6, <1>8, <3>1 DEF PostFits
  <2>2. ASSUME NEW l \in loads PROVE LoadFits(l)'
    <3>1. l.task \in Requests \cup {Ghost} /\ LoadFits(l)
      BY <1>0 DEF TypeOK, Load, AnswersFit
    <3> QED  BY <1>5, <1>8, <3>1 DEF LoadFits
  <2> QED  BY <1>2, <2>1, <2>2 DEF AnswersFit
<1>10. PageFits'
  <2>1. shown.task \in Requests \cup {NoTask}
    BY <1>0 DEF TypeOK
  <2> QED  BY <1>0, <1>2, <1>6, <1>8, <2>1 DEF PageFits
<1> QED  BY <1>4, <1>7, <1>9, <1>10 DEF ConsoleInv

-----------------------------------------------------------------------------
(* createTask. *)

\* One request's reply changes: all that is said of the others stands.
LEMMA OneReply ==
  ASSUME reply \in [Requests -> Reply], UNCHANGED status,
         NEW r \in Requests, NEW s \in Reply, reply' = [reply EXCEPT ![r] = s]
  PROVE  /\ reply' \in [Requests -> Reply] /\ reply'[r] = s
         /\ \A q \in Requests \ {r} : reply'[q] = reply[q]
         /\ \A q \in Requests \ {r} : Answered(q)' <=> Answered(q)
         /\ \A t, seen : Had(t, seen)' <=> Had(t, seen)
         /\ \A t : Exists(t)' <=> Exists(t)
         /\ \A l : LoadFits(l)' <=> LoadFits(l)
  BY DEF Answered, Had, Exists, LoadFits

\* A click opens a request nobody asked for yet.
LEMMA ClickKeeps ==
  ASSUME ConsoleInv, NEW r \in Requests, Click(r) PROVE ConsoleInv'
<1>0. TypeOK /\ RepliesFit /\ AnswersFit /\ PageFits
  BY DEF ConsoleInv
<1> DEFINE s == State("open", r, 0, NoTask)
           new == [request |-> r, answer |-> "open"]
<1>1. /\ reply[r].step = "idle" /\ reply' = [reply EXCEPT ![r] = s] /\ UNCHANGED status
      /\ submitting' = r /\ pending' = pending \cup {new}
      /\ UNCHANGED <<shown, loads, last>>
  BY DEF Click, Post
<1>2. s \in Reply /\ s.step = "open" /\ s.key = r
  BY StateFields DEF Codes
<1>3. new \in Pending /\ new.request = r /\ new.answer = "open"
  BY DEF Pending
<1> HIDE DEF s, new
<1>4. reply \in [Requests -> Reply]
  BY <1>0 DEF TypeOK
<1>5. /\ reply'[r] = s /\ reply' \in [Requests -> Reply]
      /\ \A q \in Requests \ {r} : reply'[q] = reply[q]
      /\ \A q \in Requests \ {r} : Answered(q)' <=> Answered(q)
      /\ \A t, seen : Had(t, seen)' <=> Had(t, seen)
      /\ \A t : Exists(t)' <=> Exists(t)
      /\ \A l : LoadFits(l)' <=> LoadFits(l)
  BY <1>1, <1>2, <1>4, OneReply
<1>6. TypeOK'
  BY <1>0, <1>1, <1>3, <1>5 DEF TypeOK
<1>7. ~Answered(r) /\ ~Answered(r)' /\ ~Exists(r)
  BY <1>0, <1>1, <1>2, <1>5 DEF Answered, RepliesFit
<1>8. RepliesFit'
  <2>1. ASSUME NEW q \in Requests
        PROVE  /\ reply'[q].step = "idle" => reply'[q] = NoReply
               /\ reply'[q].step # "idle" => reply'[q].key = q
               /\ Exists(q)' => reply'[q].step # "idle"
               /\ Answered(q)' => reply'[q].task = q /\ Exists(q)'
    <3>1. CASE q = r
      BY <1>2, <1>5, <1>7, <3>1
    <3>2. CASE q # r
      BY <1>0, <1>5, <3>2 DEF RepliesFit
    <3> QED  BY <3>1, <3>2
  <2> QED  BY <2>1 DEF RepliesFit
<1>9. AnswersFit'
  <2>1. ASSUME NEW p \in pending PROVE PostFits(p)'
    <3>1. p.request \in Requests /\ PostFits(p)
      BY <1>0 DEF TypeOK, Pending, AnswersFit
    <3>2. p.request # r
      BY <1>1, <3>1 DEF PostFits
    <3> QED  BY <1>5, <3>1, <3>2 DEF PostFits
  <2>2. PostFits(new)'
    BY <1>2, <1>3, <1>5, <1>7 DEF PostFits
  <2> QED  BY <1>0, <1>1, <1>5, <2>1, <2>2 DEF AnswersFit
<1>10. PageFits'
  <2>1. \E p \in pending' : p.request = submitting'
    BY <1>1, <1>3
  <2> QED  BY <1>0, <1>1, <1>5, <1>7, <2>1 DEF PageFits
<1> QED  BY <1>6, <1>8, <1>9, <1>10 DEF ConsoleInv

\* A post that is answered.
LEMMA AnswerFields ==
  ASSUME NEW p \in Pending, NEW answer \in Stages \cup {"failed"}
  PROVE  LET new == [p EXCEPT !.answer = answer]
         IN  new \in Pending /\ new.request = p.request /\ new.answer = answer
  BY DEF Pending

\* The API answers a request of this tab, well or with an error.
LEMMA RepliedKeeps ==
  ASSUME ConsoleInv, NEW r \in Requests, reply[r].step = "open",
         NEW s \in Reply, s.step = "answered", s.key = r,
         reply' = [reply EXCEPT ![r] = s], UNCHANGED status,
         NEW answer \in Stages \cup {"failed"}, Replied(r, answer),
         Answered(r)' <=> answer # "failed",
         Answered(r)' => s.task = r /\ Had(r, answer)
  PROVE  ConsoleInv'
<1>0. TypeOK /\ RepliesFit /\ AnswersFit /\ PageFits /\ reply \in [Requests -> Reply]
  BY DEF ConsoleInv, TypeOK
<1>1. /\ reply'[r] = s /\ reply' \in [Requests -> Reply]
      /\ \A q \in Requests \ {r} : reply'[q] = reply[q]
      /\ \A q \in Requests \ {r} : Answered(q)' <=> Answered(q)
      /\ \A t, seen : Had(t, seen)' <=> Had(t, seen)
      /\ \A t : Exists(t)' <=> Exists(t)
      /\ \A l : LoadFits(l)' <=> LoadFits(l)
  BY <1>0, OneReply
<1> DEFINE After(p) == IF p.request = r THEN [p EXCEPT !.answer = answer] ELSE p
<1>2. pending' = {After(p) : p \in pending} /\ UNCHANGED <<shown, submitting, loads, last>>
  BY DEF Replied
<1>3. ~Answered(r)
  BY DEF Answered
<1>4. ASSUME NEW p \in pending
      PROVE  /\ After(p) \in Pending /\ After(p).request = p.request
             /\ p.request # r => After(p) = p
             /\ p.request = r => After(p).answer = answer
  <2>1. p \in Pending
    BY <1>0 DEF TypeOK
  <2> QED  BY <2>1, AnswerFields
<1> HIDE DEF After
<1>5. TypeOK'
  <2>1. pending' \subseteq Pending
    BY <1>2, <1>4
  <2> QED  BY <1>0, <1>1, <1>2, <2>1 DEF TypeOK
<1>6. RepliesFit'
  <2>1. ASSUME NEW q \in Requests
        PROVE  /\ reply'[q].step = "idle" => reply'[q] = NoReply
               /\ reply'[q].step # "idle" => reply'[q].key = q
               /\ Exists(q)' => reply'[q].step # "idle"
               /\ Answered(q)' => reply'[q].task = q /\ Exists(q)'
    <3>1. CASE q = r
      BY <1>1, <3>1 DEF Had
    <3>2. CASE q # r
      BY <1>0, <1>1, <3>2 DEF RepliesFit
    <3> QED  BY <3>1, <3>2
  <2> QED  BY <2>1 DEF RepliesFit
<1>7. AnswersFit'
  <2>1. ASSUME NEW q \in pending' PROVE PostFits(q)'
    <3>0. PICK p \in pending : q = After(p)
      BY <1>2
    <3>1. p.request \in Requests /\ PostFits(p)
      BY <1>0 DEF TypeOK, Pending, AnswersFit
    <3>2. CASE p.request = r
      <4>1. answer # "open"
        BY TaskServiceAssumption DEF TaskStatus, Final
      <4>2. q.request = r /\ q.answer = answer
        BY <1>4, <3>0, <3>2
      <4>3. /\ reply'[r].step # "idle"
            /\ Answered(r)' <=> answer \notin {"open", "failed"}
            /\ Answered(r)' => Had(r, answer)'
        BY <1>1, <4>1
      <4> QED  BY <4>2, <4>3 DEF PostFits
    <3>3. CASE p.request # r
      <4>1. q = p
        BY <1>4, <3>0, <3>3
      <4> QED  BY <1>1, <3>1, <3>3, <4>1 DEF PostFits
    <3> QED  BY <3>2, <3>3
  <2> QED  BY <1>0, <1>1, <1>2, <2>1 DEF AnswersFit
<1>8. PageFits'
  <2>1. submitting # NoTask => \E p \in pending' : p.request = submitting
    BY <1>0, <1>2, <1>4 DEF PageFits
  <2> QED  BY <1>0, <1>1, <1>2, <1>3, <2>1 DEF PageFits
<1> QED  BY <1>5, <1>6, <1>7, <1>8 DEF ConsoleInv

LEMMA AcceptedKeeps ==
  ASSUME ConsoleInv, NEW r \in Requests, Accepted(r) PROVE ConsoleInv'
<1>0. TypeOK /\ RepliesFit /\ reply \in [Requests -> Reply] /\ reply[r].step = "open"
  BY DEF ConsoleInv, TypeOK, Accepted, Answer
<1>1. reply[r].key = r
  BY <1>0 DEF RepliesFit
<1>2. PICK t \in Under(reply[r].key) :
        reply' = [reply EXCEPT ![r] =
                    State("answered", reply[r].key, IF t = r THEN 202 ELSE 200, t)]
  BY DEF Accepted, Answer
<1>3. t = r /\ Exists(r)
  BY <1>0, <1>1, <1>2, TaskServiceAssumption DEF Under, RepliesFit, NoReply, State
<1> DEFINE s == State("answered", r, 202, r)
<1>4. s \in Reply /\ s.step = "answered" /\ s.key = r /\ s.code = 202 /\ s.task = r
  BY StateFields DEF Codes
<1>5. reply' = [reply EXCEPT ![r] = s]
  BY <1>1, <1>2, <1>3
<1> HIDE DEF s
<1>6. status[r] \in Stages /\ status[r] # "failed"
  BY <1>0, <1>3, TaskServiceAssumption DEF TypeOK, Exists, TaskStatus, Final
<1>7. Replied(r, status[r]) /\ UNCHANGED status
  BY DEF Accepted, Answer
<1>8. Answered(r)'
  BY <1>0, <1>4, <1>5 DEF Answered
<1>9. Had(r, status[r])
  BY <1>3, HasIt
<1> QED  BY <1>0, <1>4, <1>5, <1>6, <1>7, <1>8, <1>9, RepliedKeeps

LEMMA RefusedKeeps ==
  ASSUME ConsoleInv, NEW r \in Requests, Refused(r) PROVE ConsoleInv'
<1>0. TypeOK /\ RepliesFit /\ reply \in [Requests -> Reply] /\ reply[r].step = "open"
  BY DEF ConsoleInv, TypeOK, Refused
<1>1. reply[r].key = r
  BY <1>0 DEF RepliesFit
<1> DEFINE s == State("answered", r, 400, NoTask)
<1>2. s \in Reply /\ s.step = "answered" /\ s.key = r /\ s.code = 400
  BY StateFields DEF Codes
<1>3. reply' = [reply EXCEPT ![r] = s]
  BY <1>0, <1>1 DEF Refused, Failed
<1> HIDE DEF s
<1>4. Replied(r, "failed") /\ UNCHANGED status
  BY DEF Refused, Failed
<1>5. ~Answered(r)'
  BY <1>0, <1>2, <1>3 DEF Answered
<1>6. ASSUME NEW answer, answer = "failed"
      PROVE  ConsoleInv'
  <2>1. /\ answer \in Stages \cup {"failed"} /\ Replied(r, answer)
        /\ Answered(r)' <=> answer # "failed"
        /\ Answered(r)' => s.task = r /\ Had(r, answer)
    BY <1>4, <1>5, <1>6
  <2> QED  BY <1>0, <1>2, <1>3, <1>4, <2>1, RepliedKeeps
<1> QED  BY <1>6

-----------------------------------------------------------------------------
(* The page. *)

Shown == [task: Requests \cup {NoTask}, seen: Stages \cup {"ABSENT"}]

\* A step of the page alone: it drops posts but adds none, and what it takes
\* over it has from an answer that fits.
LEMMA PageKeeps ==
  ASSUME ConsoleInv, UNCHANGED <<status, reply>>,
         pending' \subseteq pending,
         loads' \subseteq Load, \A l \in loads' : LoadFits(l),
         submitting' \in Requests \cup {NoTask},
         submitting' # NoTask => \E p \in pending' : p.request = submitting',
         last' \in Requests \cup {NoTask, Ghost}, last' \in Requests => Answered(last'),
         shown' \in Shown, shown'.task # NoTask => Had(shown'.task, shown'.seen)
  PROVE  ConsoleInv'
<1>0. TypeOK /\ RepliesFit /\ AnswersFit /\ PageFits
  BY DEF ConsoleInv
<1>1. TypeOK'
  BY <1>0 DEF TypeOK, Shown
<1>2. RepliesFit'
  BY <1>0, ApiStands
<1>3. AnswersFit'
  <2>1. ASSUME NEW p \in pending' PROVE PostFits(p)'
    BY <1>0, ApiStands DEF AnswersFit
  <2>2. ASSUME NEW l \in loads' PROVE LoadFits(l)'
    BY ApiStands
  <2> QED  BY <2>1, <2>2 DEF AnswersFit
<1>4. PageFits'
  BY DEF PageFits, Had, Exists, Answered
<1> QED  BY <1>1, <1>2, <1>3, <1>4 DEF ConsoleInv

\* The page before its step.
LEMMA PageBefore ==
  ASSUME ConsoleInv
  PROVE  /\ shown \in Shown /\ (shown.task # NoTask => Had(shown.task, shown.seen))
         /\ shown.task \in Requests \cup {NoTask}
         /\ pending \subseteq Pending /\ \A p \in pending : PostFits(p)
         /\ loads \subseteq Load /\ \A l \in loads : LoadFits(l)
         /\ submitting \in Requests \cup {NoTask}
         /\ submitting # NoTask => \E p \in pending : p.request = submitting
         /\ last \in Requests \cup {NoTask, Ghost} /\ (last \in Requests => Answered(last))
         /\ \A r \in Requests : Answered(r) => reply[r].task = r /\ Exists(r)
  BY DEF ConsoleInv, TypeOK, RepliesFit, AnswersFit, PageFits, Shown

\* The page that shows nothing.
LEMMA NothingShown == Nothing \in Shown /\ Nothing.task = NoTask
  BY DEF Nothing, Shown

\* A load that is sent.
LEMMA AskedFits ==
  ASSUME NEW t \in Requests \cup {Ghost}, t # Ghost => Exists(t)
  PROVE  Asked(t) \in Load /\ LoadFits(Asked(t))
<1>1. Ghost \notin Requests /\ "asked" # "ABSENT"
  BY ConsoleAssumption
<1>2. Asked(t).task = t /\ Asked(t).answer = (IF t = Ghost THEN "ABSENT" ELSE "asked")
  BY DEF Asked
<1>3. Asked(t) \in Load
  BY DEF Asked, Load
<1> QED  BY <1>1, <1>2, <1>3 DEF LoadFits

\* The loads a page begins with.
LEMMA FirstLoadsFit ==
  ASSUME ConsoleInv, NEW address \in Requests \cup {NoTask},
         address # NoTask => Exists(address)
  PROVE  FirstLoads(address, last) \subseteq Load
         /\ \A l \in FirstLoads(address, last) : LoadFits(l)
<1> DEFINE t == IF address # NoTask THEN address ELSE last
<1>1. t \in Requests \cup {NoTask, Ghost} /\ (t \in Requests => Exists(t))
  BY PageBefore
<1>2. FirstLoads(address, last) = IF t = NoTask THEN {} ELSE {Asked(t)}
  BY DEF FirstLoads
<1> HIDE DEF t
<1> QED  BY <1>1, <1>2, AskedFits

\* The request that is over gives the button back, any other does not.
LEMMA ReleasedFits ==
  ASSUME ConsoleInv, NEW p \in pending, pending' = pending \ {p},
         submitting' = Released(p.request)
  PROVE  /\ submitting' \in Requests \cup {NoTask}
         /\ submitting' # NoTask => \E q \in pending' : q.request = submitting'
  BY PageBefore DEF Released

LEMMA CreatedKeeps ==
  ASSUME ConsoleInv, NEW p \in pending, Created(p) PROVE ConsoleInv'
<1>1. /\ p.answer \notin {"open", "failed"} /\ last' = reply[p.request].task
      /\ shown' = IF submitting = p.request
                    THEN [task |-> reply[p.request].task, seen |-> p.answer] ELSE shown
      /\ pending' = pending \ {p} /\ submitting' = Released(p.request)
      /\ UNCHANGED <<status, reply, loads>>
  BY DEF Created
<1>2. /\ p.request \in Requests /\ p.answer \in Stages
      /\ Answered(p.request) /\ Had(p.request, p.answer)
      /\ reply[p.request].task = p.request
  BY <1>1, PageBefore DEF Pending, PostFits
<1>3. [task |-> p.request, seen |-> p.answer] \in Shown
  BY <1>2 DEF Shown
<1>4. shown' \in Shown /\ (shown'.task # NoTask => Had(shown'.task, shown'.seen))
  BY <1>1, <1>2, <1>3, PageBefore
<1> QED  BY <1>1, <1>2, <1>4, PageBefore, ReleasedFits, PageKeeps

LEMMA RejectedKeeps ==
  ASSUME ConsoleInv, NEW p \in pending, Rejected(p) PROVE ConsoleInv'
<1>1. /\ pending' = pending \ {p} /\ submitting' = Released(p.request)
      /\ UNCHANGED <<status, reply, shown, loads, last>>
  BY DEF Rejected
<1> QED  BY <1>1, PageBefore, ReleasedFits, PageKeeps

LEMMA TickKeeps == ASSUME ConsoleInv, Tick PROVE ConsoleInv'
<1>1. /\ shown.task # NoTask /\ loads' = loads \cup {Asked(shown.task)}
      /\ UNCHANGED <<status, reply, shown, submitting, pending, last>>
  BY DEF Tick
<1>2. shown.task \in Requests /\ Exists(shown.task)
  BY <1>1, PageBefore DEF Had
<1>3. Asked(shown.task) \in Load /\ LoadFits(Asked(shown.task))
  BY <1>2, AskedFits
<1> QED  BY <1>1, <1>3, PageBefore, PageKeeps

LEMMA ServeKeeps == ASSUME ConsoleInv, NEW l \in loads, Serve(l) PROVE ConsoleInv'
<1>1. /\ l.answer = "asked" /\ UNCHANGED <<status, reply, shown, submitting, pending, last>>
      /\ loads' = (loads \ {l}) \cup {[l EXCEPT !.answer = status[l.task]]}
  BY DEF Serve
<1>2. l \in Load /\ l.task \in Requests /\ Exists(l.task)
  BY <1>1, PageBefore DEF Load, LoadFits
<1>3. status[l.task] \in Stages /\ status[l.task] # "ABSENT" /\ Had(l.task, status[l.task])
  BY <1>2, HasIt DEF ConsoleInv, TypeOK, Exists
<1> DEFINE new == [l EXCEPT !.answer = status[l.task]]
<1>4. new \in Load /\ new.task = l.task /\ new.answer = status[l.task]
  BY <1>2, <1>3 DEF Load
<1>5. LoadFits(new)
  BY <1>2, <1>3, <1>4, ConsoleAssumption DEF LoadFits
<1> HIDE DEF new
<1>6. loads' \subseteq Load /\ \A k \in loads' : LoadFits(k)
  BY <1>1, <1>4, <1>5, PageBefore DEF new
<1> QED  BY <1>1, <1>6, PageBefore, PageKeeps

LEMMA LoadedKeeps ==
  ASSUME ConsoleInv, NEW l \in loads, Loaded(l) \/ LoadFails(l) PROVE ConsoleInv'
<1>1. /\ l.answer # "asked" /\ loads' = loads \ {l}
      /\ UNCHANGED <<status, reply, submitting, pending>>
  BY DEF Loaded, LoadFails
<1>2. \/ UNCHANGED <<shown, last>>
      \/ last' = NoTask /\ UNCHANGED shown
      \/ /\ l.answer # "ABSENT" /\ UNCHANGED last
         /\ shown' = [task |-> l.task, seen |-> l.answer]
  BY DEF Loaded, LoadFails
<1>3. ASSUME l.answer # "ABSENT", shown' = [task |-> l.task, seen |-> l.answer]
      PROVE  shown' \in Shown /\ Had(shown'.task, shown'.seen)
  <2>1. /\ l.task \in Requests /\ l.answer \in Stages /\ Had(l.task, l.answer)
    BY <1>1, <1>3, PageBefore DEF Load, LoadFits
  <2> QED  BY <1>3, <2>1 DEF Shown
<1>4. shown' \in Shown /\ (shown'.task # NoTask => Had(shown'.task, shown'.seen))
  BY <1>2, <1>3, PageBefore
<1>5. last' \in Requests \cup {NoTask, Ghost} /\ (last' \in Requests => Answered(last'))
  BY <1>2, PageBefore, TaskServiceAssumption
<1> QED  BY <1>1, <1>4, <1>5, PageBefore, PageKeeps

\* A page begins: it shows nothing and waits for nothing.
LEMMA FreshPageKeeps ==
  ASSUME ConsoleInv, UNCHANGED <<status, reply, last>>,
         shown' = Nothing, submitting' = NoTask, pending' \subseteq pending,
         NEW address \in Requests \cup {NoTask}, address # NoTask => Exists(address),
         loads' \subseteq FirstLoads(address, last) \cup loads
  PROVE  ConsoleInv'
<1>1. loads' \subseteq Load /\ \A l \in loads' : LoadFits(l)
  BY FirstLoadsFit, PageBefore
<1> QED  BY <1>1, NothingShown, PageBefore, PageKeeps

LEMMA ReloadKeeps == ASSUME ConsoleInv, Reload PROVE ConsoleInv'
<1>1. PICK address \in {NoTask} \cup {t \in Requests : Exists(t)} :
        /\ shown' = Nothing /\ submitting' = NoTask /\ pending' = {}
        /\ loads' = FirstLoads(address, last) /\ UNCHANGED <<status, reply, last>>
  BY DEF Reload
<1>2. address \in Requests \cup {NoTask} /\ (address # NoTask => Exists(address))
  BY <1>1
<1> QED  BY <1>1, <1>2, FreshPageKeeps

LEMMA FollowKeeps == ASSUME ConsoleInv, NEW t \in Requests, Follow(t) PROVE ConsoleInv'
  BY FreshPageKeeps DEF Follow

-----------------------------------------------------------------------------
\* The page, what it remembers and what is on its way to it agree with the API,
\* however the loads and the posts of one page and the next overtake each other.
THEOREM ConsoleInvariant == Spec => []ConsoleInv
<1>1. Init => ConsoleInv
  <2> SUFFICES ASSUME Init PROVE ConsoleInv
    OBVIOUS
  <2>1. /\ status = [t \in Requests |-> "ABSENT"] /\ reply = [r \in Requests |-> NoReply]
        /\ shown = Nothing /\ submitting = NoTask /\ pending = {}
        /\ last \in {NoTask, Ghost} /\ loads = FirstLoads(NoTask, last)
    BY DEF Init, ServiceInit
  <2>2. NoReply \in Reply /\ NoReply.step = "idle"
    BY StateFields DEF NoReply, Codes
  <2>3. loads = {} \/ loads = {Asked(Ghost)}
    BY <2>1 DEF FirstLoads
  <2>4. loads \subseteq Load /\ \A l \in loads : LoadFits(l)
    BY <2>3, AskedFits
  <2>5. TypeOK
    BY <2>1, <2>2, <2>4, NothingShown DEF TypeOK, Shown
  <2>6. RepliesFit
    BY <2>1, <2>2 DEF RepliesFit, Exists, Answered
  <2>7. AnswersFit
    BY <2>1, <2>4 DEF AnswersFit
  <2>8. PageFits
    BY <2>1, NothingShown, ConsoleAssumption, TaskServiceAssumption DEF PageFits
  <2> QED  BY <2>5, <2>6, <2>7, <2>8 DEF ConsoleInv
<1>2. ConsoleInv /\ [Next]_vars => ConsoleInv'
  <2> SUFFICES ASSUME ConsoleInv, [Next]_vars PROVE ConsoleInv'
    OBVIOUS
  <2>1. CASE UNCHANGED vars
    BY <2>1, PageBefore, PageKeeps DEF vars
  <2>2. ASSUME NEW r \in Requests, Click(r) \/ Accepted(r) \/ Refused(r)
        PROVE  ConsoleInv'
    BY <2>2, ClickKeeps, AcceptedKeeps, RefusedKeeps
  <2>3. ASSUME NEW p \in pending, Created(p) \/ Rejected(p)
        PROVE  ConsoleInv'
    BY <2>3, CreatedKeeps, RejectedKeeps
  <2>4. ASSUME NEW l \in loads, Serve(l) \/ Loaded(l) \/ LoadFails(l)
        PROVE  ConsoleInv'
    BY <2>4, ServeKeeps, LoadedKeeps
  <2> QED  BY <2>1, <2>2, <2>3, <2>4, ElsewhereKeeps, TickKeeps, ReloadKeeps, FollowKeeps
           DEF Next
<1> QED  BY <1>1, <1>2, PTL DEF Spec

\* An end the page shows is the task's end, although an answer that was overtaken
\* may be shown last: no task leaves its end, and none is shown before it has it.
ShownEndIsTrue ==
  shown.task # NoTask /\ shown.seen \in Final => status[shown.task] = shown.seen

THEOREM ShownEndsAreTrue == Spec => []ShownEndIsTrue
<1>1. ConsoleInv => ShownEndIsTrue
  BY DEF ConsoleInv, PageFits, Had, ShownEndIsTrue
<1> QED  BY <1>1, ConsoleInvariant, PTL

\* The console lives with what TaskService promises: every step of it is one of
\* the service's or leaves the service alone.
THEOREM ConsoleFitsService == Spec => ServiceSpec
<1>1. Init => ServiceInit
  BY DEF Init
<1>2. [Next]_vars => [ServiceNext]_serviceVars
  <2> SUFFICES ASSUME [Next]_vars PROVE [ServiceNext]_serviceVars
    OBVIOUS
  <2>1. CASE UNCHANGED <<status, reply>>
    BY <2>1 DEF serviceVars
  <2>2. CASE Elsewhere
    BY <2>2 DEF Elsewhere, ServiceNext, Serving
  <2>3. ASSUME NEW r \in Requests, Click(r) \/ Accepted(r) \/ Refused(r)
        PROVE  ServiceNext
    BY <2>3 DEF Click, Accepted, Refused, ServiceNext, Serving
  <2>4. ASSUME \E p \in pending : Created(p) \/ Rejected(p)
        PROVE  UNCHANGED <<status, reply>>
    BY <2>4 DEF Created, Rejected
  <2>5. ASSUME \E l \in loads : Serve(l) \/ Loaded(l) \/ LoadFails(l)
        PROVE  UNCHANGED <<status, reply>>
    BY <2>5 DEF Serve, Loaded, LoadFails
  <2>6. Tick \/ Reload \/ (\E t \in Requests : Follow(t)) => UNCHANGED <<status, reply>>
    BY DEF Tick, Reload, Follow
  <2>7. UNCHANGED vars => UNCHANGED <<status, reply>>
    BY DEF vars
  <2> QED  BY <2>1, <2>2, <2>3, <2>4, <2>5, <2>6, <2>7 DEF Next
<1> QED  BY <1>1, <1>2, PTL DEF Spec, ServiceSpec

-----------------------------------------------------------------------------
(* The promise of the service. *)

\* The task a reply names exists under the key of the request.
NamesATask(r) ==
  /\ reply[r].task \in Requests /\ Exists(reply[r].task)
  /\ reply[reply[r].task].key = reply[r].key
  /\ reply[r].code = 202 => reply[r].task = r

\* What makes the replies agree: a task exists under a key its own request was
\* posted with, no other does under that key, and a good reply names it and says
\* "new" exactly for the request's own.
ServiceInv ==
  /\ status \in [Requests -> TaskStatus \cup {"ABSENT"}]
  /\ reply \in [Requests -> Reply]
  /\ \A t \in Requests : Exists(t) => reply[t].step # "idle"
  /\ \A t, u \in Requests :
       Exists(t) /\ Exists(u) /\ reply[t].key = reply[u].key => t = u
  /\ \A r \in Requests : Answered(r) => NamesATask(r)

\* A request moves on without a task being made: none is lost, none renamed.
LEMMA ReplyKeeps ==
  ASSUME ServiceInv, UNCHANGED status, reply' \in [Requests -> Reply],
         \A r \in Requests :
           \/ reply'[r] = reply[r]
           \/ /\ reply[r].step = "idle" /\ reply'[r].step = "open"
           \/ /\ reply[r].step = "open" /\ reply'[r].step = "answered"
              /\ reply'[r].key = reply[r].key
              /\ Answered(r)' => /\ reply'[r].task \in Under(reply[r].key)
                                 /\ reply'[r].code = 202 => reply'[r].task = r
  PROVE  ServiceInv'
<1>1. \A t \in Requests : Exists(t)' <=> Exists(t)
  BY DEF Exists
<1>2. \A t \in Requests : Exists(t) => reply'[t].key = reply[t].key /\ reply'[t].step # "idle"
  BY DEF ServiceInv
<1>3. ASSUME NEW r \in Requests, Answered(r)'
      PROVE  NamesATask(r)'
  <2>1. CASE reply'[r] = reply[r]
    <3>1. NamesATask(r)
      BY <1>3, <2>1 DEF Answered, ServiceInv
    <3> QED  BY <1>1, <1>2, <2>1, <3>1 DEF NamesATask
  <2>2. CASE reply'[r] # reply[r]
    <3>1. /\ reply'[r].key = reply[r].key
          /\ reply'[r].task \in Under(reply[r].key) /\ (reply'[r].code = 202 => reply'[r].task = r)
      BY <1>3, <2>2 DEF Answered
    <3> QED  BY <1>1, <1>2, <3>1 DEF NamesATask, Under
  <2> QED  BY <2>1, <2>2
<1>4. /\ \A t \in Requests : Exists(t)' => reply'[t].step # "idle"
      /\ \A t, u \in Requests :
           Exists(t)' /\ Exists(u)' /\ reply'[t].key = reply'[u].key => t = u
  BY <1>1, <1>2 DEF ServiceInv
<1> QED  BY <1>3, <1>4 DEF ServiceInv

\* Whatever handler implements the service: all good replies to one
\* clientRequestId name one task, and at most one of them calls it new.
THEOREM ServiceRepliesAgree == ServiceSpec => []RepliesAgree
<1>1. ServiceInit => ServiceInv
  <2> SUFFICES ASSUME ServiceInit PROVE ServiceInv
    OBVIOUS
  <2>1. NoReply \in Reply /\ NoReply.step = "idle"
    BY StateFields DEF NoReply, Codes
  <2> QED  BY <2>1 DEF ServiceInit, ServiceInv, Exists, Answered
<1>2. ServiceInv /\ [ServiceNext]_serviceVars => ServiceInv'
  <2> SUFFICES ASSUME ServiceInv, [ServiceNext]_serviceVars PROVE ServiceInv'
    OBVIOUS
  <2>0. /\ status \in [Requests -> TaskStatus \cup {"ABSENT"}] /\ reply \in [Requests -> Reply]
        /\ \A t, u \in Requests :
             Exists(t) /\ Exists(u) /\ reply[t].key = reply[u].key => t = u
    BY DEF ServiceInv
  <2>1. ASSUME NEW r \in Requests, NEW key \in Requests, Post(r, key)
        PROVE  ServiceInv'
    <3>1. /\ reply[r].step = "idle" /\ UNCHANGED status
          /\ reply' = [reply EXCEPT ![r] = State("open", key, 0, NoTask)]
      BY <2>1 DEF Post
    <3>2. State("open", key, 0, NoTask) \in Reply /\ State("open", key, 0, NoTask).step = "open"
      BY StateFields DEF Codes
    <3> QED  BY <2>0, <3>1, <3>2, ReplyKeeps
  <2>2. ASSUME NEW r \in Requests, Answer(r)
        PROVE  ServiceInv'
    <3>1. reply[r].step = "open" /\ UNCHANGED status
      BY <2>2 DEF Answer
    <3>2. PICK t \in Under(reply[r].key) :
            reply' = [reply EXCEPT ![r] =
                        State("answered", reply[r].key, IF t = r THEN 202 ELSE 200, t)]
      BY <2>2 DEF Answer
    <3> DEFINE code == IF t = r THEN 202 ELSE 200
               s == State("answered", reply[r].key, code, t)
    <3>3. code \in Codes /\ t \in Requests /\ (code = 202 => t = r)
      BY DEF Codes, Under
    <3> HIDE DEF code
    <3>4. /\ s \in Reply /\ s.step = "answered" /\ s.key = reply[r].key
          /\ s.code = code /\ s.task = t
      BY <2>0, <3>3, ReplyFields, StateFields
    <3>5. reply' = [reply EXCEPT ![r] = s]
      BY <3>2 DEF code
    <3> HIDE DEF s
    <3> QED  BY <2>0, <3>1, <3>3, <3>4, <3>5, ReplyKeeps
  <2>3. ASSUME NEW rs \in SUBSET Requests, Failed(rs)
        PROVE  ServiceInv'
    <3>1. ASSUME NEW r \in Requests
          PROVE  LET s == State("answered", reply[r].key, 400, NoTask)
                 IN  /\ s \in Reply /\ s.step = "answered" /\ s.key = reply[r].key
                     /\ s.code = 400
      BY <2>0, ReplyFields, StateFields DEF Codes
    <3>2. /\ UNCHANGED status
          /\ reply' = [r \in Requests |->
                IF r \in rs /\ reply[r].step = "open"
                  THEN State("answered", reply[r].key, 400, NoTask) ELSE reply[r]]
      BY <2>3 DEF Failed
    <3>3. reply' \in [Requests -> Reply]
      BY <2>0, <3>1, <3>2
    <3>4. ASSUME NEW r \in Requests
          PROVE  \/ reply'[r] = reply[r]
                 \/ /\ reply[r].step = "open" /\ reply'[r].step = "answered"
                    /\ reply'[r].key = reply[r].key /\ ~Answered(r)'
      BY <3>1, <3>2 DEF Answered
    <3> QED  BY <3>2, <3>3, <3>4, ReplyKeeps
  <2>4. ASSUME NEW r \in Requests, Create(r)
        PROVE  ServiceInv'
    <3>1. /\ reply[r].step = "open" /\ Under(reply[r].key) = {} /\ UNCHANGED reply
          /\ status' = [status EXCEPT ![r] = "QUEUED"]
      BY <2>4 DEF Create
    <3>2. ASSUME NEW t \in Requests, Exists(t) PROVE Exists(t)' /\ reply[t].key # reply[r].key
      BY <2>0, <3>1, <3>2 DEF Exists, Under
    <3>3. \A t \in Requests : Exists(t)' <=> Exists(t) \/ t = r
      BY <2>0, <3>1 DEF Exists
    <3>4. status' \in [Requests -> TaskStatus \cup {"ABSENT"}]
      BY <2>0, <3>1 DEF TaskStatus
    <3>6. \A q \in Requests : Answered(q)' <=> Answered(q)
      BY <3>1 DEF Answered
    <3>7. \A t, u \in Requests :
             Exists(t)' /\ Exists(u)' /\ reply[t].key = reply[u].key => t = u
      BY <2>0, <3>2, <3>3
    <3>8. ASSUME NEW q \in Requests, Answered(q)'
          PROVE  NamesATask(q)'
      BY <3>1, <3>3, <3>6, <3>8 DEF ServiceInv, NamesATask
    <3> QED  BY <2>0, <3>1, <3>3, <3>4, <3>7, <3>8 DEF ServiceInv
  <2>5. ASSUME NEW r \in Requests, Move(r)
        PROVE  ServiceInv'
    <3>1. PICK next \in Stages : <<status[r], next>> \in Moves
                                 /\ status' = [status EXCEPT ![r] = next]
      BY <2>5 DEF Move
    <3>2. UNCHANGED reply
      BY <2>5 DEF Move
    <3>3. status[r] # "ABSENT" /\ next # "ABSENT" /\ next \in TaskStatus
      BY <3>1, MovesGoOn, TaskServiceAssumption
    <3>4. \A t \in Requests : Exists(t)' <=> Exists(t)
      BY <2>0, <3>1, <3>3 DEF Exists
    <3>5. status' \in [Requests -> TaskStatus \cup {"ABSENT"}]
      BY <2>0, <3>1, <3>3
    <3> QED  BY <2>0, <3>2, <3>4, <3>5 DEF ServiceInv, Answered, NamesATask
  <2>6. CASE UNCHANGED serviceVars
    BY <2>6 DEF serviceVars, ServiceInv, Exists, Answered, NamesATask
  <2> QED  BY <2>1, <2>2, <2>3, <2>4, <2>5, <2>6 DEF ServiceNext, Serving
<1>3. ServiceInv => RepliesAgree
  <2> SUFFICES ASSUME ServiceInv, NEW r \in Requests, NEW q \in Requests,
                      Answered(r), Answered(q), reply[r].key = reply[q].key
               PROVE  /\ reply[r].task = reply[q].task
                      /\ reply[r].code = 202 /\ reply[q].code = 202 => r = q
    BY DEF RepliesAgree
  <2>1. reply[r].task = reply[q].task
    BY DEF ServiceInv, NamesATask
  <2> QED  BY <2>1 DEF ServiceInv, NamesATask
<1> QED  BY <1>1, <1>2, <1>3, PTL DEF ServiceSpec
=============================================================================
