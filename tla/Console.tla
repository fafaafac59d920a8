------------------------------- MODULE Console --------------------------------
(***************************************************************************)
(* The web console of web/src/app/page.tsx on top of TaskService: one      *)
(* browser tab that creates tasks, remembers the last one in localStorage, *)
(* loads the task it shows again and again, and is reloaded or left at any *)
(* time.                                                                   *)
(*                                                                         *)
(* A load is one GET /api/tasks/:taskId.  The loads of one page overlap,   *)
(* since the timer does not wait for the one before, and their answers     *)
(* come in any order.                                                      *)
(***************************************************************************)
EXTENDS TaskService

CONSTANTS Ghost,      \* an id of a task the database no longer has
          MaxLoads    \* bound: loads on their way at a time

ASSUME ConsoleAssumption ==
  /\ Ghost \notin Requests \cup {NoTask}
  /\ MaxLoads \in Nat \ {0}

VARIABLES shown,       \* the `task` of the page and its status in it
          submitting,  \* the request the disabled button stands for
          pending,     \* the requests whose answer may still come to this tab
          loads,       \* the loads on their way, with their answer
          last         \* seedance:lastTaskId

vars == <<status, reply, shown, submitting, pending, loads, last>>

\* "asked": the API has not looked yet; "ABSENT": a 404, which is all the Ghost
\* ever gets.
Load == [task: Requests \cup {Ghost}, answer: Stages \cup {"asked", "ABSENT"}]
Asked(t) == [task |-> t, answer |-> IF t = Ghost THEN "ABSENT" ELSE "asked"]

\* The status an answer carries, once there is one.
Pending == [request: Requests, answer: Stages \cup {"open", "failed"}]

Nothing == [task |-> NoTask, seen |-> "ABSENT"]

\* The statuses after which the page does not load again.
StatusesOnceTaken == {"SUBMITTING", "SUCCEEDED", "FAILED", "CANCELLED", "EXPIRED",
                      "RECONCILIATION_REQUIRED"}
TerminalStatuses == {"SUCCEEDED", "FAILED", "CANCELLED", "EXPIRED", "RECONCILIATION_REQUIRED"}

\* The first effect of a page: the task of the address (?task=), or else the
\* remembered one.
FirstLoads(address, remembered) ==
  LET t == IF address # NoTask THEN address ELSE remembered
  IN  IF t = NoTask THEN {} ELSE {Asked(t)}

Init == /\ ServiceInit
        /\ shown = Nothing
        /\ submitting = NoTask
        /\ pending = {}
        /\ last \in {NoTask, Ghost}
        /\ loads = FirstLoads(NoTask, last)

-----------------------------------------------------------------------------
(* createTask. *)

\* The button draws a new clientRequestId every time.
Click(r) == /\ submitting = NoTask
            /\ Post(r, r)
            /\ submitting' = r
            /\ pending' = pending \cup {[request |-> r, answer |-> "open"]}
            /\ UNCHANGED <<shown, loads, last>>

\* The API answers, with the status it reads then, or fails.
Replied(r, answer) ==
  /\ pending' = {IF p.request = r THEN [p EXCEPT !.answer = answer] ELSE p : p \in pending}
  /\ UNCHANGED <<shown, submitting, loads, last>>
Accepted(r) == Answer(r) /\ Replied(r, status[r])
Refused(r) == Failed({r}) /\ reply[r].step = "open" /\ Replied(r, "failed")

\* The `finally` of createTask, on the page that is still there.
ReleasedIfCreated(r) ==
  IF submitting = r /\ Answered(r) THEN NoTask ELSE submitting
Released(r) == IF submitting = r THEN NoTask ELSE submitting

\* The answer arrives; the page it was asked from may have been left, then only
\* the memory is written.
Created(p) ==
  /\ p.answer \notin {"open", "failed"}
  /\ last' = reply[p.request].task
  /\ shown' = IF submitting = p.request
                THEN [task |-> reply[p.request].task, seen |-> p.answer] ELSE shown
  /\ pending' = pending \ {p}
  /\ submitting' = Released(p.request)
  /\ UNCHANGED <<status, reply, loads>>

\* An error arrives; or the connection breaks and fetch rejects, while the
\* handler goes on.
Rejected(p) ==
  /\ pending' = pending \ {p}
  /\ submitting' = Released(p.request)
  /\ UNCHANGED <<status, reply, shown, loads, last>>

-----------------------------------------------------------------------------
(* loadTask. *)

\* The timer, as long as the task on the page has not stopped.
Tick == /\ shown.task # NoTask /\ shown.seen \notin TerminalStatuses
        /\ Cardinality(loads) < MaxLoads
        /\ loads' = loads \cup {Asked(shown.task)}
        /\ UNCHANGED <<status, reply, shown, submitting, pending, last>>

\* The API reads the row.
Serve(l) ==
  /\ l.answer = "asked"
  /\ loads' = (loads \ {l}) \cup {[l EXCEPT !.answer = status[l.task]]}
  /\ UNCHANGED <<status, reply, shown, submitting, pending, last>>

\* The answer is shown, whatever the page shows by then; a 404 clears the
\* memory, whatever is remembered by then.
Loaded(l) ==
  /\ l.answer # "asked"
  /\ loads' = loads \ {l}
  /\ IF l.answer = "ABSENT"
       THEN last' = NoTask /\ UNCHANGED shown
       ELSE shown' = [task |-> l.task, seen |-> l.answer] /\ UNCHANGED last
  /\ UNCHANGED <<status, reply, submitting, pending>>

\* An error of a load is swallowed, wherever it happened.
LoadFails(l) == /\ l.answer # "asked"
                /\ loads' = loads \ {l}
                /\ UNCHANGED <<status, reply, shown, submitting, pending, last>>

-----------------------------------------------------------------------------
(* The page starts again. *)

\* The browser loads its address, which may be a link kept from the history
\* page: what was on its way is dropped.
Reload == \E address \in {NoTask} \cup {t \in Requests : Exists(t)} :
            /\ shown' = Nothing
            /\ submitting' = NoTask
            /\ pending' = {}
            /\ loads' = FirstLoads(address, last)
            /\ UNCHANGED <<status, reply, last>>

\* A link of the history page is followed: requests go on without their page.
\* (Their answers to loads are shown to nobody; a 404 still clears the memory.)
Follow(t) == /\ Exists(t)
             /\ shown' = Nothing
             /\ submitting' = NoTask
             /\ loads' = FirstLoads(t, last) \cup {l \in loads : l.task = Ghost}
             /\ UNCHANGED <<status, reply, pending, last>>

-----------------------------------------------------------------------------
\* Tasks are created and go on.
Elsewhere == /\ \E r \in Requests : Create(r) \/ Move(r)
             /\ UNCHANGED <<shown, submitting, pending, loads, last>>

Next == \/ Elsewhere
        \/ \E r \in Requests : Click(r) \/ Accepted(r) \/ Refused(r)
        \/ \E p \in pending : Created(p) \/ Rejected(p)
        \/ Tick
        \/ \E l \in loads : Serve(l) \/ Loaded(l) \/ LoadFails(l)
        \/ Reload
        \/ \E t \in Requests : Follow(t)

Arrives(r) == \E p \in pending : /\ p.request = r /\ p.answer # "open"
                                 /\ Created(p) \/ Rejected(p)

\* The API answers, answers arrive, the browser runs its timer and its callbacks, and not every
\* load fails.
Fairness ==
  /\ \A r \in Requests : WF_vars(Accepted(r) \/ Refused(r)) /\ WF_vars(Arrives(r))
  /\ WF_vars(Tick)
  /\ \A t \in Requests : /\ WF_vars(\E l \in loads : l.task = t /\ Serve(l))
                         /\ SF_vars(\E l \in loads : l.task = t /\ Loaded(l))

Spec == Init /\ [][Next]_vars /\ Fairness

-----------------------------------------------------------------------------
TypeOK == /\ status \in [Requests -> Stages \cup {"ABSENT"}]
          /\ reply \in [Requests -> Reply]
          /\ shown \in [task: Requests \cup {NoTask}, seen: Stages \cup {"ABSENT"}]
          /\ submitting \in Requests \cup {NoTask}
          /\ pending \subseteq Pending
          /\ loads \subseteq Load
          /\ last \in Requests \cup {NoTask, Ghost}

\* A request of this tab has a key of its own and so a task of its own.
RepliesFit ==
  \A r \in Requests :
    /\ reply[r].step = "idle" => reply[r] = NoReply
    /\ reply[r].step # "idle" => reply[r].key = r
    /\ Exists(r) => reply[r].step # "idle"
    /\ Answered(r) => reply[r].task = r /\ Exists(r)

\* A status that task t has or had.
Had(t, seen) == /\ Exists(t)
                /\ seen \in Final => status[t] = seen
                /\ status[t] = "SUBMITTING" => seen \in {"QUEUED", "SUBMITTING"}
                /\ status[t] = "QUEUED" => seen = "QUEUED"

\* What is on its way to the page: an answer tells of a task that exists, and
\* a 404 is only ever the Ghost's.
PostFits(p) == /\ reply[p.request].step # "idle"
               /\ Answered(p.request) <=> p.answer \notin {"open", "failed"}
               /\ Answered(p.request) => Had(p.request, p.answer)
LoadFits(l) == /\ l.task = Ghost <=> l.answer = "ABSENT"
               /\ l.task # Ghost => Exists(l.task)
               /\ l.task # Ghost /\ l.answer # "asked" => Had(l.task, l.answer)
AnswersFit == /\ \A p \in pending : PostFits(p)
              /\ \A l \in loads : LoadFits(l)

\* The page agrees with the API: the button waits for a request of this tab,
\* what is remembered was acknowledged, and what is shown of a task is a status
\* it has or had; an end, in particular, is the end, whatever overtook what.
PageFits == /\ submitting # NoTask => \E p \in pending : p.request = submitting
            /\ last \in Requests => Answered(last)
            /\ shown.task # NoTask => Had(shown.task, shown.seen)

\* The inductive invariant.
ConsoleInv == TypeOK /\ RepliesFit /\ AnswersFit /\ PageFits

\* The button comes back, whatever happens to its request.
ButtonReturns == submitting # NoTask ~> submitting = NoTask

\* When the task on the page ends, the page comes to say so, unless it shows
\* another task by then, or has stopped for an operator before: no order of the
\* loads' answers leaves it waiting for ever.
EndIsShown ==
  \A t \in Requests :
    (shown.task = t /\ status[t] \in Final)
      ~> (shown.task # t \/ shown.seen \in Final \cup {"RECONCILIATION_REQUIRED"})
=============================================================================
