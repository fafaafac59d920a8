----------------------------- MODULE BridgeRuntime -----------------------------
(***************************************************************************)
(* How sdk_runtime.py shares one SDK client among the threads of the HTTP  *)
(* server.  To observe a create it replaces the client's `send` by a       *)
(* closure around the `send` it found, to check a download it replaces     *)
(* `requests.get` likewise, and puts back what it found.  The SDK is used  *)
(* under one lock; the function to wrap is read before the lock is taken.  *)
(*                                                                         *)
(* A patched function is the sequence of the requests whose closures wrap  *)
(* the original, the outermost first; <<>> is the original.                *)
(***************************************************************************)
EXTENDS Naturals, Sequences, SequencesExt

CONSTANTS Creates,     \* create requests, each with a thread of its own
          Downloads,   \* download requests
          NoOne        \* the lock is free

ASSUME BridgeRuntimeAssumption ==
  /\ Creates \cap Downloads = {}
  /\ NoOne \notin Creates \cup Downloads

VARIABLES send,        \* secure_http_client.send
          get,         \* requests.get
          lock,        \* the request that holds _lock, or NoOne
          create,      \* create[c]: the create request c
          download     \* download[d]: the download request d

vars == <<send, get, lock, create, download>>

\* How a create went: nothing sent by the SDK, no connection, no answer, or an
\* answer.  What the capture notes of it is its diagnostic.
Outcomes == {"none", "notSent", "lost", "ok", "rejected", "error"}
Verdicts == {"none", "id", "notCreated", "unknown"}

Create == [step: {"idle", "read", "locked", "sent", "raised", "returned", "done"},
           original: Seq(Creates), outcome: Outcomes, made: BOOLEAN, raised: BOOLEAN,
           diagnostic: Outcomes, verdict: Verdicts]
NewCreate == [step |-> "idle", original |-> <<>>, outcome |-> "none", made |-> FALSE,
              raised |-> FALSE, diagnostic |-> "none", verdict |-> "none"]

Download == [step: {"idle", "query", "read", "target", "waiting", "locked", "done"},
             original: Seq(Downloads), answer: {"none", "served", "remote", "broken"}]
NewDownload == [step |-> "idle", original |-> <<>>, answer |-> "none"]

Init == /\ send = <<>> /\ get = <<>>
        /\ lock = NoOne
        /\ create = [c \in Creates |-> NewCreate]
        /\ download = [d \in Downloads |-> NewDownload]

-----------------------------------------------------------------------------
(* create_task. *)

ReadSend(c) ==
  /\ create[c].step = "idle"
  /\ create' = [create EXCEPT ![c].step = "read", ![c].original = send]
  /\ UNCHANGED <<send, get, lock, download>>

PatchSend(c) ==
  /\ create[c].step = "read"
  /\ lock = NoOne
  /\ lock' = c
  /\ send' = <<c>> \o create[c].original
  /\ create' = [create EXCEPT ![c].step = "locked"]
  /\ UNCHANGED <<get, download>>

\* Whether the Provider made a task, by outcome.
MayMake(outcome) == CASE outcome = "ok" -> {TRUE}
                      [] outcome \in {"lost", "error"} -> BOOLEAN
                      [] OTHER -> {FALSE}

\* The SDK sends the request through the patched `send`.  Every closure on the
\* way notes the outcome in its own request's diagnostic.
Send(c) ==
  /\ create[c].step = "locked"
  /\ \E outcome \in Outcomes, raised \in BOOLEAN : \E made \in MayMake(outcome) :
       /\ create' = [d \in Creates |->
            LET noted == IF outcome # "none" /\ d \in ToSet(send)
                           THEN [create[d] EXCEPT !.diagnostic = outcome] ELSE create[d]
            IN IF d # c THEN noted
               ELSE [noted EXCEPT !.step = IF raised THEN "raised" ELSE "sent",
                       !.outcome = outcome, !.made = made, !.raised = raised]]
  /\ UNCHANGED <<send, get, lock, download>>

\* _raise_create_error, and app.py's choice between mark_not_created and
\* mark_unknown.  Without a diagnostic the exception itself decides.
RaisedVerdicts(diagnostic) ==
  CASE diagnostic = "none" -> {"notCreated", "unknown"}
    [] diagnostic \in {"notSent", "rejected"} -> {"notCreated"}
    [] OTHER -> {"unknown"}

\* Mutant: the lock is given up before the exception is classified.
UnlockThenClassify(c) ==
  /\ \/ /\ create[c].step = "raised" /\ lock = c
        /\ send' = create[c].original /\ lock' = NoOne
        /\ UNCHANGED create
     \/ /\ create[c].step = "raised" /\ lock # c
        /\ \E verdict \in RaisedVerdicts(create[c].diagnostic) :
             create' = [create EXCEPT ![c].step = "done", ![c].verdict = verdict]
        /\ UNCHANGED <<send, lock>>
  /\ UNCHANGED <<get, download>>

\* An exception is classified under the lock, then `send` is restored.
ClassifyRaised(c) ==
  /\ create[c].step = "raised"
  /\ \E verdict \in RaisedVerdicts(create[c].diagnostic) :
       create' = [create EXCEPT ![c].step = "done", ![c].verdict = verdict]
  /\ send' = create[c].original
  /\ lock' = NoOne
  /\ UNCHANGED <<get, download>>

RestoreSend(c) ==
  /\ create[c].step = "sent"
  /\ send' = create[c].original
  /\ lock' = NoOne
  /\ create' = [create EXCEPT ![c].step = "returned"]
  /\ UNCHANGED <<get, download>>

\* A returned call is classified after the lock is released: by the status of
\* the answer, then by the identifier.
ReturnedVerdict(diagnostic, id) ==
  CASE diagnostic = "rejected" -> "notCreated"
    [] diagnostic \in {"notSent", "lost", "error"} -> "unknown"
    [] OTHER -> IF id THEN "id" ELSE "unknown"

ClassifyReturned(c) ==
  /\ create[c].step = "returned"
  /\ create' = [create EXCEPT ![c].step = "done",
       ![c].verdict = ReturnedVerdict(create[c].diagnostic, create[c].outcome = "ok")]
  /\ UNCHANGED <<send, get, lock, download>>

-----------------------------------------------------------------------------
(* download_output. *)

\* query_task, under the lock; the output may not be ready.
QueryTask(d) ==
  /\ download[d].step = "idle"
  /\ lock = NoOne
  /\ lock' = d
  /\ download' = [download EXCEPT ![d].step = "query"]
  /\ UNCHANGED <<send, get, create>>

\* Mutant: the lock is kept until the download takes it.
QueriedKeepsLock(d) ==
  /\ download[d].step = "query"
  /\ download' = [download EXCEPT ![d].step = "target"]
  /\ UNCHANGED <<send, get, lock, create>>

Queried(d) ==
  /\ download[d].step = "query"
  /\ lock' = NoOne
  /\ \/ download' = [download EXCEPT ![d].step = "target"]
     \/ download' = [download EXCEPT ![d].step = "done", ![d].answer = "remote"]
  /\ UNCHANGED <<send, get, create>>

\* The target is resolved and checked; then the function to wrap is read.
ReadGet(d) ==
  /\ download[d].step = "target"
  /\ \/ download' = [download EXCEPT ![d].step = "read", ![d].original = get]
     \/ download' = [download EXCEPT ![d].step = "done", ![d].answer = "remote"]
  /\ UNCHANGED <<send, get, lock, create>>

PatchGet(d) ==
  /\ download[d].step = "read"
  /\ lock = NoOne
  /\ lock' = d
  /\ get' = <<d>> \o download[d].original
  /\ download' = [download EXCEPT ![d].step = "locked"]
  /\ UNCHANGED <<send, create>>

\* The SDK downloads through the patched `get`.  A closure that wraps another
\* one is handed a _LimitedResponse, which has no status_code: it raises.
Fetch(d) ==
  /\ download[d].step = "locked"
  /\ \E answer \in IF Len(get) = 1 THEN {"served", "remote"} ELSE {"broken", "remote"} :
       download' = [download EXCEPT ![d].step = "done", ![d].answer = answer]
  /\ get' = download[d].original
  /\ lock' = NoOne
  /\ UNCHANGED <<send, create>>

-----------------------------------------------------------------------------
CreateStep(c) == \/ PatchSend(c) \/ Send(c) \/ ClassifyRaised(c)
                 \/ RestoreSend(c) \/ ClassifyReturned(c)
DownloadStep(d) == Queried(d) \/ ReadGet(d) \/ PatchGet(d) \/ Fetch(d)

Next == \/ \E c \in Creates : ReadSend(c) \/ CreateStep(c)
        \/ \E d \in Downloads : QueryTask(d) \/ DownloadStep(d)

Spec == Init /\ [][Next]_vars

\* A thread that runs goes on; a lock that is free again and again is given to
\* each thread that waits for it.
Fairness == /\ \A c \in Creates : SF_vars(CreateStep(c))
            /\ \A d \in Downloads : SF_vars(DownloadStep(d))

FairSpec == Spec /\ Fairness
-----------------------------------------------------------------------------
TypeOK ==
  /\ send \in Seq(Creates) /\ get \in Seq(Downloads)
  /\ lock \in Creates \cup Downloads \cup {NoOne}
  /\ create \in [Creates -> Create]
  /\ download \in [Downloads -> Download]

Inside(c) == create[c].step \in {"locked", "sent", "raised"}

\* Somebody holds the lock exactly as long as he is inside the SDK: nobody else
\* is, and nobody leaves without giving the lock up.  The closures in use are
\* those of the holder, over what he found.
HolderIsOutermost ==
  /\ \A c \in Creates : Inside(c) <=> lock = c
  /\ \A c \in Creates : Inside(c) => send = <<c>> \o create[c].original
  /\ \A d \in Downloads : download[d].step \in {"query", "locked"} <=> lock = d
  /\ \A d \in Downloads :
       download[d].step = "locked" => get = <<d>> \o download[d].original

\* A closure exists only once its request has held the lock, and nothing is
\* noted or reported before there is something to.
NotYetWrapped ==
  \A c \in Creates :
    /\ create[c].step = "idle" => create[c] = NewCreate
    /\ create[c].step \in {"idle", "read"} =>
         c \notin ToSet(send) /\ \A d \in Creates : c \notin ToSet(create[d].original)
    /\ create[c].step \in {"idle", "read", "locked"} =>
         /\ create[c].outcome = "none" /\ create[c].diagnostic = "none"
         /\ ~create[c].made /\ ~create[c].raised
    /\ create[c].step \in {"sent", "returned"} => ~create[c].raised
    /\ create[c].step # "done" => create[c].verdict = "none"

\* Another create took c's closure for the SDK's own `send`.
Wrapped(c) == \E d \in Creates \ {c} : c \in ToSet(create[d].original)

\* A diagnostic is that of its own request's call while that holds the lock,
\* however many other requests wrap or are wrapped by its closure; afterwards
\* only a create that took its closure can have changed it.
DiagnosticIsOwn ==
  \A c \in Creates :
    /\ create[c].diagnostic = create[c].outcome \/ (Wrapped(c) /\ ~Inside(c))
    /\ create[c].made => create[c].outcome \in {"ok", "lost", "error"}

\* A create whose call raised is reported as not created only when it was: the
\* exception is judged by the request's own outcome, whatever other requests'
\* closures are in the way.
FailuresAreTheirOwn ==
  \A c \in Creates :
    create[c].raised /\ create[c].verdict = "notCreated" => ~create[c].made

\* A wrong "not created" needs a second create that read `send` while the
\* closure of the first was in place.
WrongOnlyIfWrapped ==
  \A c \in Creates :
    create[c].verdict = "notCreated" /\ create[c].made => Wrapped(c)

\* A download breaks exactly for having taken another's closure for requests.get;
\* what is left of a finished download never spoils one that took the original.
BrokenOnlyIfWrapped ==
  \A d \in Downloads :
    /\ download[d].answer = "broken" => download[d].original # <<>>
    /\ download[d].answer = "served" => download[d].original = <<>>
    /\ download[d].step # "done" => download[d].answer = "none"

\* The inductive invariant.
RuntimeInv == /\ TypeOK /\ HolderIsOutermost /\ NotYetWrapped /\ DiagnosticIsOwn
              /\ FailuresAreTheirOwn /\ WrongOnlyIfWrapped /\ BrokenOnlyIfWrapped

\* Every request that started is answered: no thread waits for a lock that is
\* never given up, its own included.
RequestsEnd ==
  /\ \A c \in Creates : create[c].step = "read" ~> create[c].step = "done"
  /\ \A d \in Downloads : download[d].step = "query" ~> download[d].step = "done"

\* A create is reported as not created only when it was.
NotCreatedIsTrue ==
  \A c \in Creates : create[c].verdict = "notCreated" => ~create[c].made
=============================================================================
