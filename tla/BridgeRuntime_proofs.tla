------------------------- MODULE BridgeRuntime_proofs -------------------------
(***************************************************************************)
(* Proofs about BridgeRuntime, for every number of creates and downloads,  *)
(* however their closures nest.  RuntimeInv is inductive; who may be       *)
(* inside the SDK, which verdicts are true and what it takes to make one   *)
(* wrong follow from it.                                                   *)
(***************************************************************************)
EXTENDS BridgeRuntime, TLAPS

-----------------------------------------------------------------------------
(* Closures. *)

\* The closures of a function that is patched once more.
LEMMA ToSetOfPatched ==
  ASSUME NEW S, NEW e \in S, NEW s \in Seq(S)
  PROVE  /\ <<e>> \o s \in Seq(S)
         /\ Len(<<e>> \o s) = Len(s) + 1
         /\ ToSet(<<e>> \o s) = {e} \cup ToSet(s)
<1> DEFINE t == <<e>> \o s
<1>1. /\ t \in Seq(S) /\ Len(t) = Len(s) + 1
      /\ t[1] = e
      /\ \A i \in 1..Len(s) : t[i + 1] = s[i]
  OBVIOUS
<1>2. Len(s) \in Nat /\ DOMAIN s = 1..Len(s) /\ DOMAIN t = 1..(Len(s) + 1)
  BY <1>1
<1> HIDE DEF t
<1>3. ASSUME NEW x \in ToSet(t)
      PROVE  x \in {e} \cup ToSet(s)
  <2>1. PICK i \in 1..(Len(s) + 1) : x = t[i]
    BY <1>2, Zenon DEF ToSet
  <2>2. CASE i = 1
    BY <1>1, <2>1, <2>2
  <2>3. CASE i # 1
    <3>1. i - 1 \in 1..Len(s) /\ i = (i - 1) + 1
      BY <1>2, <2>1, <2>3
    <3>2. x = s[i - 1]
      BY <1>1, <2>1, <3>1
    <3> QED  BY <1>2, <3>1, <3>2, Zenon DEF ToSet
  <2> QED  BY <2>2, <2>3
<1>4. ASSUME NEW x \in ToSet(s)
      PROVE  x \in ToSet(t)
  <2>1. PICK i \in 1..Len(s) : x = s[i]
    BY <1>2, Zenon DEF ToSet
  <2>2. i + 1 \in DOMAIN t /\ x = t[i + 1]
    BY <1>1, <1>2, <2>1
  <2> QED  BY <2>2, Zenon DEF ToSet
<1>5. e \in ToSet(t)
  <2>1. 1 \in DOMAIN t /\ e = t[1]
    BY <1>1, <1>2
  <2> QED  BY <2>1, Zenon DEF ToSet
<1>6. ToSet(t) = {e} \cup ToSet(s)
  BY <1>3, <1>4, <1>5, Zenon
<1> QED  BY <1>1, <1>6 DEF t

\* The function nobody has patched.
LEMMA ToSetOfOriginal == ToSet(<<>>) = {}
  BY DEF ToSet

-----------------------------------------------------------------------------
(* Requests. *)

\* The fields of a create request.
LEMMA CreateFields ==
  ASSUME create \in [Creates -> Create], NEW c \in Creates
  PROVE  /\ create[c].step \in {"idle", "read", "locked", "sent", "raised", "returned", "done"}
         /\ create[c].original \in Seq(Creates)
         /\ create[c].outcome \in Outcomes
         /\ create[c].made \in BOOLEAN /\ create[c].raised \in BOOLEAN
         /\ create[c].diagnostic \in Outcomes
         /\ create[c].verdict \in Verdicts
<1>1. create[c] \in Create
  OBVIOUS
<1> QED  BY <1>1 DEF Create

\* No other create moves.
OthersStand(c) == \A d \in Creates \ {c} : create'[d] = create[d]

\* The calls of creates stay as they are while downloads run.
LEMMA CreatesStand ==
  ASSUME RuntimeInv, UNCHANGED <<send, create>>
  PROVE  NotYetWrapped' /\ DiagnosticIsOwn' /\ FailuresAreTheirOwn' /\ WrongOnlyIfWrapped'
  BY DEF RuntimeInv, NotYetWrapped, DiagnosticIsOwn, FailuresAreTheirOwn,
         WrongOnlyIfWrapped, Wrapped, Inside

\* Who holds the lock, and what is in use, as far as it concerns the creates.
CreatesHold ==
  /\ \A c \in Creates : Inside(c) <=> lock = c
  /\ \A c \in Creates : Inside(c) => send = <<c>> \o create[c].original

\* The same for the downloads.
DownloadsHold ==
  /\ \A d \in Downloads : download[d].step \in {"query", "locked"} <=> lock = d
  /\ \A d \in Downloads :
       download[d].step = "locked" => get = <<d>> \o download[d].original

LEMMA HoldersOfBothKinds ==
  /\ HolderIsOutermost => CreatesHold /\ DownloadsHold
  /\ CreatesHold' /\ DownloadsHold' => HolderIsOutermost'
  BY DEF HolderIsOutermost, CreatesHold, DownloadsHold

\* The lock is taken or given up by a request of one kind: the other kind's
\* requests did not hold it and do not hold it now.
LEMMA LockPassesDownloads ==
  ASSUME DownloadsHold, UNCHANGED <<get, download>>, NEW c \in Creates,
         lock \in {c, NoOne}, lock' \in {c, NoOne}
  PROVE  DownloadsHold'
  BY BridgeRuntimeAssumption DEF DownloadsHold

LEMMA LockPassesCreates ==
  ASSUME CreatesHold, UNCHANGED <<send, create>>, NEW d \in Downloads,
         lock \in {d, NoOne}, lock' \in {d, NoOne}
  PROVE  CreatesHold'
  BY BridgeRuntimeAssumption DEF CreatesHold, Inside

-----------------------------------------------------------------------------
(* Downloads. *)

\* A download takes or leaves the lock, or works without it.
LEMMA DownloadKeeps ==
  ASSUME RuntimeInv, NEW d \in Downloads, QueryTask(d) \/ DownloadStep(d)
  PROVE  RuntimeInv'
<1>0. /\ TypeOK /\ CreatesHold /\ DownloadsHold
      /\ download \in [Downloads -> Download] /\ get \in Seq(Downloads)
  BY HoldersOfBothKinds DEF RuntimeInv, TypeOK
<1>1. UNCHANGED <<send, create>>
  BY DEF QueryTask, DownloadStep, Queried, ReadGet, PatchGet, Fetch
<1>2. /\ download[d].step \in {"idle", "query", "read", "target", "waiting", "locked", "done"}
      /\ download[d].original \in Seq(Downloads)
  <2>1. download[d] \in Download
    BY <1>0
  <2> QED  BY <2>1 DEF Download
<1>3. <<d>> \o download[d].original \in Seq(Downloads)
  BY <1>2, ToSetOfPatched
<1>4. get' \in Seq(Downloads)
  BY <1>0, <1>2, <1>3 DEF QueryTask, DownloadStep, Queried, ReadGet, PatchGet, Fetch
<1>5. download' \in [Downloads -> Download] /\ \A e \in Downloads \ {d} : download'[e] = download[e]
  <2>1. CASE QueryTask(d)
    BY <1>0, <2>1 DEF QueryTask, Download
  <2>2. CASE Queried(d)
    BY <1>0, <2>2 DEF Queried, Download
  <2>3. CASE ReadGet(d)
    <3>1. CASE download' = [download EXCEPT ![d].step = "read", ![d].original = get]
      <4>1. [download[d] EXCEPT !.step = "read", !.original = get] \in Download
        BY <1>0 DEF Download
      <4>2. download' = [download EXCEPT ![d] =
                           [download[d] EXCEPT !.step = "read", !.original = get]]
        BY <3>1, Zenon
      <4> QED  BY <1>0, <4>1, <4>2
    <3>2. CASE download' = [download EXCEPT ![d].step = "done", ![d].answer = "remote"]
      BY <1>0, <3>2 DEF Download
    <3> QED  BY <2>3, <3>1, <3>2 DEF ReadGet
  <2>4. CASE PatchGet(d)
    BY <1>0, <2>4 DEF PatchGet, Download
  <2>5. CASE Fetch(d)
    BY <1>0, <2>5 DEF Fetch, Download
  <2> QED  BY <2>1, <2>2, <2>3, <2>4, <2>5 DEF DownloadStep
<1>6. BrokenOnlyIfWrapped'
  <2>1. /\ download'[d].answer = "broken" => download'[d].original # <<>>
        /\ download'[d].answer = "served" => download'[d].original = <<>>
        /\ download'[d].step # "done" => download'[d].answer = "none"
    <3>0. download[d] \in Download /\ (download[d].step # "done" => download[d].answer = "none")
      BY <1>0 DEF RuntimeInv, BrokenOnlyIfWrapped
    <3>1. CASE QueryTask(d)
      BY <1>0, <3>0, <3>1 DEF QueryTask, Download
    <3>2. CASE Queried(d)
      BY <1>0, <3>0, <3>2 DEF Queried, Download
    <3>3. CASE ReadGet(d)
      <4>1. CASE download' = [download EXCEPT ![d].step = "read", ![d].original = get]
        BY <1>0, <3>0, <3>3, <4>1 DEF ReadGet, Download
      <4>2. CASE download' = [download EXCEPT ![d].step = "done", ![d].answer = "remote"]
        BY <1>0, <4>2 DEF Download
      <4> QED  BY <3>3, <4>1, <4>2 DEF ReadGet
    <3>4. CASE PatchGet(d)
      BY <1>0, <3>0, <3>4 DEF PatchGet, Download
    <3>5. CASE Fetch(d)
      <4>1. PICK answer \in IF Len(get) = 1 THEN {"served", "remote"} ELSE {"broken", "remote"} :
              download' = [download EXCEPT ![d].step = "done", ![d].answer = answer]
        BY <3>5 DEF Fetch
      <4>2. /\ download'[d].answer = answer /\ download'[d].step = "done"
            /\ download'[d].original = download[d].original
        BY <1>0, <4>1 DEF Download
      <4>3. get = <<d>> \o download[d].original
        BY <1>0, <3>5 DEF Fetch, DownloadsHold
      <4>4. Len(get) = Len(download[d].original) + 1
        BY <1>2, <4>3, ToSetOfPatched
      <4>5. Len(get) = 1 <=> download[d].original = <<>>
        BY <1>2, <4>4
      <4> QED  BY <4>1, <4>2, <4>5
    <3> QED  BY <3>1, <3>2, <3>3, <3>4, <3>5 DEF DownloadStep
  <2> QED  BY <1>0, <1>5, <2>1 DEF RuntimeInv, BrokenOnlyIfWrapped
<1>7. CASE ReadGet(d)
  <2>1. lock' = lock /\ get' = get
    BY <1>7 DEF ReadGet
  <2>2. download[d].step = "target" /\ download'[d].step \in {"read", "done"}
    <3>1. CASE download' = [download EXCEPT ![d].step = "read", ![d].original = get]
      BY <1>0, <1>7, <3>1 DEF ReadGet, Download
    <3>2. CASE download' = [download EXCEPT ![d].step = "done", ![d].answer = "remote"]
      BY <1>0, <1>7, <3>2 DEF ReadGet, Download
    <3> QED  BY <1>7, <3>1, <3>2 DEF ReadGet
  <2>3. DownloadsHold'
    BY <1>0, <1>5, <2>1, <2>2 DEF DownloadsHold
  <2>4. CreatesHold'
    BY <1>0, <1>1, <2>1 DEF CreatesHold, Inside
  <2>5. TypeOK'
    BY <1>0, <1>1, <1>4, <1>5, <2>1 DEF TypeOK
  <2> QED  BY <1>1, <1>6, <2>3, <2>4, <2>5, HoldersOfBothKinds, CreatesStand DEF RuntimeInv
<1>8. CASE ~ReadGet(d)
  <2>1. /\ lock \in {d, NoOne} /\ lock' \in {d, NoOne}
        /\ lock' = d <=> download'[d].step \in {"query", "locked"}
        /\ download'[d].step = "locked" => get' = <<d>> \o download'[d].original
    <3>1. CASE QueryTask(d)
      BY <1>0, <3>1, BridgeRuntimeAssumption DEF QueryTask
    <3>2. CASE Queried(d)
      <4>1. lock = d /\ lock' = NoOne /\ lock' # d
        BY <1>0, <3>2, BridgeRuntimeAssumption DEF Queried, DownloadsHold
      <4>2. download'[d].step \in {"target", "done"}
        BY <1>0, <3>2 DEF Queried, Download
      <4> QED  BY <4>1, <4>2
    <3>3. CASE PatchGet(d)
      BY <1>0, <3>3, BridgeRuntimeAssumption DEF PatchGet
    <3>4. CASE Fetch(d)
      BY <1>0, <3>4, BridgeRuntimeAssumption DEF Fetch, DownloadsHold
    <3> QED  BY <1>8, <3>1, <3>2, <3>3, <3>4 DEF DownloadStep
  <2>2. DownloadsHold'
    BY <1>0, <1>5, <2>1, BridgeRuntimeAssumption DEF DownloadsHold
  <2>3. CreatesHold'
    BY <1>0, <1>1, <2>1, LockPassesCreates
  <2>4. lock' \in Creates \cup Downloads \cup {NoOne}
    BY <2>1
  <2>5. TypeOK'
    BY <1>0, <1>1, <1>4, <1>5, <2>4 DEF TypeOK
  <2> QED  BY <1>1, <1>6, <2>2, <2>3, <2>5, HoldersOfBothKinds, CreatesStand DEF RuntimeInv
<1> QED  BY <1>7, <1>8

-----------------------------------------------------------------------------
(* Creates. *)

\* Every step of a create but the sending changes no field of an outcome.
SameOutcome(new, old) ==
  /\ new.outcome = old.outcome /\ new.diagnostic = old.diagnostic
  /\ new.made = old.made /\ new.raised = old.raised

\* A create that moves on without sending: what it needs to know to keep the
\* invariant.
LEMMA MovingKeeps ==
  ASSUME RuntimeInv, NEW c \in Creates, NEW new \in Create,
         create' = [create EXCEPT ![c] = new], UNCHANGED <<get, download>>,
         send' \in Seq(Creates),
         ToSet(send') \subseteq ToSet(send) \cup ToSet(create[c].original) \cup {c},
         ToSet(create[c].original) \subseteq ToSet(new.original),
         ToSet(new.original) \subseteq ToSet(create[c].original) \cup ToSet(send),
         \/ lock' = lock /\ send' = send /\ lock # c
         \/ lock \in {c, NoOne} /\ lock' \in {c, NoOne},
         new.step = "locked" <=> lock' = c,
         new.step = "locked" => send' = <<c>> \o new.original,
         SameOutcome(new, create[c]),
         new.step \notin {"idle", "sent", "raised"},
         new.step = "read" => create[c].step = "idle" /\ send' = send,
         new.step = "locked" => create[c].step = "read",
         new.step = "returned" => create[c].step = "sent",
         new.step # "done" => create[c].step # "done" /\ new.verdict = create[c].verdict,
         new.verdict = "notCreated" /\ new.made => Wrapped(c) /\ ~new.raised
  PROVE  RuntimeInv'
<1>0. /\ TypeOK /\ CreatesHold /\ DownloadsHold /\ NotYetWrapped /\ DiagnosticIsOwn
      /\ FailuresAreTheirOwn /\ WrongOnlyIfWrapped
      /\ create \in [Creates -> Create]
  BY HoldersOfBothKinds DEF RuntimeInv, TypeOK
<1>1. create' \in [Creates -> Create] /\ create'[c] = new /\ OthersStand(c)
  BY <1>0 DEF OthersStand
<1>2. TypeOK' /\ BrokenOnlyIfWrapped'
  BY <1>0, <1>1 DEF TypeOK, RuntimeInv, BrokenOnlyIfWrapped
<1>3. DownloadsHold'
  <2>1. CASE lock' = lock
    BY <1>0, <2>1 DEF DownloadsHold
  <2>2. CASE lock \in {c, NoOne} /\ lock' \in {c, NoOne}
    BY <1>0, <2>2, LockPassesDownloads
  <2> QED  BY <2>1, <2>2
<1>4. CreatesHold'
  <2>1. Inside(c)' <=> lock' = c
    BY <1>1 DEF Inside
  <2>2. Inside(c)' => send' = <<c>> \o create'[c].original
    BY <1>1 DEF Inside
  <2>3. ASSUME NEW d \in Creates \ {c}
        PROVE  (Inside(d)' <=> lock' = d) /\ (Inside(d)' => send' = <<d>> \o create'[d].original)
    <3>1. create'[d] = create[d]
      BY <1>1 DEF OthersStand
    <3>2. Inside(d)' <=> Inside(d)
      BY <3>1 DEF Inside
    <3>3. (Inside(d) <=> lock = d) /\ (Inside(d) => send = <<d>> \o create[d].original)
      BY <1>0 DEF CreatesHold
    <3>4. d # NoOne
      BY BridgeRuntimeAssumption
    <3> QED  BY <3>1, <3>2, <3>3, <3>4
  <2> QED  BY <2>1, <2>2, <2>3 DEF CreatesHold
<1>5. \A d \in Creates : Wrapped(d) => Wrapped(d)'
  <2>1. \A e \in Creates : ToSet(create[e].original) \subseteq ToSet(create'[e].original)
    BY <1>1 DEF OthersStand
  <2> QED  BY <2>1, Zenon DEF Wrapped
<1>6. NotYetWrapped'
  <2>1. ASSUME NEW d \in Creates \ {c}, create[d].step \in {"idle", "read"}
        PROVE  d \notin ToSet(send') /\ \A e \in Creates : d \notin ToSet(create'[e].original)
    <3>1. d \notin ToSet(send) /\ \A e \in Creates : d \notin ToSet(create[e].original)
      BY <1>0, <2>1 DEF NotYetWrapped
    <3>2. d \notin ToSet(new.original)
      BY <3>1
    <3> QED  BY <1>1, <3>1, <3>2 DEF OthersStand
  <2>2. ASSUME new.step = "read"
        PROVE  c \notin ToSet(send') /\ \A e \in Creates : c \notin ToSet(create'[e].original)
    <3>1. c \notin ToSet(send) /\ \A e \in Creates : c \notin ToSet(create[e].original)
      BY <1>0, <2>2 DEF NotYetWrapped
    <3> QED  BY <1>1, <2>2, <3>1 DEF OthersStand
  <2>3. /\ create[c].step \in {"idle", "read", "locked"} =>
             /\ create[c].outcome = "none" /\ create[c].diagnostic = "none"
             /\ ~create[c].made /\ ~create[c].raised
        /\ create[c].step = "sent" => ~create[c].raised
        /\ create[c].step # "done" => create[c].verdict = "none"
    BY <1>0 DEF NotYetWrapped
  <2>4. /\ new.step \in {"read", "locked"} =>
             /\ new.outcome = "none" /\ new.diagnostic = "none" /\ ~new.made /\ ~new.raised
        /\ new.step = "returned" => ~new.raised
        /\ new.step # "done" => new.verdict = "none"
    BY <2>3 DEF SameOutcome
  <2>5. ASSUME NEW d \in Creates
        PROVE  /\ create'[d].step = "idle" => create'[d] = NewCreate
               /\ create'[d].step \in {"idle", "read"} =>
                    d \notin ToSet(send') /\ \A e \in Creates : d \notin ToSet(create'[e].original)
               /\ create'[d].step \in {"idle", "read", "locked"} =>
                    /\ create'[d].outcome = "none" /\ create'[d].diagnostic = "none"
                    /\ ~create'[d].made /\ ~create'[d].raised
               /\ create'[d].step \in {"sent", "returned"} => ~create'[d].raised
               /\ create'[d].step # "done" => create'[d].verdict = "none"
    <3>1. CASE d = c
      BY <1>1, <2>2, <2>4, <3>1
    <3>2. CASE d # c
      <4>1. create'[d] = create[d]
        BY <1>1, <3>2 DEF OthersStand
      <4> QED  BY <1>0, <2>1, <3>2, <4>1 DEF NotYetWrapped
    <3> QED  BY <3>1, <3>2
  <2> QED  BY <2>5 DEF NotYetWrapped
<1>7. DiagnosticIsOwn'
  <2>1. ASSUME NEW d \in Creates
        PROVE  /\ create'[d].diagnostic = create'[d].outcome \/ (Wrapped(d)' /\ ~Inside(d)')
               /\ create'[d].made => create'[d].outcome \in {"ok", "lost", "error"}
    <3>1. /\ create[d].diagnostic = create[d].outcome \/ (Wrapped(d) /\ ~Inside(d))
          /\ create[d].made => create[d].outcome \in {"ok", "lost", "error"}
      BY <1>0 DEF DiagnosticIsOwn
    <3>2. CASE d = c
      <4>1. Inside(d)' => create[c].diagnostic = create[c].outcome
        BY <1>0, <1>1, <3>2 DEF Inside, NotYetWrapped
      <4> QED  BY <1>1, <1>5, <3>1, <3>2, <4>1 DEF SameOutcome
    <3>3. CASE d # c
      <4>1. create'[d] = create[d] /\ (Inside(d)' <=> Inside(d))
        BY <1>1, <3>3 DEF OthersStand, Inside
      <4> QED  BY <1>5, <3>1, <4>1
    <3> QED  BY <3>2, <3>3
  <2> QED  BY <2>1 DEF DiagnosticIsOwn
<1>8. FailuresAreTheirOwn' /\ WrongOnlyIfWrapped'
  <2>1. ASSUME NEW d \in Creates, create'[d].verdict = "notCreated", create'[d].made
        PROVE  ~create'[d].raised /\ Wrapped(d)'
    <3>1. CASE d = c
      BY <1>1, <1>5, <2>1, <3>1
    <3>2. CASE d # c
      <4>1. create'[d] = create[d]
        BY <1>1, <3>2 DEF OthersStand
      <4> QED  BY <1>0, <1>5, <2>1, <4>1 DEF FailuresAreTheirOwn, WrongOnlyIfWrapped
    <3> QED  BY <3>1, <3>2
  <2> QED  BY <2>1 DEF FailuresAreTheirOwn, WrongOnlyIfWrapped
<1> QED  BY <1>2, <1>3, <1>4, <1>6, <1>7, <1>8, HoldersOfBothKinds DEF RuntimeInv

\* What a step of c begins with.
LEMMA Before ==
  ASSUME RuntimeInv, NEW c \in Creates
  PROVE  /\ create \in [Creates -> Create] /\ create[c] \in Create
         /\ create[c].original \in Seq(Creates) /\ send \in Seq(Creates)
         /\ <<c>> \o create[c].original \in Seq(Creates)
         /\ ToSet(<<c>> \o create[c].original) = {c} \cup ToSet(create[c].original)
         /\ Inside(c) <=> lock = c
         /\ Inside(c) => send = <<c>> \o create[c].original
         /\ c # NoOne
<1>1. create \in [Creates -> Create] /\ send \in Seq(Creates)
  BY DEF RuntimeInv, TypeOK
<1>2. create[c].original \in Seq(Creates)
  BY <1>1, CreateFields
<1> QED  BY <1>1, <1>2, ToSetOfPatched, BridgeRuntimeAssumption
         DEF RuntimeInv, HolderIsOutermost

LEMMA ReadSendKeeps ==
  ASSUME RuntimeInv, NEW c \in Creates, ReadSend(c) PROVE RuntimeInv'
<1>0. create[c] \in Create /\ send \in Seq(Creates) /\ create \in [Creates -> Create]
  BY Before
<1> DEFINE new == [create[c] EXCEPT !.step = "read", !.original = send]
<1>1. create' = [create EXCEPT ![c] = new]
  BY Zenon DEF ReadSend
<1>2. /\ new \in Create /\ new.step = "read" /\ new.original = send
      /\ SameOutcome(new, create[c]) /\ new.verdict = create[c].verdict
  BY <1>0 DEF Create, SameOutcome
<1>3. create[c].step = "idle" /\ UNCHANGED <<send, get, lock, download>>
  BY DEF ReadSend
<1>4. create[c].original = <<>> /\ create[c].verdict = "none"
  BY <1>3 DEF RuntimeInv, NotYetWrapped, NewCreate
<1>5. lock # c
  BY <1>3, Before DEF Inside
<1> HIDE DEF new
<1> QED  BY <1>0, <1>1, <1>2, <1>3, <1>4, <1>5, ToSetOfOriginal, MovingKeeps

LEMMA PatchSendKeeps ==
  ASSUME RuntimeInv, NEW c \in Creates, PatchSend(c) PROVE RuntimeInv'
<1>0. create[c] \in Create /\ create \in [Creates -> Create]
  BY Before
<1> DEFINE new == [create[c] EXCEPT !.step = "locked"]
<1>1. create' = [create EXCEPT ![c] = new]
  BY Zenon DEF PatchSend
<1>2. /\ new \in Create /\ new.step = "locked" /\ new.original = create[c].original
      /\ SameOutcome(new, create[c]) /\ new.verdict = create[c].verdict
  BY <1>0 DEF Create, SameOutcome
<1>3. /\ create[c].step = "read" /\ lock = NoOne /\ lock' = c
      /\ send' = <<c>> \o create[c].original /\ UNCHANGED <<get, download>>
  BY DEF PatchSend
<1>4. create[c].verdict = "none"
  BY <1>3 DEF RuntimeInv, NotYetWrapped
<1>5. send' \in Seq(Creates) /\ ToSet(send') = {c} \cup ToSet(create[c].original)
  BY <1>3, Before
<1> HIDE DEF new
<1> QED  BY <1>1, <1>2, <1>3, <1>4, <1>5, MovingKeeps

\* A create that leaves the SDK restores what it found.
LEMMA Restores ==
  ASSUME RuntimeInv, NEW c \in Creates, Inside(c),
         send' = create[c].original, lock' = NoOne
  PROVE  /\ send' \in Seq(Creates) /\ ToSet(send') \subseteq ToSet(send)
         /\ lock = c /\ lock' # c
  BY Before

LEMMA ClassifyRaisedKeeps ==
  ASSUME RuntimeInv, NEW c \in Creates, ClassifyRaised(c) PROVE RuntimeInv'
<1>0. create[c] \in Create /\ create \in [Creates -> Create]
  BY Before
<1> PICK verdict \in RaisedVerdicts(create[c].diagnostic) :
      create' = [create EXCEPT ![c].step = "done", ![c].verdict = verdict]
  BY DEF ClassifyRaised
<1> DEFINE new == [create[c] EXCEPT !.step = "done", !.verdict = verdict]
<1>1. create' = [create EXCEPT ![c] = new]
  BY Zenon
<1>2. /\ new \in Create /\ new.step = "done" /\ new.original = create[c].original
      /\ SameOutcome(new, create[c]) /\ new.verdict = verdict
  BY <1>0 DEF Create, SameOutcome, RaisedVerdicts, Verdicts
<1>3. /\ create[c].step = "raised" /\ lock' = NoOne
      /\ send' = create[c].original /\ UNCHANGED <<get, download>>
  BY DEF ClassifyRaised
<1>4. Inside(c)
  BY <1>3 DEF Inside
<1>5. create[c].diagnostic = create[c].outcome
      /\ (create[c].made => create[c].outcome \in {"ok", "lost", "error"})
  BY <1>4 DEF RuntimeInv, DiagnosticIsOwn
<1>6. ~(verdict = "notCreated" /\ create[c].made)
  BY <1>5 DEF RaisedVerdicts
<1>7. ~(new.verdict = "notCreated" /\ new.made)
  BY <1>2, <1>6, Zenon DEF SameOutcome
<1> HIDE DEF new
<1> QED  BY <1>1, <1>2, <1>3, <1>4, <1>7, Restores, MovingKeeps

LEMMA RestoreSendKeeps ==
  ASSUME RuntimeInv, NEW c \in Creates, RestoreSend(c) PROVE RuntimeInv'
<1>0. create[c] \in Create /\ create \in [Creates -> Create]
  BY Before
<1> DEFINE new == [create[c] EXCEPT !.step = "returned"]
<1>1. create' = [create EXCEPT ![c] = new]
  BY Zenon DEF RestoreSend
<1>2. /\ new \in Create /\ new.step = "returned" /\ new.original = create[c].original
      /\ SameOutcome(new, create[c]) /\ new.verdict = create[c].verdict
  BY <1>0 DEF Create, SameOutcome
<1>3. /\ create[c].step = "sent" /\ lock' = NoOne
      /\ send' = create[c].original /\ UNCHANGED <<get, download>>
  BY DEF RestoreSend
<1>4. Inside(c)
  BY <1>3 DEF Inside
<1>5. create[c].verdict = "none"
  BY <1>3 DEF RuntimeInv, NotYetWrapped
<1> HIDE DEF new
<1> QED  BY <1>1, <1>2, <1>3, <1>4, <1>5, Restores, MovingKeeps

\* The one verdict that is reached without the lock: only here does it matter
\* that another create may have written the diagnostic.
LEMMA ClassifyReturnedKeeps ==
  ASSUME RuntimeInv, NEW c \in Creates, ClassifyReturned(c) PROVE RuntimeInv'
<1>0. create[c] \in Create /\ create \in [Creates -> Create] /\ send \in Seq(Creates)
  BY Before
<1> DEFINE verdict == ReturnedVerdict(create[c].diagnostic, create[c].outcome = "ok")
           new == [create[c] EXCEPT !.step = "done", !.verdict = verdict]
<1>1. create' = [create EXCEPT ![c] = new]
  BY Zenon DEF ClassifyReturned
<1>2. verdict \in {"id", "notCreated", "unknown"}
      /\ (verdict = "notCreated" => create[c].diagnostic = "rejected")
  BY <1>0 DEF Create, ReturnedVerdict
<1>3. /\ new \in Create /\ new.step = "done" /\ new.original = create[c].original
      /\ SameOutcome(new, create[c]) /\ new.verdict = verdict
  <2> HIDE DEF verdict
  <2> QED  BY <1>0, <1>2 DEF Create, SameOutcome, Verdicts
<1>4. create[c].step = "returned" /\ UNCHANGED <<send, get, lock, download>>
  BY DEF ClassifyReturned
<1>5. lock # c
  BY <1>4, Before DEF Inside
<1>6. /\ create[c].diagnostic = create[c].outcome \/ Wrapped(c)
      /\ create[c].made => create[c].outcome \in {"ok", "lost", "error"}
      /\ ~create[c].raised
  BY <1>4 DEF RuntimeInv, DiagnosticIsOwn, NotYetWrapped
<1> HIDE DEF verdict, new
<1>7. new.verdict = "notCreated" /\ new.made => Wrapped(c) /\ ~new.raised
  BY <1>2, <1>3, <1>6 DEF SameOutcome
<1> QED  BY <1>0, <1>1, <1>3, <1>4, <1>5, <1>7, MovingKeeps

\* What the sending leaves in the records: the outcome in the sender's own, and
\* in the diagnostics of those whose closures are on the way.
LEMMA SendFields ==
  ASSUME RuntimeInv, NEW c \in Creates, Send(c)
  PROVE  /\ create' \in [Creates -> Create]
         /\ \A d \in Creates : create'[d].original = create[d].original
         /\ create'[c].step \in {"sent", "raised"}
         /\ create'[c].step = "raised" <=> create'[c].raised
         /\ create'[c].diagnostic = create'[c].outcome
         /\ create'[c].made => create'[c].outcome \in {"ok", "lost", "error"}
         /\ create'[c].verdict = "none"
         /\ \A d \in Creates \ {c} :
              /\ create'[d].step = create[d].step /\ create'[d].outcome = create[d].outcome
              /\ create'[d].made = create[d].made /\ create'[d].raised = create[d].raised
              /\ create'[d].verdict = create[d].verdict
              /\ d \in ToSet(create[c].original) \/ create'[d] = create[d]
<1>0. /\ create \in [Creates -> Create] /\ Inside(c) /\ create[c].step = "locked"
      /\ ToSet(send) = {c} \cup ToSet(create[c].original)
      /\ create[c].diagnostic = "none" /\ create[c].verdict = "none"
  <2>1. create[c].step = "locked" /\ Inside(c)
    BY DEF Send, Inside
  <2> QED  BY <2>1, Before DEF RuntimeInv, NotYetWrapped
<1>1. PICK outcome \in Outcomes, raised \in BOOLEAN : \E made \in MayMake(outcome) :
        create' = [d \in Creates |->
             LET noted == IF outcome # "none" /\ d \in ToSet(send)
                            THEN [create[d] EXCEPT !.diagnostic = outcome] ELSE create[d]
             IN IF d # c THEN noted
                ELSE [noted EXCEPT !.step = IF raised THEN "raised" ELSE "sent",
                        !.outcome = outcome, !.made = made, !.raised = raised]]
  BY Zenon DEF Send
<1>2. PICK made \in MayMake(outcome) :
        create' = [d \in Creates |->
             LET noted == IF outcome # "none" /\ d \in ToSet(send)
                            THEN [create[d] EXCEPT !.diagnostic = outcome] ELSE create[d]
             IN IF d # c THEN noted
                ELSE [noted EXCEPT !.step = IF raised THEN "raised" ELSE "sent",
                        !.outcome = outcome, !.made = made, !.raised = raised]]
  BY <1>1, Zenon
<1>3. made \in BOOLEAN /\ (made => outcome \in {"ok", "lost", "error"})
  BY DEF MayMake
<1> DEFINE Noted(d) == IF outcome # "none" /\ d \in ToSet(send)
                         THEN [create[d] EXCEPT !.diagnostic = outcome] ELSE create[d]
<1>4. /\ DOMAIN create' = Creates
      /\ create' = [d \in Creates |-> create'[d]]
      /\ \A d \in Creates \ {c} : create'[d] = Noted(d)
      /\ create'[c] = [Noted(c) EXCEPT !.step = IF raised THEN "raised" ELSE "sent",
                         !.outcome = outcome, !.made = made, !.raised = raised]
  BY <1>2
<1>5. ASSUME NEW d \in Creates
      PROVE  /\ Noted(d) \in Create
             /\ Noted(d).step = create[d].step /\ Noted(d).original = create[d].original
             /\ Noted(d).outcome = create[d].outcome /\ Noted(d).made = create[d].made
             /\ Noted(d).raised = create[d].raised /\ Noted(d).verdict = create[d].verdict
             /\ d \notin ToSet(send) => Noted(d) = create[d]
  <2>1. create[d] \in Create
    BY <1>0
  <2>2. CASE outcome # "none" /\ d \in ToSet(send)
    <3>1. Noted(d) = [create[d] EXCEPT !.diagnostic = outcome]
      BY <2>2
    <3> QED  BY <2>1, <2>2, <3>1 DEF Create
  <2>3. CASE ~(outcome # "none" /\ d \in ToSet(send))
    <3>1. Noted(d) = create[d]
      BY <2>3
    <3> QED  BY <2>1, <3>1 DEF Create
  <2> QED  BY <2>2, <2>3
<1>6. Noted(c).diagnostic = outcome
  BY <1>0 DEF Create
<1> HIDE DEF Noted
<1>7. /\ create'[c] \in Create
      /\ create'[c].step = IF raised THEN "raised" ELSE "sent"
      /\ create'[c].original = create[c].original /\ create'[c].outcome = outcome
      /\ create'[c].made = made /\ create'[c].raised = raised
      /\ create'[c].diagnostic = outcome /\ create'[c].verdict = "none"
  <2>1. Noted(c) \in Create
    BY <1>5
  <2> DEFINE step == IF raised THEN "raised" ELSE "sent"
  <2>2. step \in {"sent", "raised"}
    OBVIOUS
  <2>3. create'[c] = [Noted(c) EXCEPT !.step = step, !.outcome = outcome, !.made = made,
                        !.raised = raised]
    BY <1>4
  <2> HIDE DEF step
  <2>4. /\ create'[c] \in Create /\ create'[c].step = step
        /\ create'[c].original = Noted(c).original /\ create'[c].outcome = outcome
        /\ create'[c].made = made /\ create'[c].raised = raised
        /\ create'[c].diagnostic = Noted(c).diagnostic /\ create'[c].verdict = Noted(c).verdict
    BY <1>3, <2>1, <2>2, <2>3 DEF Create
  <2> QED  BY <1>0, <1>5, <1>6, <2>4 DEF step
<1>8. create' \in [Creates -> Create]
  <2>1. \A d \in Creates : create'[d] \in Create
    BY <1>4, <1>5, <1>7
  <2> QED  BY <1>4, <2>1
<1>9. ASSUME NEW d \in Creates PROVE create'[d].original = create[d].original
  <2>1. CASE d = c
    BY <1>7, <2>1
  <2>2. CASE d # c
    BY <1>4, <1>5, <2>2
  <2> QED  BY <2>1, <2>2
<1>10. ASSUME NEW d \in Creates \ {c}
       PROVE  /\ create'[d].step = create[d].step /\ create'[d].outcome = create[d].outcome
              /\ create'[d].made = create[d].made /\ create'[d].raised = create[d].raised
              /\ create'[d].verdict = create[d].verdict
              /\ d \in ToSet(create[c].original) \/ create'[d] = create[d]
  BY <1>0, <1>4, <1>5
<1>11. /\ create'[c].step \in {"sent", "raised"}
       /\ create'[c].step = "raised" <=> create'[c].raised
  BY <1>7
<1> QED  BY <1>3, <1>7, <1>8, <1>9, <1>10, <1>11

LEMMA SendKeeps ==
  ASSUME RuntimeInv, NEW c \in Creates, Send(c) PROVE RuntimeInv'
<1>0. /\ TypeOK /\ CreatesHold /\ DownloadsHold /\ NotYetWrapped /\ DiagnosticIsOwn
      /\ FailuresAreTheirOwn /\ WrongOnlyIfWrapped
  BY HoldersOfBothKinds DEF RuntimeInv
<1>1. /\ UNCHANGED <<send, get, lock, download>> /\ create[c].step = "locked" /\ lock = c
  BY Before DEF Send, Inside
<1>2. TypeOK' /\ DownloadsHold' /\ BrokenOnlyIfWrapped'
  BY <1>0, <1>1, SendFields DEF TypeOK, DownloadsHold, RuntimeInv, BrokenOnlyIfWrapped
<1>3. \A d \in Creates : Inside(d)' <=> Inside(d)
  BY <1>1, SendFields DEF Inside
<1>4. CreatesHold'
  BY <1>0, <1>1, <1>3, SendFields DEF CreatesHold
<1>5. \A d \in Creates : Wrapped(d)' <=> Wrapped(d)
  BY SendFields DEF Wrapped
<1>6. NotYetWrapped'
  <2>1. ASSUME NEW d \in Creates
        PROVE  /\ create'[d].step = "idle" => create'[d] = NewCreate
               /\ create'[d].step \in {"idle", "read"} =>
                    d \notin ToSet(send) /\ \A e \in Creates : d \notin ToSet(create'[e].original)
               /\ create'[d].step \in {"idle", "read", "locked"} =>
                    /\ create'[d].outcome = "none" /\ create'[d].diagnostic = "none"
                    /\ ~create'[d].made /\ ~create'[d].raised
               /\ create'[d].step \in {"sent", "returned"} => ~create'[d].raised
               /\ create'[d].step # "done" => create'[d].verdict = "none"
    <3>1. CASE d = c
      BY <3>1, SendFields
    <3>2. CASE d # c
      <4>1. /\ create[d].step = "idle" => create[d] = NewCreate
            /\ create[d].step \in {"idle", "read"} =>
                 d \notin ToSet(send) /\ \A e \in Creates : d \notin ToSet(create[e].original)
            /\ create[d].step \in {"idle", "read", "locked"} =>
                 /\ create[d].outcome = "none" /\ create[d].diagnostic = "none"
                 /\ ~create[d].made /\ ~create[d].raised
            /\ create[d].step \in {"sent", "returned"} => ~create[d].raised
            /\ create[d].step # "done" => create[d].verdict = "none"
        BY <1>0 DEF NotYetWrapped
      <4>2. create[d].step # "locked"
        BY <1>0, <1>1, <3>2 DEF CreatesHold, Inside
      <4>3. create[d].step \in {"idle", "read"} => create'[d] = create[d]
        BY <3>2, <4>1, SendFields
      <4> QED  BY <3>2, <4>1, <4>2, <4>3, SendFields
    <3> QED  BY <3>1, <3>2
  <2> QED  BY <1>1, <2>1 DEF NotYetWrapped
<1>7. DiagnosticIsOwn'
  <2>1. ASSUME NEW d \in Creates \ {c}
        PROVE  /\ create'[d].diagnostic = create'[d].outcome \/ (Wrapped(d) /\ ~Inside(d))
               /\ create'[d].made => create'[d].outcome \in {"ok", "lost", "error"}
    <3>1. ~Inside(d)
      BY <1>0, <1>1 DEF CreatesHold
    <3>2. d \in ToSet(create[c].original) => Wrapped(d)
      BY DEF Wrapped
    <3> QED  BY <1>0, <3>1, <3>2, SendFields DEF DiagnosticIsOwn
  <2> QED  BY <1>3, <1>5, <2>1, SendFields DEF DiagnosticIsOwn
<1>8. FailuresAreTheirOwn' /\ WrongOnlyIfWrapped'
  BY <1>0, <1>5, SendFields DEF FailuresAreTheirOwn, WrongOnlyIfWrapped
<1> QED  BY <1>2, <1>4, <1>6, <1>7, <1>8, HoldersOfBothKinds DEF RuntimeInv

-----------------------------------------------------------------------------
\* The lock, the functions in use and the records of the requests fit together,
\* however many creates and downloads overlap.
THEOREM RuntimeInvariant == Spec => []RuntimeInv
<1>1. Init => RuntimeInv
  <2> SUFFICES ASSUME Init PROVE RuntimeInv
    OBVIOUS
  <2>1. NewCreate \in Create /\ NewDownload \in Download
    BY DEF NewCreate, Create, NewDownload, Download, Outcomes, Verdicts
  <2>2. TypeOK
    BY <2>1 DEF Init, TypeOK
  <2>3. \A c \in Creates : create[c] = NewCreate
    BY DEF Init
  <2>4. \A d \in Downloads : download[d] = NewDownload
    BY DEF Init
  <2>5. HolderIsOutermost
    BY <2>3, <2>4, BridgeRuntimeAssumption
       DEF Init, HolderIsOutermost, Inside, NewCreate, NewDownload
  <2>6. NotYetWrapped
    BY <2>3, ToSetOfOriginal DEF Init, NotYetWrapped, NewCreate
  <2>7. DiagnosticIsOwn /\ FailuresAreTheirOwn /\ WrongOnlyIfWrapped
    BY <2>3 DEF DiagnosticIsOwn, FailuresAreTheirOwn, WrongOnlyIfWrapped, NewCreate
  <2>8. BrokenOnlyIfWrapped
    BY <2>4 DEF BrokenOnlyIfWrapped, NewDownload
  <2> QED  BY <2>2, <2>5, <2>6, <2>7, <2>8 DEF RuntimeInv
<1>2. RuntimeInv /\ [Next]_vars => RuntimeInv'
  <2> SUFFICES ASSUME RuntimeInv, [Next]_vars PROVE RuntimeInv'
    OBVIOUS
  <2>1. CASE UNCHANGED vars
    BY <2>1, CreatesStand
       DEF vars, RuntimeInv, TypeOK, HolderIsOutermost, Inside, BrokenOnlyIfWrapped
  <2>2. ASSUME NEW c \in Creates, ReadSend(c) \/ CreateStep(c)
        PROVE  RuntimeInv'
    BY <2>2, ReadSendKeeps, PatchSendKeeps, SendKeeps, ClassifyRaisedKeeps, RestoreSendKeeps,
       ClassifyReturnedKeeps DEF CreateStep
  <2>3. ASSUME NEW d \in Downloads, QueryTask(d) \/ DownloadStep(d)
        PROVE  RuntimeInv'
    BY <2>3, DownloadKeeps
  <2> QED  BY <2>1, <2>2, <2>3 DEF Next
<1> QED  BY <1>1, <1>2, PTL DEF Spec

\* A create whose call raised is reported as not created only when it was, as
\* _raise_create_error judges it before the lock is given up.
THEOREM FailuresAreJudgedByTheirOwn == Spec => []FailuresAreTheirOwn
<1>1. RuntimeInv => FailuresAreTheirOwn
  BY DEF RuntimeInv
<1> QED  BY <1>1, RuntimeInvariant, PTL

\* A create that was made and is reported as not created, which the check of the
\* status after the lock allows, was wrapped by another: without creates that
\* read `send` while another's closure is in place every verdict is true.
THEOREM WrongVerdictsNeedAWrapper == Spec => []WrongOnlyIfWrapped
<1>1. RuntimeInv => WrongOnlyIfWrapped
  BY DEF RuntimeInv
<1> QED  BY <1>1, RuntimeInvariant, PTL

\* A download is spoilt exactly by having read requests.get while another's
\* closure was in place, not by anything that is left behind later.
THEOREM DownloadsBreakOnlyIfWrapped == Spec => []BrokenOnlyIfWrapped
<1>1. RuntimeInv => BrokenOnlyIfWrapped
  BY DEF RuntimeInv
<1> QED  BY <1>1, RuntimeInvariant, PTL

\* Inside the SDK are never two requests: two creates, two downloads, or one of
\* each.
AloneInside ==
  /\ \A c, d \in Creates : Inside(c) /\ Inside(d) => c = d
  /\ \A c, d \in Downloads :
       download[c].step \in {"query", "locked"} /\ download[d].step \in {"query", "locked"}
         => c = d
  /\ \A c \in Creates, d \in Downloads :
       ~(Inside(c) /\ download[d].step \in {"query", "locked"})

THEOREM OneRequestIsInside == Spec => []AloneInside
<1>1. RuntimeInv => AloneInside
  BY BridgeRuntimeAssumption DEF RuntimeInv, HolderIsOutermost, AloneInside
<1> QED  BY <1>1, RuntimeInvariant, PTL
=============================================================================
