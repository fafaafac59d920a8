---------------------------- MODULE Assets_proofs -----------------------------
(***************************************************************************)
(* AssetsInv is an invariant of Assets, for any number of uploads, tasks,  *)
(* cleanups and failures, and any contents the files may have; with it     *)
(* what the Provider is handed, and what is marked as deleted.  Then two   *)
(* modules without variables: that the rules of uploading, referring to,   *)
(* publishing and fetching an asset agree with each other (AssetRules),    *)
(* and what holds in every environment the processes accept (Settings).    *)
(***************************************************************************)
EXTENDS Assets, Settings, FiniteSetTheorems, TLAPS

-----------------------------------------------------------------------------
(* Records. *)

\* What Goto leaves of a task.
LEMMA GotoFields ==
  ASSUME TypeOK, NEW t \in Tasks, NEW step, Goto(t, step),
         step \in InFlight \cup {"queued", "sent", "lost", "ended"}
  PROVE  /\ task' \in [Tasks -> Task]
         /\ task'[t].step = step /\ task'[t].asset = task[t].asset
         /\ task'[t].gate = task[t].gate
         /\ \A u \in Tasks \ {t} : task'[u] = task[u]
  BY DEF TypeOK, Goto, Task, InFlight

\* What a step of an upload leaves of it.
LEMMA UploadFields ==
  ASSUME TypeOK, NEW a \in Uploads, NEW step \in {"undo", "done", "failed"},
         UploadTo(a, step)
  PROVE  /\ upload' \in [Uploads -> Upload]
         /\ upload'[a].step = step /\ upload'[a].row = upload[a].row
         /\ \A b \in Uploads \ {a} : upload'[b] = upload[b]
  BY DEF TypeOK, UploadTo, Upload

\* A failure is counted, and the count is bounded.
LEMMA FaultsFit ==
  ASSUME TypeOK, Works \/ Fault
  PROVE  faults' \in 0..MaxFaults /\ (faults > 0 => faults' > 0) /\ (Fault => faults' > 0)
  BY AssetsAssumption DEF TypeOK, Works, Fault

\* A status of 201 comes with a row.
LEMMA AcceptedHasRow ==
  ASSUME NEW offer \in Offers, NEW f \in Received(offer[1], offer[2]),
         UploadStatus(f, offer[2]) = 201
  PROVE  f \in Contents /\ RowOf(f, offer[2]) \in Rows
<1>1. f \in Contents /\ offer[2] \in MimeTypes
  BY AssetsAssumption DEF Received, Streamed
<1>2. CASE offer[2] = "video/mp4"
  BY <1>1, <1>2 DEF RowOf, Rows
<1>3. CASE offer[2] # "video/mp4"
  <2>1. offer[2] \in ImageTypes
    BY <1>3 DEF UploadStatus, UploadImage
  <2>2. QED
    BY <1>1, <1>3, <2>1 DEF RowOf, Rows
<1>4. QED
  BY <1>2, <1>3

LEMMA InitIsFine == Init => AssetsInv
<1> SUFFICES ASSUME Init PROVE AssetsInv
  OBVIOUS
<1>1. TypeOK
  BY AssetsAssumption DEF Init, TypeOK, Upload, Files, Task, Record, NoRecord, Cleaner, Cleaning,
                          IdleCleaner
<1>2. UploadsAreTrue /\ RecordsFit /\ HandedOver /\ DeletedIsGone /\ NoStrays
  BY DEF Init, UploadsAreTrue, RecordsFit, HandedOver, DeletedIsGone, NoStrays, NoRecord
<1>3. CleanersFit
  BY DEF Init, CleanersFit, IdleCleaner, Cleaning
<1>4. QED
  BY <1>1, <1>2, <1>3 DEF AssetsInv

\* Only uploads step: a task refers to uploads that are done, whose rows stay.
LEMMA UploadKeeps ==
  ASSUME AssetsInv, NEW a \in Uploads, Store(a) \/ CreateRow(a) \/ UndoStore(a) \/ Damage(a)
  PROVE  AssetsInv'
<1>1. UNCHANGED <<task, object, record, cleaner>> /\ (Works \/ Fault)
  BY DEF Store, CreateRow, UndoStore, Damage, Attempt, Breaks, Works
<1>2. faults' \in 0..MaxFaults /\ (faults > 0 => faults' > 0)
  BY <1>1, FaultsFit DEF AssetsInv
<1>3. /\ upload' \in [Uploads -> Upload] /\ file' \in [Uploads -> Files]
      /\ row' \in [Uploads -> Rows \cup {NoRow}] /\ UploadsAreTrue'
      /\ \A b \in Uploads : upload[b].step = "done" =>
                              upload'[b].step = "done" /\ row'[b] = row[b]
  <2>1. CASE Store(a)
    <3>1. upload[a].step = "idle" /\ UNCHANGED row
      BY <2>1 DEF Store
    <3>2. CASE UNCHANGED file /\ UploadTo(a, "failed")
      BY <3>1, <3>2, UploadFields DEF AssetsInv, TypeOK, UploadsAreTrue, Upload
    <3>3. CASE \E offer \in Offers : \E f \in Received(offer[1], offer[2]) :
                 /\ UploadStatus(f, offer[2]) = 201
                 /\ file' = [file EXCEPT ![a] = f]
                 /\ upload' = [upload EXCEPT ![a] = [step |-> "row", row |-> RowOf(f, offer[2])]]
      <4> PICK offer \in Offers :
              \E f \in Received(offer[1], offer[2]) :
                /\ UploadStatus(f, offer[2]) = 201
                /\ file' = [file EXCEPT ![a] = f]
                /\ upload' = [upload EXCEPT ![a] = [step |-> "row", row |-> RowOf(f, offer[2])]]
        BY <3>3
      <4>1. PICK f \in Received(offer[1], offer[2]) :
              /\ UploadStatus(f, offer[2]) = 201
              /\ file' = [file EXCEPT ![a] = f]
              /\ upload' = [upload EXCEPT ![a] = [step |-> "row", row |-> RowOf(f, offer[2])]]
        OBVIOUS
      <4>2. f \in Contents /\ RowOf(f, offer[2]) \in Rows
        BY <4>1, AcceptedHasRow
      <4>3. RowOf(f, offer[2]) # NoRow
        BY <4>2, NoRowAssumption
      <4>4. QED
        BY <3>1, <4>1, <4>2, <4>3 DEF AssetsInv, TypeOK, UploadsAreTrue, Upload, Files
    <3>4. QED
      BY <2>1, <3>2, <3>3 DEF Store
  <2>2. CASE CreateRow(a)
    <3>1. /\ upload[a].step = "row" /\ UNCHANGED file
          /\ row' = row \/ row' = [row EXCEPT ![a] = upload[a].row]
          /\ \/ UploadTo(a, "undo")
             \/ /\ UploadTo(a, "done")
                /\ row' = [row EXCEPT ![a] = upload[a].row]
      BY <2>2 DEF CreateRow, Attempt, Breaks
    <3>2. upload[a].row # NoRow /\ upload[a] \in Upload
      BY <3>1 DEF AssetsInv, UploadsAreTrue, TypeOK
    <3>3. /\ upload' \in [Uploads -> Upload]
          /\ upload'[a].row = upload[a].row
          /\ upload'[a].step \in {"undo", "done"}
          /\ upload'[a].step = "done" => row'[a] = upload[a].row
          /\ \A b \in Uploads \ {a} : upload'[b] = upload[b]
      <4>1. CASE UploadTo(a, "undo")
        BY <4>1, UploadFields DEF AssetsInv
      <4>2. CASE /\ UploadTo(a, "done")
                 /\ row' = [row EXCEPT ![a] = upload[a].row]
        <5>1. row'[a] = upload[a].row
          BY <4>2 DEF AssetsInv, TypeOK
        <5>2. QED
          BY <4>2, <5>1, UploadFields DEF AssetsInv
      <4>3. QED
        BY <3>1, <4>1, <4>2
    <3>4. /\ row' \in [Uploads -> Rows \cup {NoRow}]
          /\ row'[a] \in {row[a], upload[a].row}
          /\ \A b \in Uploads \ {a} : row'[b] = row[b]
      <4>1. upload[a].row \in Rows /\ row \in [Uploads -> Rows \cup {NoRow}]
        BY <3>2 DEF Upload, AssetsInv, TypeOK
      <4>2. QED
        BY <3>1, <4>1
    <3>5. UploadsAreTrue'
      BY <3>2, <3>3, <3>4 DEF AssetsInv, UploadsAreTrue
    <3>6. QED
      BY <3>1, <3>3, <3>4, <3>5 DEF AssetsInv, TypeOK
  <2>3. CASE UndoStore(a)
    <3>1. /\ upload[a].step = "undo" /\ UNCHANGED row
          /\ file' = file \/ file' = [file EXCEPT ![a] = NoFile]
          /\ UploadTo(a, "failed")
      BY <2>3 DEF UndoStore, Attempt, Breaks
    <3>2. QED
      BY <3>1, UploadFields DEF AssetsInv, TypeOK, UploadsAreTrue, Upload, Files
  <2>4. CASE Damage(a)
    BY <2>4 DEF Damage, AssetsInv, TypeOK, UploadsAreTrue
  <2>5. QED
    BY <2>1, <2>2, <2>3, <2>4
<1>4. TypeOK'
  BY <1>1, <1>2, <1>3 DEF AssetsInv, TypeOK
<1>5. RecordsFit' /\ CleanersFit' /\ DeletedIsGone'
  BY <1>1, <1>3 DEF AssetsInv, TypeOK, Task, RecordsFit, CleanersFit, DeletedIsGone
<1>6. HandedOver'
  BY <1>1, <1>3 DEF AssetsInv, TypeOK, Task, HandedOver, RecordsFit, Matches, RowFor
<1>7. NoStrays'
  BY <1>1, <1>2 DEF AssetsInv, NoStrays
<1>8. QED
  BY <1>3, <1>4, <1>5, <1>6, <1>7 DEF AssetsInv

\* The API dies: the same, for all uploads at once.
LEMMA ApiDiesKeeps == ASSUME AssetsInv, ApiDies PROVE AssetsInv'
<1>1. UNCHANGED <<file, row, task, object, record, cleaner>> /\ Fault
  BY DEF ApiDies
<1>2. faults' \in 0..MaxFaults /\ (faults > 0 => faults' > 0)
  BY <1>1, FaultsFit DEF AssetsInv
<1>3. upload' \in [Uploads -> Upload] /\ UploadsAreTrue'
      /\ \A b \in Uploads : upload[b].step = "done" => upload'[b].step = "done"
  BY <1>1 DEF ApiDies, AssetsInv, TypeOK, UploadsAreTrue, Upload
<1>4. TypeOK'
  BY <1>1, <1>2, <1>3 DEF AssetsInv, TypeOK
<1>5. RecordsFit' /\ CleanersFit' /\ DeletedIsGone'
  BY <1>1, <1>3 DEF AssetsInv, TypeOK, Task, RecordsFit, CleanersFit, DeletedIsGone
<1>6. HandedOver'
  BY <1>1, <1>3 DEF AssetsInv, HandedOver, Matches, RowFor
<1>7. NoStrays'
  BY <1>1, <1>2 DEF AssetsInv, NoStrays
<1>8. QED
  BY <1>3, <1>4, <1>5, <1>6, <1>7 DEF AssetsInv

\* One task steps, by itself: what the other parts of the invariant need of it.
LEMMA TaskKeeps ==
  ASSUME AssetsInv, NEW t \in Tasks, ~task[t].gate,
         UNCHANGED <<upload, file, row, cleaner>>, Works \/ Fault,
         task' \in [Tasks -> Task], object' \in [Tasks -> Files], record' \in [Tasks -> Record],
         \A u \in Tasks \ {t} : task'[u] = task[u] /\ object'[u] = object[u]
                                /\ record'[u] = record[u],
         task'[t].step # "queued" => /\ task'[t].asset # NoAsset
                                     /\ upload[task'[t].asset].step = "done",
         task'[t].step \in {"queued", "inspect", "put"} => object'[t] = NoFile,
         task'[t].step = "verify" => object'[t] # NoFile,
         task'[t].step \in {"queued", "inspect", "put", "verify", "record"} =>
           record'[t] = NoRecord,
         ~task'[t].gate,
         record'[t].state \in {"none", "active"},
         record'[t].state = "none" => ~record'[t].error,
         task'[t].step \in {"record", "sent"} => Matches(t)',
         task'[t].step = "sent" => record'[t].state = "active",
         object'[t] # NoFile /\ record'[t].state # "active" =>
           faults' > 0 \/ task'[t].step \in {"verify", "record"}
  PROVE  AssetsInv'
<1>1. faults' \in 0..MaxFaults /\ (faults > 0 => faults' > 0)
  BY FaultsFit DEF AssetsInv
<1>2. TypeOK' /\ UploadsAreTrue'
  BY <1>1 DEF AssetsInv, TypeOK, UploadsAreTrue
<1>3. RecordsFit' /\ DeletedIsGone' /\ NoStrays'
  BY <1>1 DEF AssetsInv, RecordsFit, DeletedIsGone, NoStrays
<1>4. CleanersFit'
  BY DEF AssetsInv, CleanersFit
<1>5. HandedOver'
  BY DEF AssetsInv, HandedOver, Matches, RowFor
<1>6. QED
  BY <1>2, <1>3, <1>4, <1>5 DEF AssetsInv

LEMMA PublishingKeeps ==
  ASSUME AssetsInv, NEW t \in Tasks, Claim(t) \/ Publishing(t) PROVE AssetsInv'
<1> USE DEF AssetsInv
<1>1. TypeOK /\ RecordsFit /\ HandedOver /\ NoStrays /\ DeletedIsGone
  OBVIOUS
<1>2. task[t].step \in InFlight \cup {"queued"} /\ ~task[t].gate
      /\ UNCHANGED <<upload, file, row, cleaner>>
  <2>1. task[t].step \in InFlight \cup {"queued"} /\ UNCHANGED <<upload, file, row, cleaner>>
    BY DEF Claim, Publishing, Inspect, Put, Verify, RecordPublished, Discard, InFlight
  <2>2. QED
    BY <2>1, <1>1 DEF RecordsFit, InFlight
<1>3. CASE Claim(t)
  <2>1. PICK a \in Uploads :
          /\ upload[a].step = "done"
          /\ task' = [task EXCEPT ![t] = [step |-> "inspect", asset |-> a, gate |-> FALSE]]
    BY <1>3 DEF Claim
  <2>2. task' \in [Tasks -> Task] /\ task'[t] = [step |-> "inspect", asset |-> a, gate |-> FALSE]
        /\ \A u \in Tasks \ {t} : task'[u] = task[u]
    BY <2>1, <1>1 DEF TypeOK, Task, InFlight
  <2>3. task[t].step = "queued" /\ UNCHANGED <<object, record, faults>>
    BY <1>3 DEF Claim
  <2>4. object[t] = NoFile /\ record[t] = NoRecord
    BY <2>3, <1>1 DEF RecordsFit
  <2>5. task'[t].step = "inspect" /\ task'[t].asset = a /\ ~task'[t].gate /\ a # NoAsset
    BY <2>2, AssetsAssumption
  <2>6. record[t].state = "none" /\ ~record[t].error
    BY <2>4 DEF NoRecord
  <2>7. QED
    BY <1>1, <1>2, <2>1, <2>2, <2>3, <2>4, <2>5, <2>6, TaskKeeps DEF TypeOK, Works
<1>4. CASE Inspect(t)
  <2>1. PICK step \in {"put", "failing"} : Goto(t, step)
    BY <1>4 DEF Inspect
  <2>2. /\ task' \in [Tasks -> Task] /\ task'[t].step = step
        /\ task'[t].asset = task[t].asset /\ ~task'[t].gate
        /\ \A u \in Tasks \ {t} : task'[u] = task[u]
    BY <2>1, <1>1, <1>2, GotoFields DEF InFlight
  <2>3. task[t].step = "inspect" /\ UNCHANGED <<object, record, faults>>
    BY <1>4 DEF Inspect
  <2>4. object[t] = NoFile /\ record[t] = NoRecord
        /\ task[t].asset # NoAsset /\ upload[task[t].asset].step = "done"
    BY <2>3, <1>1 DEF RecordsFit
  <2>5. QED
    BY <1>1, <1>2, <2>2, <2>3, <2>4, TaskKeeps DEF TypeOK, NoRecord, Works
<1>5. CASE Put(t)
  <2>1. task[t].step = "put" /\ UNCHANGED record
    BY <1>5 DEF Put
  <2>2. PICK step \in {"verify", "failing"} : Goto(t, step)
    BY <1>5 DEF Put
  <2>3. /\ task' \in [Tasks -> Task] /\ task'[t].step = step
        /\ task'[t].asset = task[t].asset /\ ~task'[t].gate
        /\ \A u \in Tasks \ {t} : task'[u] = task[u]
    BY <2>2, <1>1, <1>2, GotoFields DEF InFlight
  <2>4. object[t] = NoFile /\ record[t] = NoRecord
        /\ task[t].asset # NoAsset /\ upload[task[t].asset].step = "done"
    BY <2>1, <1>1 DEF RecordsFit
  <2>5. /\ object' \in [Tasks -> Files] /\ \A u \in Tasks \ {t} : object'[u] = object[u]
        /\ task'[t].step = "verify" => object'[t] # NoFile
        /\ object'[t] # NoFile => task'[t].step = "verify" \/ faults' > 0
        /\ Works \/ Fault
    <3>1. FileFor(t) \in Files
      <4>1. task[t].asset \in Uploads
        BY <2>4, <1>1 DEF TypeOK, Task
      <4>2. QED
        BY <4>1, <1>1 DEF TypeOK, FileFor
    <3>2. CASE /\ FileFor(t) # NoFile /\ object' = [object EXCEPT ![t] = FileFor(t)]
               /\ Works /\ Goto(t, "verify")
      <4>1. task'[t].step = "verify"
        BY <3>2, <1>1, GotoFields DEF InFlight
      <4>2. QED
        BY <3>1, <3>2, <4>1, <1>1 DEF TypeOK
    <3>3. CASE /\ object' \in {object, [object EXCEPT ![t] = FileFor(t)]}
               /\ Fault /\ Goto(t, "failing")
      <4>1. task'[t].step = "failing" /\ faults' > 0
        BY <3>3, <1>1, GotoFields, FaultsFit DEF InFlight
      <4>2. QED
        BY <3>1, <3>3, <4>1, <1>1 DEF TypeOK
    <3>4. CASE UNCHANGED object /\ Works /\ Goto(t, "failing")
      <4>1. task'[t].step = "failing"
        BY <3>4, <1>1, GotoFields DEF InFlight
      <4>2. QED
        BY <3>4, <4>1, <2>4, <1>1 DEF TypeOK
    <3>5. QED
      BY <1>5, <3>2, <3>3, <3>4 DEF Put, Attempt, Breaks
  <2>6. QED
    BY <1>1, <1>2, <2>1, <2>2, <2>3, <2>4, <2>5, TaskKeeps DEF TypeOK, NoRecord
<1>6. CASE Verify(t) \/ Discard(t)
  <2>1. /\ task[t].step \in {"verify", "discard"} /\ UNCHANGED record
        /\ task[t].asset # NoAsset /\ upload[task[t].asset].step = "done"
    BY <1>1, <1>6 DEF Verify, Discard, RecordsFit
  <2>2. PICK step \in {"record", "failing"} : Goto(t, step)
    BY <1>6 DEF Verify, Discard
  <2>3. /\ task' \in [Tasks -> Task] /\ task'[t].step = step
        /\ task'[t].asset = task[t].asset /\ ~task'[t].gate
        /\ \A u \in Tasks \ {t} : task'[u] = task[u]
    BY <2>2, <1>1, <1>2, GotoFields DEF InFlight
  <2>4. /\ record[t].state \in {"none", "active"}
        /\ record[t].state = "none" => ~record[t].error
        /\ task[t].step = "verify" => record[t] = NoRecord /\ object[t] # NoFile
    BY <1>1, <1>2, <2>1 DEF RecordsFit, TypeOK, Record
  <2>5. CASE Goto(t, "record")
    <3>1. task'[t].step = "record"
      BY <2>5, <1>1, GotoFields DEF InFlight
    <3>2. task[t].step = "verify" /\ Verified(t) /\ Works /\ UNCHANGED object
      <4>1. ~Goto(t, "failing")
        <5>1. Goto(t, "failing") => task'[t].step = "failing"
          BY <1>1, GotoFields DEF InFlight
        <5>2. QED
          BY <3>1, <5>1
      <4>2. QED
        BY <1>6, <4>1 DEF Verify, Discard
    <3>3. Matches(t)'
      BY <1>2, <2>3, <2>4, <3>2 DEF Matches, Verified, RowFor
    <3>4. QED
      BY <1>1, <1>2, <2>1, <2>3, <2>4, <3>1, <3>2, <3>3, TaskKeeps DEF TypeOK
  <2>6. CASE Goto(t, "failing")
    <3>1. task'[t].step = "failing"
      BY <2>6, <1>1, GotoFields DEF InFlight
    <3>2. ~Goto(t, "record")
      <4>1. Goto(t, "record") => task'[t].step = "record"
        BY <1>1, GotoFields DEF InFlight
      <4>2. QED
        BY <3>1, <4>1
    <3>3. \/ object' = [object EXCEPT ![t] = NoFile] /\ Works
          \/ object' \in {object, [object EXCEPT ![t] = NoFile]} /\ Fault
      BY <1>6, <3>2 DEF Verify, Discard, DeleteObject, Attempt, Breaks
    <3>4. /\ object' \in [Tasks -> Files] /\ \A u \in Tasks \ {t} : object'[u] = object[u]
          /\ object'[t] # NoFile => faults' > 0
          /\ Works \/ Fault
      BY <1>1, <3>3, FaultsFit DEF TypeOK, Files
    <3>5. QED
      BY <1>1, <1>2, <2>1, <2>3, <2>4, <3>1, <3>4, TaskKeeps DEF TypeOK
  <2>7. QED
    BY <2>2, <2>5, <2>6
<1>7. CASE RecordPublished(t)
  <2>1. /\ task[t].step = "record" /\ UNCHANGED object
        /\ task[t].asset # NoAsset /\ upload[task[t].asset].step = "done"
        /\ Matches(t) /\ record[t] = NoRecord
    BY <1>1, <1>7 DEF RecordPublished, RecordsFit, HandedOver
  <2>2. PICK step \in {"sent", "discard"} : Goto(t, step)
    BY <1>7 DEF RecordPublished
  <2>3. /\ task' \in [Tasks -> Task] /\ task'[t].step = step
        /\ task'[t].asset = task[t].asset /\ ~task'[t].gate
        /\ \A u \in Tasks \ {t} : task'[u] = task[u]
    BY <2>2, <1>1, <1>2, GotoFields DEF InFlight
  <2>4. \A new : new = [record EXCEPT ![t].state = "active"] =>
          /\ new \in [Tasks -> Record] /\ new[t].state = "active"
          /\ \A u \in Tasks \ {t} : new[u] = record[u]
    BY <1>1 DEF TypeOK, Record
  <2>5. Matches(t)'
    BY <1>2, <2>1, <2>3 DEF Matches, RowFor
  <2>6. record[t].state = "none" /\ ~record[t].error
    BY <2>1 DEF NoRecord
  <2>7. /\ record' \in [Tasks -> Record]
        /\ \A u \in Tasks \ {t} : record'[u] = record[u]
        /\ record'[t].state \in {"none", "active"}
        /\ record'[t].state = "none" => ~record'[t].error
    BY <1>1, <1>7, <2>4, <2>6 DEF RecordPublished, Attempt, Breaks, TypeOK
  <2>8. /\ task'[t].step = "sent" => record'[t].state = "active"
        /\ task'[t].step = "discard" => faults' > 0
        /\ Works \/ Fault
    <3>1. CASE Works /\ record' = [record EXCEPT ![t].state = "active"] /\ Goto(t, "sent")
      <4>1. task'[t].step = "sent"
        BY <3>1, <1>1, GotoFields
      <4>2. QED
        BY <3>1, <4>1, <2>4
    <3>2. CASE Fault /\ Goto(t, "discard")
      <4>1. task'[t].step = "discard" /\ faults' > 0
        BY <3>2, <1>1, GotoFields, FaultsFit DEF InFlight
      <4>2. QED
        BY <3>2, <4>1
    <3>3. QED
      BY <1>7, <3>1, <3>2 DEF RecordPublished, Attempt, Breaks
  <2>9. QED
    BY <1>1, <1>2, <2>1, <2>2, <2>3, <2>5, <2>7, <2>8, TaskKeeps DEF TypeOK
<1>8. QED
  BY <1>3, <1>4, <1>5, <1>6, <1>7 DEF Publishing

LEMMA EndKeeps == ASSUME AssetsInv, NEW t \in Tasks, End(t) PROVE AssetsInv'
<1>1. /\ task[t].step \in {"failing", "sent", "lost"}
      /\ UNCHANGED <<upload, file, row, object, record, faults>>
  BY DEF End
<1>2. /\ task' \in [Tasks -> Task] /\ task'[t].step = "ended"
      /\ task'[t].asset = task[t].asset
      /\ \A u \in Tasks \ {t} : task'[u] = task[u]
  <2>1. CASE task' = [task EXCEPT ![t] = [step |-> "ended", asset |-> task[t].asset,
                                          gate |-> TRUE]]
    BY <2>1 DEF AssetsInv, TypeOK, Task
  <2>2. CASE Goto(t, "ended")
    BY <2>2, GotoFields DEF AssetsInv
  <2>3. QED
    BY <2>1, <2>2 DEF End
<1>3. /\ cleaner' \in [Cleaners -> Cleaner]
      /\ \A c \in Cleaners : cleaner'[c] = cleaner[c] \/ cleaner'[c].step = "find"
  <2>1. CASE UNCHANGED cleaner
    BY <2>1 DEF AssetsInv, TypeOK
  <2>2. CASE \E c \in Cleaners : cleaner' = [cleaner EXCEPT ![c] = Cleaning("find", NoTask, {t})]
    BY <2>2 DEF AssetsInv, TypeOK, Cleaner, Cleaning
  <2>3. QED
    BY <2>1, <2>2 DEF End
<1>4. TypeOK' /\ UploadsAreTrue' /\ NoStrays' /\ DeletedIsGone'
  BY <1>1, <1>2, <1>3 DEF AssetsInv, TypeOK, UploadsAreTrue, NoStrays, DeletedIsGone
<1>5. task[t].asset # NoAsset /\ upload[task[t].asset].step = "done" /\ ~task[t].gate
  BY <1>1 DEF AssetsInv, RecordsFit
<1>6. RecordsFit'
  BY <1>1, <1>2, <1>5 DEF AssetsInv, RecordsFit
<1>7. CleanersFit'
  BY <1>1, <1>2, <1>3, <1>5 DEF AssetsInv, TypeOK, CleanersFit
<1>8. HandedOver'
  BY <1>1, <1>2 DEF AssetsInv, HandedOver, Matches, RowFor
<1>9. QED
  BY <1>4, <1>6, <1>7, <1>8 DEF AssetsInv

\* A cleanup steps: it touches only what belongs to a task whose gate is open,
\* and such a task is over.
LEMMA CleanerKeeps ==
  ASSUME AssetsInv, NEW c \in Cleaners,
         UNCHANGED <<upload, file, row, task>>, Works \/ Fault,
         \A k \in Cleaners \ {c} : cleaner'[k] = cleaner[k],
         cleaner' \in [Cleaners -> Cleaner], object' \in [Tasks -> Files],
         record' \in [Tasks -> Record],
         \A t \in Tasks : /\ ~task[t].gate => object'[t] = object[t] /\ record'[t] = record[t]
                          /\ object'[t] \in {object[t], NoFile}
                          /\ record[t].state = "none" => record'[t] = record[t]
                          /\ record[t].state # "none" => record'[t].state # "none"
                          /\ record'[t].state = "deleted" =>
                               object'[t] = NoFile /\ ~record'[t].error,
         cleaner'[c].step \in {"delete", "mark", "fail"} =>
           /\ cleaner'[c].task \in Tasks /\ task[cleaner'[c].task].gate
           /\ record'[cleaner'[c].task].state # "none",
         cleaner'[c].step = "mark" => object'[cleaner'[c].task] = NoFile
  PROVE  AssetsInv'
<1>1. faults' \in 0..MaxFaults /\ (faults > 0 => faults' > 0)
  BY FaultsFit DEF AssetsInv
<1>2. TypeOK' /\ UploadsAreTrue' /\ DeletedIsGone'
  BY <1>1 DEF AssetsInv, TypeOK, UploadsAreTrue, DeletedIsGone
<1>3. \A t \in Tasks : task[t].gate => task[t].step = "ended"
  BY DEF AssetsInv, RecordsFit
<1>4. RecordsFit'
  BY <1>3 DEF AssetsInv, RecordsFit
<1>5. NoStrays'
  <2> SUFFICES ASSUME NEW t \in Tasks, object'[t] # NoFile, record'[t].state # "active"
               PROVE  faults' > 0 \/ task'[t].step \in {"verify", "record"}
    BY DEF NoStrays
  <2>1. record[t].state # "active"
    <3>1. record'[t].state \in {"none", "deleted"}
      BY DEF Record
    <3>2. record'[t].state = "none"
      BY <3>1
    <3>3. QED
      BY <3>2
  <2>2. QED
    BY <1>1, <2>1 DEF AssetsInv, NoStrays
<1>6. CleanersFit'
  BY DEF AssetsInv, CleanersFit
<1>7. HandedOver'
  BY <1>3 DEF AssetsInv, HandedOver, Matches, RowFor
<1>8. QED
  BY <1>2, <1>4, <1>5, <1>6, <1>7 DEF AssetsInv

\* What a step of a cleanup makes of it.
LEMMA CleanerSteps ==
  ASSUME TypeOK, NEW c \in Cleaners, NEW step \in {"delete", "mark", "fail", "find"},
         NEW t \in Tasks \cup {NoTask}, NEW left \in SUBSET Tasks,
         cleaner' = [cleaner EXCEPT ![c] = Cleaning(step, t, left)]
  PROVE  /\ cleaner' \in [Cleaners -> Cleaner]
         /\ cleaner'[c].step = step /\ cleaner'[c].task = t
         /\ \A k \in Cleaners \ {c} : cleaner'[k] = cleaner[k]
  BY DEF TypeOK, Cleaner, Cleaning

LEMMA OnwardSteps ==
  ASSUME TypeOK, NEW c \in Cleaners, Onward(c)
  PROVE  /\ cleaner' \in [Cleaners -> Cleaner]
         /\ cleaner'[c].step \in {"idle", "find"}
         /\ \A k \in Cleaners \ {c} : cleaner'[k] = cleaner[k]
  BY DEF TypeOK, Cleaner, Cleaning, IdleCleaner, Onward

LEMMA CleanupKeeps ==
  ASSUME AssetsInv, NEW c \in Cleaners, Sweep(c) \/ Clean(c) PROVE AssetsInv'
<1>1. UNCHANGED <<upload, file, row, task>> /\ (Works \/ Fault) /\ TypeOK
  BY DEF AssetsInv, Sweep, Clean, Find, Delete, Mark, MarkFailed, Attempt, Breaks, Works
<1>2. cleaner[c] \in Cleaner /\ cleaner[c].left \in SUBSET Tasks
  BY DEF AssetsInv, TypeOK, Cleaner
<1>3. \A t \in Tasks : /\ record[t] \in Record /\ object[t] \in Files
                       /\ record[t].state = "deleted" => object[t] = NoFile /\ ~record[t].error
  BY DEF AssetsInv, TypeOK, DeletedIsGone
<1>0. PICK t : t = cleaner[c].task
  OBVIOUS
<1>4. cleaner[c].step \in {"delete", "mark", "fail"} =>
        /\ t \in Tasks /\ task[t].gate /\ record[t].state # "none"
  BY <1>0 DEF AssetsInv, CleanersFit
<1>5. CASE Sweep(c) \/ Find(c)
  <2>1. UNCHANGED <<object, record>>
    BY <1>5 DEF Sweep, Find
  <2>2. /\ cleaner' \in [Cleaners -> Cleaner] /\ \A k \in Cleaners \ {c} : cleaner'[k] = cleaner[k]
        /\ \/ cleaner'[c].step \in {"idle", "find"}
           \/ cleaner'[c].step = "delete" /\ cleaner'[c].task \in ReleasedTasks
    <3>1. CASE cleaner' = [cleaner EXCEPT ![c] = IdleCleaner]
      BY <1>1, <3>1 DEF TypeOK, Cleaner, Cleaning, IdleCleaner
    <3>2. CASE \E left \in SUBSET Tasks :
                 cleaner' = [cleaner EXCEPT ![c] = Cleaning("find", NoTask, left)]
      BY <1>1, <3>2, CleanerSteps
    <3>3. CASE \E u \in ReleasedTasks, left \in SUBSET Tasks :
                 cleaner' = [cleaner EXCEPT ![c] = Cleaning("delete", u, left)]
      <4>1. ReleasedTasks \subseteq Tasks
        BY DEF ReleasedTasks
      <4>2. QED
        BY <1>1, <3>3, <4>1, CleanerSteps
    <3>4. CASE Sweep(c)
      <4>1. ReleasedTasks \subseteq Tasks
        BY DEF ReleasedTasks
      <4>2. QED
        BY <3>4, <4>1, <3>2 DEF Sweep
    <3>5. ASSUME NEW u \in cleaner[c].left, NEW left \in SUBSET Tasks,
                 cleaner' = [cleaner EXCEPT ![c] =
                   CASE u \in ReleasedTasks -> Cleaning("delete", u, left)
                     [] u \notin ReleasedTasks /\ left # {} -> Cleaning("find", NoTask, left)
                     [] OTHER -> IdleCleaner]
          PROVE  \/ cleaner' = [cleaner EXCEPT ![c] = IdleCleaner]
                 \/ cleaner' = [cleaner EXCEPT ![c] = Cleaning("find", NoTask, left)]
                 \/ /\ u \in ReleasedTasks
                    /\ cleaner' = [cleaner EXCEPT ![c] = Cleaning("delete", u, left)]
      BY <3>5, Zenon
    <3>6. CASE Find(c)
      <4>1. CASE cleaner' = [cleaner EXCEPT ![c] = IdleCleaner]
        BY <3>1, <4>1
      <4>2. CASE \E u \in cleaner[c].left :
                   LET left == cleaner[c].left \ {u}
                   IN  cleaner' = [cleaner EXCEPT ![c] =
                         CASE u \in ReleasedTasks -> Cleaning("delete", u, left)
                           [] u \notin ReleasedTasks /\ left # {} -> Cleaning("find", NoTask, left)
                           [] OTHER -> IdleCleaner]
        <5>1. PICK u \in cleaner[c].left :
                cleaner' = [cleaner EXCEPT ![c] =
                  CASE u \in ReleasedTasks -> Cleaning("delete", u, cleaner[c].left \ {u})
                    [] u \notin ReleasedTasks /\ cleaner[c].left \ {u} # {} ->
                         Cleaning("find", NoTask, cleaner[c].left \ {u})
                    [] OTHER -> IdleCleaner]
          BY <4>2
        <5>2. cleaner[c].left \ {u} \in SUBSET Tasks
          BY <1>2
        <5>3. QED
          BY <3>1, <3>2, <3>3, <3>5, <5>1, <5>2, Zenon
      <4>3. QED
        BY <3>6, <4>1, <4>2 DEF Find
    <3>7. QED
      BY <1>5, <3>4, <3>6
  <2>3. cleaner'[c].step \notin {"mark", "fail"}
        /\ (cleaner'[c].step = "delete" =>
              /\ cleaner'[c].task \in Tasks /\ task[cleaner'[c].task].gate
              /\ record[cleaner'[c].task].state = "active")
    BY <2>2 DEF ReleasedTasks
  <2>4. QED
    BY <1>1, <1>3, <2>1, <2>2, <2>3, CleanerKeeps DEF TypeOK
<1>6. CASE Delete(c)
  <2>1. t \in Tasks /\ task[t].gate /\ record[t].state # "none" /\ UNCHANGED record
    BY <1>4, <1>6 DEF Delete
  <2>2. PICK step \in {"mark", "fail"} :
          /\ cleaner' = [cleaner EXCEPT ![c] = Cleaning(step, t, cleaner[c].left)]
          /\ object' \in {object, [object EXCEPT ![t] = NoFile]}
          /\ step = "mark" => object' = [object EXCEPT ![t] = NoFile]
    BY <1>0, <1>6 DEF Delete, Attempt, Breaks
  <2>3. /\ object' \in [Tasks -> Files]
        /\ step = "mark" => object'[t] = NoFile
        /\ \A u \in Tasks \ {t} : object'[u] = object[u]
        /\ object'[t] \in {object[t], NoFile}
    BY <1>1, <2>1, <2>2 DEF TypeOK, Files
  <2>4. /\ cleaner' \in [Cleaners -> Cleaner] /\ \A k \in Cleaners \ {c} : cleaner'[k] = cleaner[k]
        /\ cleaner'[c].step = step /\ cleaner'[c].task = t
    BY <1>1, <1>2, <2>1, <2>2, CleanerSteps
  <2>5. \A u \in Tasks : /\ ~task[u].gate => object'[u] = object[u]
                         /\ object'[u] \in {object[u], NoFile}
                         /\ record[u].state = "deleted" => object'[u] = NoFile
    <3>1. \A u \in Tasks : record[u].state = "deleted" => object[u] = NoFile
      BY <1>3
    <3>2. \A u \in Tasks : object'[u] \in {object[u], NoFile} /\ (u # t => object'[u] = object[u])
      BY <2>3
    <3>3. \A u \in Tasks : ~task[u].gate => u # t
      BY <2>1
    <3>4. QED
      BY <3>1, <3>2, <3>3
  <2>6. record' = record /\ record' \in [Tasks -> Record]
    BY <1>1, <2>1 DEF TypeOK
  <2>7. QED
    BY <1>1, <1>3, <2>1, <2>3, <2>4, <2>5, <2>6, CleanerKeeps
<1>7. CASE Mark(c)
  <2>1. t \in Tasks /\ task[t].gate /\ record[t].state # "none" /\ UNCHANGED object
        /\ object[t] = NoFile
    BY <1>0, <1>4, <1>7 DEF Mark, AssetsInv, CleanersFit
  <2>2. \/ UNCHANGED record
        \/ record' = [record EXCEPT ![t] = [state |-> "deleted", error |-> FALSE]]
    BY <1>0, <1>7 DEF Mark, Attempt, Breaks
  <2>3. /\ record' \in [Tasks -> Record] /\ \A u \in Tasks \ {t} : record'[u] = record[u]
        /\ \/ record'[t] = record[t]
           \/ record'[t].state = "deleted" /\ ~record'[t].error
    <3>1. [state |-> "deleted", error |-> FALSE] \in Record
      BY DEF Record
    <3>2. record \in [Tasks -> Record]
      BY <1>1 DEF TypeOK
    <3>3. CASE UNCHANGED record
      BY <3>2, <3>3
    <3>4. CASE record' = [record EXCEPT ![t] = [state |-> "deleted", error |-> FALSE]]
      <4>1. record'[t] = [state |-> "deleted", error |-> FALSE]
        BY <2>1, <3>2, <3>4
      <4>2. QED
        BY <2>1, <3>1, <3>2, <3>4, <4>1
    <3>5. QED
      BY <2>2, <3>3, <3>4
  <2>4. \/ Onward(c)
        \/ cleaner' = [cleaner EXCEPT ![c] = Cleaning("fail", t, cleaner[c].left)]
    BY <1>0, <1>7 DEF Mark
  <2>5. /\ cleaner' \in [Cleaners -> Cleaner] /\ \A k \in Cleaners \ {c} : cleaner'[k] = cleaner[k]
        /\ cleaner'[c].step \in {"idle", "find"} \/ (cleaner'[c].step = "fail" /\ cleaner'[c].task = t)
    BY <1>1, <1>2, <2>1, <2>4, OnwardSteps, CleanerSteps
  <2>6. QED
    BY <1>1, <1>3, <2>1, <2>3, <2>5, CleanerKeeps DEF TypeOK
<1>8. CASE MarkFailed(c)
  <2>1. t \in Tasks /\ task[t].gate /\ record[t].state # "none" /\ UNCHANGED object
    BY <1>4, <1>8 DEF MarkFailed
  <2>2. \/ UNCHANGED record
        \/ record[t].state = "active" /\ record' = [record EXCEPT ![t].error = TRUE]
    BY <1>0, <1>8 DEF MarkFailed, StillActive, Attempt, Breaks
  <2>3. /\ record' \in [Tasks -> Record] /\ \A u \in Tasks \ {t} : record'[u] = record[u]
        /\ record'[t] = record[t] \/ record'[t].state = "active"
    BY <1>1, <2>1, <2>2 DEF TypeOK, Record
  <2>4. Onward(c)
    BY <1>8 DEF MarkFailed
  <2>5. QED
    BY <1>1, <1>3, <2>1, <2>3, <2>4, OnwardSteps, CleanerKeeps DEF TypeOK
<1>9. QED
  BY <1>5, <1>6, <1>7, <1>8 DEF Clean

LEMMA WorkerDiesKeeps == ASSUME AssetsInv, WorkerDies PROVE AssetsInv'
<1>1. /\ UNCHANGED <<upload, file, row, object, record>> /\ Fault
      /\ cleaner' = [c \in Cleaners |-> IdleCleaner]
  BY DEF WorkerDies
<1>2. faults' \in 0..MaxFaults /\ faults' > 0
  BY <1>1, FaultsFit DEF AssetsInv
<1>3. /\ task' \in [Tasks -> Task]
      /\ \A t \in Tasks : /\ task'[t].asset = task[t].asset /\ task'[t].gate = task[t].gate
                          /\ \/ task'[t].step = task[t].step /\ task[t].step \notin InFlight
                             \/ task'[t].step = "lost" /\ task[t].step \in InFlight
  BY DEF WorkerDies, AssetsInv, TypeOK, Task, InFlight
<1>4. TypeOK' /\ UploadsAreTrue' /\ DeletedIsGone' /\ NoStrays' /\ CleanersFit'
  BY <1>1, <1>2, <1>3 DEF AssetsInv, TypeOK, UploadsAreTrue, DeletedIsGone, NoStrays,
                          CleanersFit, IdleCleaner, Cleaning, Cleaner
<1>5. RecordsFit'
  BY <1>1, <1>3 DEF AssetsInv, RecordsFit, InFlight
<1>6. HandedOver'
  BY <1>1, <1>3 DEF AssetsInv, HandedOver, Matches, RowFor, InFlight
<1>7. QED
  BY <1>4, <1>5, <1>6 DEF AssetsInv

\* AssetsInv always holds: whatever fails and whoever dies, what the Provider
\* is handed is what the upload stored, a cleanup touches what is released only, and
\* nothing is lost on EOS without a failure.
THEOREM AssetsInvariant == Spec => []AssetsInv
<1>1. ASSUME AssetsInv, Next PROVE AssetsInv'
  BY <1>1, UploadKeeps, ApiDiesKeeps, PublishingKeeps, EndKeeps, CleanupKeeps, WorkerDiesKeeps
     DEF Next, Uploading
<1>2. AssetsInv /\ UNCHANGED vars => AssetsInv'
  BY DEF AssetsInv, vars, TypeOK, UploadsAreTrue, RecordsFit, CleanersFit, HandedOver, Matches,
         RowFor, DeletedIsGone, NoStrays
<1>3. QED
  BY <1>1, <1>2, InitIsFine, PTL DEF Spec

\* The Provider fetches, under the URL it is given, the bytes the
\* upload stored: the comparison after the upload to EOS makes up for the file
\* being read again after its inspection.
THEOREM ProviderGetsTheUpload == Spec => []HandedOver
<1>1. AssetsInv => HandedOver
  BY DEF AssetsInv
<1>2. QED
  BY <1>1, AssetsInvariant, PTL

\* A record that says "deleted" is right, and no slower cleanup writes its
\* error over it.
THEOREM DeletedIsTrue == Spec => []DeletedIsGone
<1>1. AssetsInv => DeletedIsGone
  BY DEF AssetsInv
<1>2. QED
  BY <1>1, AssetsInvariant, PTL

-----------------------------------------------------------------------------
(* The rules of uploading, referring to, publishing and fetching, for all  *)
(* limits. *)

\* The milliseconds of a video of an accepted length are well within the two
\* milliseconds of tolerance.
LEMMA AcceptedIsClose ==
  ASSUME NEW d \in Nat, MinDuration <= d
  PROVE  Rounded(d) > 0 /\ Near(Rounded(d) * 1000, d)
  BY SMT DEF Rounded, MinDuration, Near

\* A video the API has accepted, as it came through and while nobody touches
\* its file, passes every check of the publishers: with the same limit, no task can fail for a video
\* that was uploaded.
THEOREM UploadedVideosArePublishable ==
  ASSUME NEW f \in File, RealFile(f), NEW extension \in BOOLEAN,
         UploadVideo(f, extension) = 201
  PROVE  Publishable(VideoRow(f), f, PurposeOf("INPUT_VIDEO"))
<1>1. f.size <= VideoMax /\ VideoAccepted(f)
  <2>1. ~(f.size > VideoMax) /\ VideoAccepted(f)
    BY DEF UploadVideo
  <2>2. f.size \in Nat /\ VideoMax \in Nat
    BY AssetRulesAssumption, SMT DEF File
  <2>3. QED
    BY <2>1, <2>2, SMT
<1>2. f.mp4 /\ f.videoStreams = 1 /\ f.duration > 0 /\ f.complete
        /\ MinDuration <= f.duration
  BY <1>1, Zenon DEF VideoAccepted
<1>3. f.size \in Nat /\ f.duration \in Nat
  BY SMT DEF File
<1>4. f.size > 0
  BY <1>2, Zenon DEF RealFile
<1>5. Rounded(f.duration) > 0 /\ Near(Rounded(f.duration) * 1000, f.duration)
  <2>1. f.duration \in Nat /\ MinDuration <= f.duration
    BY <1>2, <1>3
  <2>2. QED
    BY <2>1, AcceptedIsClose, SMT
<1>6. SameVideo(VideoRow(f), f)
  <2>1. VideoRow(f).duration = Rounded(f.duration) /\ VideoRow(f).stream = f.stream
    BY Zenon DEF VideoRow
  <2>2. QED
    BY <1>5, <2>1, Zenon DEF SameVideo
<1>7. /\ VideoRow(f).kind = "INPUT_VIDEO" /\ VideoRow(f).type = "video/mp4"
      /\ VideoRow(f).size = f.size /\ VideoRow(f).checksum = f.checksum
  BY SMT DEF VideoRow
<1>8. PurposeOf("INPUT_VIDEO") = "reference-video"
  BY SMT DEF PurposeOf
<1>9. /\ KindOf("reference-video") = "INPUT_VIDEO" /\ "video/mp4" \in TypesOf("reference-video")
      /\ MaxOf("reference-video") = VideoMax /\ "reference-video" # "reference-image"
  BY SMT DEF KindOf, TypesOf, MaxOf, ProviderVideoTypes
<1>10. QED
  BY <1>1, <1>4, <1>6, <1>7, <1>8, <1>9, Zenon DEF Publishable

\* An uploaded image can be published exactly when it also meets what the
\* upload does not look at: the type the Provider takes, the bytes' own type,
\* and the size limit of publishing.
THEOREM UploadedImagesArePublishableIf ==
  ASSUME NEW f \in File, NEW type \in ImageTypes, UploadImage(f, type) = 201
  PROVE  Publishable(ImageRow(f, type), f, PurposeOf("INPUT_IMAGE"))
           <=> /\ type \in ProviderImageTypes /\ f.magic = type
               /\ f.size > 0 /\ f.size <= ImageMax
  BY SMT DEF File, Publishable, ImageRow, PurposeOf, KindOf, TypesOf, MaxOf,
       ProviderVideoTypes

\* A task the API accepts for Seedance has at most the one reference asset the
\* worker publishes, of a type the publishers take for its role.
THEOREM AcceptedReferencesFitTheWorker ==
  ASSUME NEW assets, IsFiniteSet(assets),
         \A a \in assets : a.kind \in {"INPUT_IMAGE", "INPUT_VIDEO"},
         NEW capabilities \in Capabilities, capabilities.seedance,
         NEW asked \in Nat, ReferencesAccepted(asked, assets, capabilities)
  PROVE  /\ Cardinality(assets) <= 1
         /\ \A a \in assets : /\ a.kind = KindOf(PurposeOf(a.kind))
                              /\ a.type \in TypesOf(PurposeOf(a.kind))
<1>1. IsFiniteSet(Images(assets)) /\ IsFiniteSet(Videos(assets))
  BY FS_Subset DEF Images, Videos
<1>2. assets = Images(assets) \cup Videos(assets) /\ Images(assets) \cap Videos(assets) = {}
  BY SMT DEF Images, Videos
<1>3. Cardinality(Images(assets) \cup Videos(assets))
        = Cardinality(Images(assets)) + Cardinality(Videos(assets))
  <2>1. Cardinality(Images(assets)) \in Nat /\ Cardinality(Videos(assets)) \in Nat
    BY <1>1, FS_CardinalityType
  <2>2. Cardinality(Images(assets) \cap Videos(assets)) = 0
    BY <1>2, FS_EmptySet
  <2>3. QED
    <3>1. Cardinality(Images(assets) \cup Videos(assets))
            = Cardinality(Images(assets)) + Cardinality(Videos(assets))
                - Cardinality(Images(assets) \cap Videos(assets))
      BY <1>1, FS_Union, Zenon
    <3>2. QED
      BY <2>1, <2>2, <3>1
<1>4. Cardinality(assets) <= 1
  BY <1>2, <1>3 DEF ReferencesAccepted
<1>5. ASSUME NEW a \in assets
      PROVE  a.kind = KindOf(PurposeOf(a.kind)) /\ a.type \in TypesOf(PurposeOf(a.kind))
  BY DEF ReferencesAccepted, Images, Videos, KindOf, PurposeOf, TypesOf
<1>6. QED
  BY <1>4, <1>5

\* What a publisher hands out lives at least as long as the worker asked for:
\* the whole create request and the margin after it.
THEOREM UrlsOutliveTheCreate ==
  ASSUME NEW minimum \in Nat, NEW ttl \in Nat, NEW seconds \in Nat, NEW now \in Nat
  PROVE  /\ HmacTtlSuffices(minimum, ttl) => Expires(now, ttl) - now >= minimum
         /\ EosTtlSuffices(minimum, seconds) => Expires(now, seconds * 1000) - now >= minimum
  BY SMT DEF HmacTtlSuffices, EosTtlSuffices, Expires

\* The API honours a URL from the instant of its signing on the worker's clock
\* until it expires, and at no other time: an API whose clock is behind refuses
\* a URL that was just issued.
THEOREM UrlsAreHonouredWhileAlive ==
  ASSUME NEW signed \in Nat, NEW ttl \in Nat, NEW now \in Nat
  PROVE  Authorised(Expires(signed, ttl), now, ttl)
           <=> signed <= now /\ now < Expires(signed, ttl)
  BY SMT DEF Authorised, Expires

-----------------------------------------------------------------------------
(* Environments. *)

\* The types of the fields the theorems read.
LEMMA EnvironmentFields ==
  ASSUME NEW e \in Environment
  PROVE  /\ e.pollInterval \in Nat /\ e.maxPollInterval \in Nat
         /\ e.downloadTimeout \in Nat
         /\ e.jitter \in 0..500
         /\ e.heartbeatTtl \in Nat \ (0..4)
  BY DEF Environment

\* A scaled delay is a positive number of milliseconds, and at most half more
\* than the delay it was drawn for.
LEMMA ScaledBounds ==
  ASSUME NEW d, NEW t, d \in Nat, t \in 500..1500
  PROVE  /\ Scaled(d, t) \in Nat \ {0}
         /\ 2 * Scaled(d, t) <= 3 * d + 2
<1>1. d * t \in Nat /\ d * t <= 1500 * d
  OBVIOUS
<1>2. (2 * d * t + 1000) \div 2000 \in Nat /\ 2000 * ((2 * d * t + 1000) \div 2000) <= 2 * d * t + 1000
  BY <1>1, SMT
<1>3. 2 * d * t <= 3000 * d
  BY <1>1, SMT
<1>4. 2 * ((2 * d * t + 1000) \div 2000) <= 3 * d + 1
  BY <1>1, <1>2, <1>3, SMT
<1>5. QED
  BY <1>2, <1>4, SMT DEF Scaled, Larger

\* Both ends of a jittered delay are scaled delays.
LEMMA JitteredBounds ==
  ASSUME NEW d \in Nat, NEW j \in 0..500, NEW x \in JitteredDelays(d, j)
  PROVE  x \in Nat \ {0} /\ 2 * x <= 3 * d + 2
<1> DEFINE low == 1000 - j
           high == 1000 + j
<1>1. low \in 500..1500 /\ high \in 500..1500
  OBVIOUS
<1>2. x \in Scaled(d, low) .. Scaled(d, high)
  BY DEF JitteredDelays
<1> HIDE DEF low, high
<1>3. Scaled(d, low) \in Nat \ {0}
  BY <1>1, ScaledBounds
<1>4. Scaled(d, high) \in Nat \ {0} /\ 2 * Scaled(d, high) <= 3 * d + 2
  BY <1>1, ScaledBounds
<1>5. QED
  BY <1>2, <1>3, <1>4

LEMMA CappedBounds ==
  ASSUME NEW base \in Nat, NEW max \in Nat, NEW factor \in Nat
  PROVE  CappedDelay(base, max, factor) \in Nat /\ CappedDelay(base, max, factor) <= max
<1>1. base * factor \in Nat
  OBVIOUS
<1>2. QED
  BY <1>1 DEF CappedDelay, Smaller

\* handlePollError and handleDownloadError: whatever the number of errors, the
\* jitter and the Provider's retry-after, the next attempt lies in the future,
\* not before retry-after, and, when it is not the Provider who asks for more,
\* at most half the maximal interval beyond that interval.
THEOREM ErrorDelaysAreBounded ==
  ASSUME NEW base \in Nat, NEW max \in Nat, NEW factor \in Nat, NEW jitter \in 0..500,
         NEW after \in Nat, NEW d \in ErrorDelays(base, max, factor, jitter, after)
  PROVE  /\ d \in Nat \ {0}
         /\ d >= after
         /\ d # after => 2 * d <= 3 * max + 2
<1> DEFINE capped == CappedDelay(base, max, factor)
<1>1. PICK x \in JitteredDelays(capped, jitter) : d = Larger(x, after)
  BY DEF ErrorDelays
<1>2. capped \in Nat /\ capped <= max
  BY CappedBounds
<1>3. x \in Nat \ {0} /\ 2 * x <= 3 * capped + 2
  <2> HIDE DEF capped
  <2> QED
    BY <1>1, <1>2, JitteredBounds
<1> HIDE DEF capped
<1>4. QED
  BY <1>1, <1>2, <1>3 DEF Larger

\* The delays of polling are what Polling assumes of its constant: a poll is
\* never due at the instant it is scheduled, in any accepted environment.
THEOREM PollDelaysArePositive ==
  ASSUME NEW e \in Environment, NEW factors \in SUBSET Nat, NEW afters \in SUBSET Nat
  PROVE  PollDelays(e, factors, afters) \subseteq Nat \ {0}
<1>1. e.jitter \in 0..500 /\ BaseInterval(e) \in Nat /\ MaxInterval(e) \in Nat
  BY EnvironmentFields, SMT DEF BaseInterval, MaxInterval, OrDefault
<1>2. JitteredDelays(BaseInterval(e), e.jitter) \subseteq Nat \ {0}
  BY <1>1, JitteredBounds
<1>3. ASSUME NEW factor \in factors, NEW after \in afters
      PROVE  ErrorDelays(BaseInterval(e), MaxInterval(e), factor, e.jitter, after)
               \subseteq Nat \ {0}
  <2>1. factor \in Nat /\ after \in Nat
    OBVIOUS
  <2>2. QED
    BY <1>1, <2>1, ErrorDelaysAreBounded
<1>4. QED
  BY <1>2, <1>3 DEF PollDelays

\* A heartbeat outlives the two writes that follow it: one that fails, or one
\* that comes late, does not make the worker look dead to the health check.
THEOREM HeartbeatOutlivesTwoMisses ==
  ASSUME NEW e \in Environment
  PROVE  HeartbeatEvery(e) > 0 /\ 2 * HeartbeatEvery(e) < HeartbeatLasts(e)
<1>1. e.heartbeatTtl \in Nat /\ e.heartbeatTtl >= 5
  BY EnvironmentFields, SMT
<1>2. QED
  BY <1>1, SMT DEF HeartbeatEvery, HeartbeatLasts

\* An API that takes reference assets for Seedance has a worker that can
\* publish them, when both were started with the same environment: the API
\* looks at the name of the publisher only, the worker at its variables.
THEOREM ReferencesCanBePublished ==
  ASSUME NEW e \in Environment, AcceptedByApi(e), AcceptedByWorker(e),
         e.provider = "seedance", ApiTakesReferences(e)
  PROVE  WorkerPublisher(e) # "none"
  BY DEF AcceptedByWorker, ApiTakesReferences, WorkerPublisher, HasHmac, HasEos

\* The calls of a download run that are cut off fit into its lease and leave
\* DownloadSlack for the rest, as long as a file that does not match its record
\* can be deleted; otherwise a run may take four timeouts.
THEOREM LeaseCoversTheDownload ==
  ASSUME NEW e \in Environment, NEW recorded \in BOOLEAN, NEW found \in FileStates
  PROVE  DownloadTimeout(e) * TimedCalls(recorded, found, TRUE) + DownloadSlack <= DownloadLease(e)
<1>1. DownloadTimeout(e) \in Nat
  BY EnvironmentFields, SMT DEF DownloadTimeout, OrDefault
<1>2. TimedCalls(recorded, found, TRUE) \in 0..3
  BY DEF TimedCalls, FirstInspection, SecondInspection, Recovered, Transfers,
         AfterRecord, FileStates
<1> DEFINE t == DownloadTimeout(e)
           n == TimedCalls(recorded, found, TRUE)
<1> SUFFICES t * n + DownloadSlack <= DownloadLease(e)
  OBVIOUS
<1>3. t \in Nat /\ n \in 0..3
  BY <1>1, <1>2
<1> HIDE DEF t, n
<1>4. t * n + DownloadSlack <= t * 3 + DownloadSlack
  BY <1>3, SMT DEF DownloadSlack
<1>5. DownloadLease(e) = t * 3 + DownloadSlack
  BY DEF DownloadLease, t
<1>6. QED
  BY <1>4, <1>5, SMT
=============================================================================
