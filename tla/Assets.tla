-------------------------------- MODULE Assets --------------------------------
(***************************************************************************)
(* The files of reference assets and their copies on EOS, over many tasks: *)
(* the upload of POST /api/assets, the publication by the submit processor *)
(* (storage/src/s3-presigned-asset-publisher.ts), and the cleanup, which   *)
(* every processor runs for the task it ended and a timer runs in batches  *)
(* (cleanupTerminalPublishedAssets).  Several of these overlap; disks,     *)
(* EOS and the database fail; processes die.                               *)
(*                                                                         *)
(* What is uploaded and accepted is AssetRules.  Submission has the other  *)
(* steps of one task, and the conditions under which its gate opens.       *)
(***************************************************************************)
EXTENDS AssetRules

CONSTANTS Uploads,       \* runs of POST /api/assets, and so the ids of assets
          Tasks,         \* tasks with one reference each
          Cleaners,      \* cleanups that may run at a time
          NoFile, NoRow, NoAsset, NoTask,
          Contents,      \* bound: the files there are
          Offers,        \* what clients upload: a file and the type they call it
          Undeletable,   \* tasks published under a bucket or prefix of before
          Limit,         \* WORKER_RECONCILE_BATCH_SIZE
          Slots,         \* concurrency of the queue's worker
          MaxFaults      \* bound: failures and deaths

\* A checksum tells the contents apart.
ASSUME AssetsAssumption ==
  /\ \A f \in Contents : RealFile(f)
  /\ \A f, g \in Contents : f.checksum = g.checksum => f = g
  /\ NoFile \notin Contents
  /\ Offers \subseteq Contents \X MimeTypes
  /\ NoAsset \notin Uploads /\ NoTask \notin Tasks
  /\ Undeletable \subseteq Tasks
  /\ Limit \in Nat \ {0} /\ Slots \in Nat \ {0} /\ MaxFaults \in Nat

VARIABLES upload,    \* upload[a]: the run of the handler
          file,      \* file[a]: what the local storage has under its key
          row,       \* row[a]: its Asset row
          task,      \* task[t]: the reference of t, how far it is, and its gate
          object,    \* object[t]: what EOS has under the key drawn for t
          record,    \* record[t]: its PublishedProviderAsset row
          cleaner,   \* cleaner[c]: a cleanup
          faults     \* faults so far

vars == <<upload, file, row, task, object, record, cleaner, faults>>

Files == Contents \cup {NoFile}
Rows == {ImageRow(f, type) : f \in Contents, type \in ImageTypes}
          \cup {VideoRow(f) : f \in Contents}
ASSUME NoRowAssumption == NoRow \notin Rows

\* row: the row it is about to create.
Upload == [step: {"idle", "row", "undo", "done", "failed"}, row: Rows \cup {NoRow}]

\* While its slot of the worker has it; "lost" when the worker died with it.
InFlight == {"inspect", "put", "verify", "record", "discard", "failing"}
Task == [step: InFlight \cup {"queued", "sent", "lost", "ended"},
         asset: Uploads \cup {NoAsset}, gate: BOOLEAN]

Record == [state: {"none", "active", "deleted"}, error: BOOLEAN]
NoRecord == [state |-> "none", error |-> FALSE]

Cleaner == [step: {"idle", "find", "delete", "mark", "fail"},
            task: Tasks \cup {NoTask}, left: SUBSET Tasks]
Cleaning(step, t, left) == [step |-> step, task |-> t, left |-> left]
IdleCleaner == Cleaning("idle", NoTask, {})

Init == /\ upload = [a \in Uploads |-> [step |-> "idle", row |-> NoRow]]
        /\ file = [a \in Uploads |-> NoFile]
        /\ row = [a \in Uploads |-> NoRow]
        /\ task = [t \in Tasks |-> [step |-> "queued", asset |-> NoAsset, gate |-> FALSE]]
        /\ object = [t \in Tasks |-> NoFile]
        /\ record = [t \in Tasks |-> NoRecord]
        /\ cleaner = [c \in Cleaners |-> IdleCleaner]
        /\ faults = 0

Fault == faults < MaxFaults /\ faults' = faults + 1

\* A call that works; or it fails, before or after it did its work.
Works == UNCHANGED faults
Attempt(variable, done) == variable' = done /\ Works
Breaks(variable, done) == variable' \in {variable, done} /\ Fault

-----------------------------------------------------------------------------
(* POST /api/assets. *)

UploadTo(a, step) == upload' = [upload EXCEPT ![a].step = step]

UploadStatus(f, type) ==
  IF type = "video/mp4" THEN UploadVideo(f, TRUE) ELSE UploadImage(f, type)
RowOf(f, type) == IF type = "video/mp4" THEN VideoRow(f) ELSE ImageRow(f, type)
Received(f, type) == IF type = "video/mp4" THEN Streamed(f, Contents) ELSE {f}

\* put, or putAtomic: a file that is not accepted leaves nothing.
Store(a) ==
  /\ upload[a].step = "idle"
  /\ \E offer \in Offers : \E f \in Received(offer[1], offer[2]) :
       IF UploadStatus(f, offer[2]) = 201
         THEN /\ file' = [file EXCEPT ![a] = f]
              /\ upload' = [upload EXCEPT ![a] = [step |-> "row", row |-> RowOf(f, offer[2])]]
         ELSE /\ UploadTo(a, "failed")
              /\ UNCHANGED file
  /\ UNCHANGED <<row, task, object, record, cleaner, faults>>

\* asset.create; 201, or the file is deleted again.
CreateRow(a) ==
  /\ upload[a].step = "row"
  /\ LET created == [row EXCEPT ![a] = upload[a].row]
     IN  \/ Attempt(row, created) /\ UploadTo(a, "done")
         \/ Breaks(row, created) /\ UploadTo(a, "undo")
  /\ UNCHANGED <<file, task, object, record, cleaner>>

UndoStore(a) ==
  /\ upload[a].step = "undo"
  /\ LET deleted == [file EXCEPT ![a] = NoFile]
     IN  Attempt(file, deleted) \/ Breaks(file, deleted)
  /\ UploadTo(a, "failed")
  /\ UNCHANGED <<row, task, object, record, cleaner>>

ApiDies ==
  /\ \E a \in Uploads : upload[a].step \in {"row", "undo"}
  /\ Fault
  /\ upload' = [a \in Uploads |-> IF upload[a].step \in {"row", "undo"}
                                    THEN [upload[a] EXCEPT !.step = "failed"] ELSE upload[a]]
  /\ UNCHANGED <<file, row, task, object, record, cleaner>>

\* The disk loses or changes a file, once: the world outside.
Damage(a) == /\ upload[a].step = "done" /\ file[a] # NoFile
             /\ file[a].checksum = row[a].checksum
             /\ \E f \in Files \ {file[a]} : file' = [file EXCEPT ![a] = f]
             /\ UNCHANGED <<upload, row, task, object, record, cleaner, faults>>

-----------------------------------------------------------------------------
(* The submit processor. *)

Goto(t, step) == task' = [task EXCEPT ![t].step = step]

\* Seedance's capabilities.
Seedance == [seedance |-> TRUE, supportsImages |-> TRUE, supportsVideos |-> TRUE,
             maxImages |-> 1, maxVideos |-> 1]

\* A task was created with the asset, and a slot of the worker claims it.
Claim(t) ==
  /\ task[t].step = "queued"
  /\ Cardinality({u \in Tasks : task[u].step \in InFlight}) < Slots
  /\ \E a \in Uploads :
       /\ upload[a].step = "done" /\ ReferencesAccepted(1, {row[a]}, Seedance)
       /\ task' = [task EXCEPT ![t] = [step |-> "inspect", asset |-> a, gate |-> FALSE]]
  /\ UNCHANGED <<upload, file, row, object, record, cleaner, faults>>

RowFor(t) == row[task[t].asset]
FileFor(t) == file[task[t].asset]

\* loadValidatedProviderAsset.
Inspect(t) ==
  /\ task[t].step = "inspect"
  /\ IF FileFor(t) # NoFile /\ Publishable(RowFor(t), FileFor(t), PurposeOf(RowFor(t).kind))
       THEN Goto(t, "put") ELSE Goto(t, "failing")
  /\ UNCHANGED <<upload, file, row, object, record, cleaner, faults>>

\* PutObject reads the file again; the bytes must be as many as were announced.
Put(t) ==
  /\ task[t].step = "put"
  /\ LET stored == [object EXCEPT ![t] = FileFor(t)]
     IN  IF FileFor(t) # NoFile /\ FileFor(t).size = RowFor(t).size
           THEN \/ Attempt(object, stored) /\ Goto(t, "verify")
                \/ Breaks(object, stored) /\ Goto(t, "failing")
           ELSE Works /\ Goto(t, "failing") /\ UNCHANGED object
  /\ UNCHANGED <<upload, file, row, record, cleaner>>

\* The URL is signed and fetched once, and what it gives compared with the row.
NotCompared(t) == TRUE
Verified(t) == object[t].checksum = RowFor(t).checksum

\* Mutant: the object stays when the comparison fails.
KeepObject(t) == UNCHANGED object /\ (Works \/ Fault)
DeleteObject(t) == LET deleted == [object EXCEPT ![t] = NoFile]
                   IN  Attempt(object, deleted) \/ Breaks(object, deleted)

\* When they differ, or the signing or the fetch fails, the object is deleted.
Verify(t) ==
  /\ task[t].step = "verify"
  /\ \/ Verified(t) /\ Works /\ UNCHANGED object /\ Goto(t, "record")
     \/ ~Verified(t) /\ DeleteObject(t) /\ Goto(t, "failing")
     \/ Breaks(object, [object EXCEPT ![t] = NoFile]) /\ Goto(t, "failing")
  /\ UNCHANGED <<upload, file, row, record, cleaner>>

\* recordPublishedAsset; the create request comes next.
RecordPublished(t) ==
  /\ task[t].step = "record"
  /\ LET recorded == [record EXCEPT ![t].state = "active"]
     IN  \/ Attempt(record, recorded) /\ Goto(t, "sent")
         \/ Breaks(record, recorded) /\ Goto(t, "discard")
  /\ UNCHANGED <<upload, file, row, object, cleaner>>

\* deleteUnrecordedPublishedAssets.
Discard(t) ==
  /\ task[t].step = "discard"
  /\ DeleteObject(t)
  /\ Goto(t, "failing")
  /\ UNCHANGED <<upload, file, row, record, cleaner>>

\* The task is over: not published, not created, or ended by the Provider, and
\* the process that says so cleans up, unless it dies first; or it was
\* cancelled before, and its gate stays closed.
End(t) ==
  /\ task[t].step \in {"failing", "sent", "lost"}
  /\ \/ /\ task' = [task EXCEPT ![t] = [step |-> "ended", asset |-> task[t].asset, gate |-> TRUE]]
        /\ \/ UNCHANGED cleaner
           \/ \E c \in Cleaners :
                /\ cleaner[c].step = "idle"
                /\ cleaner' = [cleaner EXCEPT ![c] = Cleaning("find", NoTask, {t})]
     \/ Goto(t, "ended") /\ UNCHANGED cleaner
  /\ UNCHANGED <<upload, file, row, object, record, faults>>

-----------------------------------------------------------------------------
(* The cleanup. *)

\* findTerminalTasksWithPublishedAssets: the gate opens for final tasks only.
\* Mutant: what could not be deleted once is not tried again.
UntriedTasks == {t \in Tasks : record[t] = [state |-> "active", error |-> FALSE] /\ task[t].gate}
ReleasedTasks == {t \in Tasks : record[t].state = "active" /\ task[t].gate}

\* The timer: any tasks up to the limit, for the query states no order; it does
\* not wait for the cleanup of before.
Sweep(c) ==
  /\ cleaner[c].step = "idle" /\ ReleasedTasks # {}
  /\ \E batch \in SUBSET ReleasedTasks :
       /\ Cardinality(batch) = Limit \/ batch = ReleasedTasks
       /\ Cardinality(batch) <= Limit
       /\ cleaner' = [cleaner EXCEPT ![c] = Cleaning("find", NoTask, batch)]
  /\ UNCHANGED <<upload, file, row, task, object, record, faults>>

\* On to the next task of the batch, or done.
Onward(c) == cleaner' = [cleaner EXCEPT ![c] =
               IF cleaner[c].left = {} THEN IdleCleaner
               ELSE Cleaning("find", NoTask, cleaner[c].left)]

\* findPublishedAssets of one task; when it throws the batch is given up.
Find(c) ==
  /\ cleaner[c].step = "find"
  /\ \/ \E t \in cleaner[c].left :
          LET left == cleaner[c].left \ {t}
          IN  cleaner' = [cleaner EXCEPT ![c] =
                CASE t \in ReleasedTasks -> Cleaning("delete", t, left)
                  [] t \notin ReleasedTasks /\ left # {} -> Cleaning("find", NoTask, left)
                  [] OTHER -> IdleCleaner]
        /\ Works
     \/ cleaner' = [cleaner EXCEPT ![c] = IdleCleaner] /\ Fault
  /\ UNCHANGED <<upload, file, row, task, object, record>>

\* deletePublishedAsset, which refuses an object that is not of its bucket and
\* prefix.
Delete(c) ==
  /\ cleaner[c].step = "delete"
  /\ LET t == cleaner[c].task
         deleted == [object EXCEPT ![t] = NoFile]
         After(step) == cleaner' = [cleaner EXCEPT ![c] = Cleaning(step, t, cleaner[c].left)]
     IN  \/ t \notin Undeletable /\ Attempt(object, deleted) /\ After("mark")
         \/ t \notin Undeletable /\ Breaks(object, deleted) /\ After("fail")
         \/ t \in Undeletable /\ Works /\ UNCHANGED object /\ After("fail")
  /\ UNCHANGED <<upload, file, row, task, record>>

\* markPublishedAssetDeleted.
Mark(c) ==
  /\ cleaner[c].step = "mark"
  /\ LET t == cleaner[c].task
         marked == IF record[t].state = "active"
                     THEN [record EXCEPT ![t] = [state |-> "deleted", error |-> FALSE]] ELSE record
     IN  \/ Attempt(record, marked) /\ Onward(c)
         \/ /\ Breaks(record, marked)
            /\ cleaner' = [cleaner EXCEPT ![c] = Cleaning("fail", t, cleaner[c].left)]
  /\ UNCHANGED <<upload, file, row, task, object>>

\* markPublishedAssetCleanupFailed, whose own failure is swallowed.
AnyRecord(t) == TRUE
StillActive(t) == record[t].state = "active"
MarkFailed(c) ==
  /\ cleaner[c].step = "fail"
  /\ LET t == cleaner[c].task
         noted == IF StillActive(t) THEN [record EXCEPT ![t].error = TRUE] ELSE record
     IN  Attempt(record, noted) \/ Breaks(record, noted)
  /\ Onward(c)
  /\ UNCHANGED <<upload, file, row, task, object>>

\* The worker dies, with its slots and its cleanups.
WorkerDies ==
  /\ \/ \E t \in Tasks : task[t].step \in InFlight
     \/ \E c \in Cleaners : cleaner[c].step # "idle"
  /\ Fault
  /\ task' = [t \in Tasks |-> IF task[t].step \in InFlight
                                THEN [task[t] EXCEPT !.step = "lost"] ELSE task[t]]
  /\ cleaner' = [c \in Cleaners |-> IdleCleaner]
  /\ UNCHANGED <<upload, file, row, object, record>>

-----------------------------------------------------------------------------
Uploading(a) == Store(a) \/ CreateRow(a) \/ UndoStore(a)
Publishing(t) == Inspect(t) \/ Put(t) \/ Verify(t) \/ RecordPublished(t) \/ Discard(t)
Clean(c) == Find(c) \/ Delete(c) \/ Mark(c) \/ MarkFailed(c)

Next == \/ \E a \in Uploads : Uploading(a) \/ Damage(a)
        \/ \E t \in Tasks : Claim(t) \/ Publishing(t) \/ End(t)
        \/ \E c \in Cleaners : Sweep(c) \/ Clean(c)
        \/ ApiDies \/ WorkerDies

\* The timer runs, and a cleanup that runs goes on.
Fairness == /\ WF_vars(\E c \in Cleaners : Sweep(c))
            /\ \A c \in Cleaners : WF_vars(Clean(c))

Spec == Init /\ [][Next]_vars /\ Fairness

-----------------------------------------------------------------------------
TypeOK == /\ upload \in [Uploads -> Upload]
          /\ file \in [Uploads -> Files]
          /\ row \in [Uploads -> Rows \cup {NoRow}]
          /\ task \in [Tasks -> Task]
          /\ object \in [Tasks -> Files]
          /\ record \in [Tasks -> Record]
          /\ cleaner \in [Cleaners -> Cleaner]
          /\ faults \in 0..MaxFaults

\* A client that was told of an asset finds it: its row is the one of its file.
UploadsAreTrue ==
  \A a \in Uploads : /\ upload[a].step = "done" => row[a] = upload[a].row
                     /\ upload[a].step \in {"row", "done"} => upload[a].row # NoRow
                     /\ upload[a].step = "idle" => upload[a].row = NoRow
                     /\ row[a] \in {NoRow, upload[a].row}

\* Until an object is recorded its task is on its way, and the gate opens at
\* the end only.
RecordsFit ==
  \A t \in Tasks :
    /\ task[t].step # "queued" =>
         task[t].asset # NoAsset /\ upload[task[t].asset].step = "done"
    /\ task[t].step \in {"queued", "inspect", "put"} => object[t] = NoFile
    /\ task[t].step = "verify" => object[t] # NoFile
    /\ task[t].step \in {"queued", "inspect", "put", "verify", "record"} => record[t] = NoRecord
    /\ task[t].gate => task[t].step = "ended"
    /\ record[t].state = "deleted" => task[t].gate
    /\ record[t].state = "none" => ~record[t].error

\* A cleanup works on an object whose gate is open.
CleanersFit ==
  \A c \in Cleaners :
    /\ cleaner[c].step \in {"delete", "mark", "fail"} =>
         /\ cleaner[c].task \in Tasks
         /\ task[cleaner[c].task].gate
         /\ record[cleaner[c].task].state # "none"
    /\ cleaner[c].step = "mark" => object[cleaner[c].task] = NoFile

\* What the Provider is given the URL of is there, is recorded, and is what the
\* upload stored: to the last bit, though the file is read three times and may
\* change in between.
Matches(t) == object[t] # NoFile /\ object[t].checksum = RowFor(t).checksum
HandedOver ==
  \A t \in Tasks : /\ task[t].step \in {"record", "sent"} => Matches(t)
                   /\ task[t].step = "sent" => record[t].state = "active"

\* An object that was marked as deleted is gone, and carries no error of
\* another cleanup that was slower.
DeletedIsGone ==
  \A t \in Tasks : record[t].state = "deleted" => object[t] = NoFile /\ ~record[t].error

\* Without a failure no object is on EOS that the database does not know of.
NoStrays ==
  \A t \in Tasks : object[t] # NoFile /\ record[t].state # "active" =>
                     faults > 0 \/ task[t].step \in {"verify", "record"}

\* The inductive invariant.
AssetsInv == TypeOK /\ UploadsAreTrue /\ RecordsFit /\ CleanersFit /\ HandedOver
               /\ DeletedIsGone /\ NoStrays

\* What is released is deleted in the end, though some objects cannot be
\* deleted, batches are limited and calls fail: as long as the limit is larger
\* than the number of those objects.
ReleasedIsDeleted ==
  \A t \in Tasks \ Undeletable :
    record[t].state = "active" /\ task[t].gate ~> record[t].state = "deleted"
=============================================================================
