--------------------------- MODULE VersionsProofs ---------------------------
(***************************************************************************)
(* Snapshots and restores.  As long as nobody else changes the project, an *)
(* operation knows it: what it has read and what is still to be read make  *)
(* up the project, and what a restore has put in place and what it still   *)
(* has to look at do.  None of the three properties is inductive alone,    *)
(* since each speaks of the end of a sequence of calls.                    *)
(***************************************************************************)
EXTENDS Versions, TLAPS

Operation ==
  [pc : {"idle", "done", "read", "create", "list", "restore"},
   kind : {"auto", "named", "pre_restore"},
   todo : SUBSET (Entry \cup Row), manifest : SUBSET Entry,
   target : SUBSET Entry, rest : SUBSET Row]

FilesOK == files \in [Ids -> File \cup {NoFile}] /\ UniquePaths

TodoTyped == \A p \in Procs : op[p].todo \subseteq IF op[p].pc = "restore" THEN Entry ELSE Row

Typed ==
  /\ FilesOK
  /\ op \in [Procs -> Operation] /\ TodoTyped
  /\ snaps \subseteq SUBSET Entry /\ latest \subseteq Paths \X Hashes
  /\ disturbed \subseteq Procs /\ changes \in Nat

EntriesOf(S) == {EntryOf(f) : f \in S}

\* The files of the snapshot that are in place.
Done(p) == op[p].target \ op[p].todo

\* What has been read is the project but for what is still to be read; with the sidecar out of
\* reach it may be an older text.
Reading(p) ==
  op[p].pc = "read" =>
    /\ op[p].todo \subseteq ListFiles
    /\ ~Outages => Tree = op[p].manifest \cup EntriesOf(op[p].todo)

Taken(p) == op[p].pc = "create" /\ ~Outages => op[p].manifest = Tree

Saved(p) == op[p].pc = "list" /\ ~Outages => Tree \subseteq UNION snaps

\* What is listed is there, saved, and in nobody's way; with what is in place it is the project.
Restoring(p) ==
  op[p].pc = "restore" =>
    /\ op[p].todo \subseteq op[p].target
    /\ op[p].rest \subseteq ListFiles
    /\ \A f \in op[p].rest : \A e \in Done(p) : f.path # e.path
    /\ Tree = EntriesOf(op[p].rest) \cup Done(p)
    /\ ~Outages => EntriesOf(op[p].rest) \subseteq UNION snaps

Faithful(p) == Reading(p) /\ Taken(p) /\ Saved(p) /\ Restoring(p)

Inv == Typed /\ \A p \in Procs : Undisturbed(p) => Faithful(p)

-----------------------------------------------------------------------------
(* The files.                                                               *)

LEMMA NewFileTyped ==
  ASSUME NEW e \in Entry
  PROVE  /\ NewFile(e) \in File /\ NewFile(e) # NoFile
         /\ NewFile(e).row /\ EntryOf(NewFile(e)) = e
         /\ NewFile(e).path = e.path
<1>1. NewFile(e) \in File
  BY DEF NewFile, File, Entry
<1>2. EntryOf(NewFile(e)) = e
  BY DEF NewFile, EntryOf, Entry
<1>3. NewFile(e).row /\ NewFile(e).path = e.path
  BY DEF NewFile
<1> QED BY <1>1, <1>2, <1>3, NoFileIsNoFile

LEMMA RowTyped ==
  ASSUME files \in [Ids -> File \cup {NoFile}]
  PROVE  /\ \A i \in Rows : i \in Ids /\ files[i] \in File /\ files[i].row
         /\ \A i \in Ids : files[i] \in File /\ files[i].row => i \in Rows
         /\ ListFiles \subseteq Row
<1>1. \A i \in Rows : i \in Ids /\ files[i] \in File /\ files[i].row
  BY DEF Rows
<1>2. \A i \in Ids : files[i] \in File /\ files[i].row => i \in Rows
  BY NoFileIsNoFile DEF Rows
<1>3. ListFiles \subseteq Row
  <2> SUFFICES ASSUME NEW i \in Rows
               PROVE  [id |-> i, path |-> files[i].path, kind |-> files[i].kind,
                       hash |-> files[i].hash] \in Row
    BY DEF ListFiles
  <2> QED BY <1>1 DEF Row, File
<1> QED BY <1>1, <1>2, <1>3

\* What ListFiles returns about a file.
LEMMA Listed ==
  ASSUME NEW f
  PROVE  /\ f \in ListFiles => /\ f.id \in Rows /\ f.path = files[f.id].path
                               /\ f.kind = files[f.id].kind /\ f.hash = files[f.id].hash
                               /\ EntryOf(f) = EntryOf(files[f.id]) /\ EntryOf(f) \in Tree
                               /\ f = [id |-> f.id, path |-> f.path, kind |-> f.kind, hash |-> f.hash]
         /\ f \in Row /\ f.id \in Rows /\ EntryOf(f) = EntryOf(files[f.id]) => f \in ListFiles
<1>1. ASSUME f \in ListFiles
      PROVE  /\ f.id \in Rows /\ f.path = files[f.id].path
             /\ f.kind = files[f.id].kind /\ f.hash = files[f.id].hash
             /\ EntryOf(f) = EntryOf(files[f.id]) /\ EntryOf(f) \in Tree
             /\ f = [id |-> f.id, path |-> f.path, kind |-> f.kind, hash |-> f.hash]
  <2>1. PICK i \in Rows : f = [id |-> i, path |-> files[i].path, kind |-> files[i].kind,
                               hash |-> files[i].hash]
    BY <1>1 DEF ListFiles
  <2> QED BY <2>1 DEF EntryOf, Tree
<1>2. ASSUME f \in Row, f.id \in Rows, EntryOf(f) = EntryOf(files[f.id])
      PROVE  f \in ListFiles
  <2>1. f.path = files[f.id].path /\ f.kind = files[f.id].kind /\ f.hash = files[f.id].hash
    BY <1>2 DEF EntryOf
  <2>2. f = [id |-> f.id, path |-> f.path, kind |-> f.kind, hash |-> f.hash]
    BY <1>2 DEF Row
  <2> QED BY <1>2, <2>1, <2>2 DEF ListFiles
<1> QED BY <1>1, <1>2

\* A row goes: nothing else changes.
LEMMA DeletedGone ==
  ASSUME FilesOK, NEW i \in Ids, files' \in Deleted(i)
  PROVE  /\ FilesOK'
         /\ Rows' = Rows \ {i}
         /\ \A j \in Ids \ {i} : files'[j] = files[j]
<1> USE DEF FilesOK
<1>1. CASE i \notin Rows
  <2>1. files' = files
    BY <1>1 DEF Deleted
  <2> QED BY <1>1, <2>1 DEF Rows, UniquePaths
<1>2. CASE i \in Rows /\ files' = [files EXCEPT ![i] = NoFile]
  <2>1. files' \in [Ids -> File \cup {NoFile}]
    BY <1>2
  <2>2. Rows' = Rows \ {i}
    BY <1>2 DEF Rows
  <2>3. \A j \in Ids \ {i} : files'[j] = files[j]
    BY <1>2
  <2>4. UniquePaths'
    BY <2>2, <2>3, RowTyped DEF UniquePaths
  <2> QED BY <2>1, <2>2, <2>3, <2>4
<1>3. CASE i \in Rows /\ files' = [files EXCEPT ![i].row = FALSE]
  <2>1. files[i] \in File
    BY <1>3, RowTyped
  <2>2. files'[i] = [files[i] EXCEPT !.row = FALSE] /\ \A j \in Ids \ {i} : files'[j] = files[j]
    BY <1>3
  <2>3. files'[i] \in File /\ ~files'[i].row
    BY <2>1, <2>2 DEF File
  <2>4. files' \in [Ids -> File \cup {NoFile}]
    BY <1>3, <2>3
  <2>5. Rows' = Rows \ {i}
    BY <2>2, <2>3 DEF Rows
  <2>6. UniquePaths'
    BY <2>2, <2>5, RowTyped DEF UniquePaths
  <2> QED BY <2>2, <2>4, <2>5, <2>6
<1> QED BY <1>1, <1>2, <1>3 DEF Deleted

\* A new row under a path that was free.
LEMMA CreatedFile ==
  ASSUME FilesOK, NEW i \in Ids, NEW e \in Entry, files[i] = NoFile, At(e.path) = {},
         files' = [files EXCEPT ![i] = NewFile(e)]
  PROVE  /\ FilesOK'
         /\ i \notin Rows /\ Rows' = Rows \cup {i}
         /\ files'[i] = NewFile(e)
         /\ \A j \in Ids \ {i} : files'[j] = files[j]
<1> USE DEF FilesOK
<1>1. files'[i] = NewFile(e) /\ \A j \in Ids \ {i} : files'[j] = files[j]
  OBVIOUS
<1>2. files' \in [Ids -> File \cup {NoFile}]
  BY NewFileTyped
<1>3. i \notin Rows /\ Rows' = Rows \cup {i}
  BY <1>1, NewFileTyped DEF Rows
<1>4. UniquePaths'
  BY <1>1, <1>3, NewFileTyped, RowTyped DEF UniquePaths, At
<1> QED BY <1>1, <1>2, <1>3, <1>4

\* A text is set, by a browser or by a restore.
LEMMA HashSet ==
  ASSUME FilesOK, NEW i \in Ids, NEW h \in Hashes, files[i] # NoFile,
         files' = [files EXCEPT ![i].hash = h]
  PROVE  /\ FilesOK' /\ Rows' = Rows
         /\ files'[i] \in File /\ files'[i].hash = h
         /\ files'[i].path = files[i].path /\ files'[i].kind = files[i].kind
         /\ \A j \in Ids \ {i} : files'[j] = files[j]
<1>1. files[i] \in File
  BY DEF FilesOK
<1>2. files'[i] = [files[i] EXCEPT !.hash = h] /\ \A j \in Ids \ {i} : files'[j] = files[j]
  BY DEF FilesOK
<1>3. /\ files'[i] \in File /\ files'[i].hash = h /\ files'[i].path = files[i].path
      /\ files'[i].kind = files[i].kind /\ files'[i].row = files[i].row
  BY <1>1, <1>2 DEF File
<1>4. files' \in [Ids -> File \cup {NoFile}]
  BY <1>1, <1>3 DEF FilesOK
<1>5. Rows' = Rows
  BY <1>1, <1>2, <1>3, NoFileIsNoFile DEF Rows
<1>6. \A j \in Rows : files'[j].path = files[j].path
  BY <1>2, <1>3 DEF Rows
<1>7. UniquePaths'
  BY <1>5, <1>6 DEF UniquePaths, FilesOK
<1> QED BY <1>2, <1>3, <1>4, <1>5, <1>7 DEF FilesOK

LEMMA FilesOKStep ==
  ASSUME FilesOK, NEW i \in Ids,
         \/ \E h \in Hashes : UserTypes(i, h)
         \/ \E e \in Entry : CreateFile(i, e)
         \/ \E path \in Paths : RenameFile(i, path)
         \/ DocStored(i) \/ DeleteFile(i) \/ Unload(i)
  PROVE  FilesOK'
<1> USE DEF FilesOK
<1>1. ASSUME NEW h \in Hashes, UserTypes(i, h)
      PROVE  FilesOK'
  BY <1>1, HashSet DEF UserTypes
<1>2. ASSUME NEW e \in Entry, CreateFile(i, e)
      PROVE  FilesOK'
  BY <1>2, CreatedFile DEF CreateFile, Unused
<1>3. ASSUME NEW path \in Paths, RenameFile(i, path)
      PROVE  FilesOK'
  <2>1. files[i] \in File /\ files' = [files EXCEPT ![i].path = path] /\ i \in Rows /\ At(path) = {}
    BY <1>3, RowTyped DEF RenameFile
  <2>2. files'[i] = [files[i] EXCEPT !.path = path] /\ \A j \in Ids \ {i} : files'[j] = files[j]
    BY <2>1
  <2>3. files'[i] \in File /\ files'[i].path = path /\ files'[i].row = files[i].row
    BY <2>1, <2>2 DEF File
  <2>4. files' \in [Ids -> File \cup {NoFile}]
    BY <2>1, <2>3
  <2>5. Rows' = Rows
    BY <2>1, <2>2, <2>3, NoFileIsNoFile DEF Rows
  <2> QED BY <2>1, <2>2, <2>3, <2>4, <2>5, RowTyped DEF UniquePaths, At
<1>4. ASSUME DocStored(i)
      PROVE  FilesOK'
  <2>1. files[i] \in File /\ files' = [files EXCEPT ![i].mirror = files[i].hash]
    BY <1>4, RowTyped DEF DocStored
  <2>2. files'[i] = [files[i] EXCEPT !.mirror = files[i].hash] /\ \A j \in Ids \ {i} : files'[j] = files[j]
    BY <2>1
  <2>3. /\ files'[i] \in File /\ files'[i].path = files[i].path
        /\ files'[i].row = files[i].row
    BY <2>1, <2>2 DEF File
  <2>4. files' \in [Ids -> File \cup {NoFile}]
    BY <2>1, <2>3
  <2>5. Rows' = Rows
    BY <2>1, <2>2, <2>3, NoFileIsNoFile DEF Rows
  <2>6. \A j \in Rows : files'[j].path = files[j].path
    BY <2>2, <2>3, RowTyped
  <2>7. UniquePaths'
    BY <2>5, <2>6 DEF UniquePaths
  <2> QED BY <2>4, <2>7
<1>5. ASSUME DeleteFile(i)
      PROVE  FilesOK'
  BY <1>5, DeletedGone DEF DeleteFile
<1>6. ASSUME Unload(i)
      PROVE  FilesOK'
  <2>1. files' = [files EXCEPT ![i] = NoFile] /\ i \notin Rows
    BY <1>6 DEF Unload, Rows
  <2>2. Rows' = Rows
    BY <2>1 DEF Rows
  <2> QED BY <2>1, <2>2, RowTyped DEF UniquePaths
<1> QED BY <1>1, <1>2, <1>3, <1>4, <1>5, <1>6

-----------------------------------------------------------------------------
(* Types.                                                                   *)

LEMMA TypedImpliesTypeOK ==
  ASSUME Typed
  PROVE  TypeOK
<1>1. ASSUME NEW p \in Procs
      PROVE  /\ op[p].pc \in {"idle", "done", "read", "create", "list", "restore"}
             /\ op[p].kind \in {"auto", "named", "pre_restore"}
             /\ op[p].rest \subseteq Row
             /\ op[p].manifest \subseteq Entry /\ op[p].target \subseteq Entry
  <2>1. op[p] \in Operation
    BY DEF Typed
  <2> QED BY <2>1 DEF Operation
<1> QED BY <1>1 DEF Typed, TypeOK, FilesOK, TodoTyped

\* An operation takes a step of its own to the record r.
OpStep(p, r) ==
  /\ op' = [op EXCEPT ![p] = r]
  /\ r \in Operation /\ r.todo \subseteq IF r.pc = "restore" THEN Entry ELSE Row

LEMMA OpTyped ==
  ASSUME op \in [Procs -> Operation], TodoTyped, NEW p \in Procs, NEW r, OpStep(p, r)
  PROVE  op' \in [Procs -> Operation] /\ TodoTyped'
<1>1. op'[p] = r /\ \A q \in Procs \ {p} : op'[q] = op[q]
  BY DEF OpStep
<1>2. op' \in [Procs -> Operation]
  BY DEF OpStep
<1>3. TodoTyped'
  BY <1>1 DEF TodoTyped, OpStep
<1> QED BY <1>2, <1>3

LEMMA IdleTyped ==
  /\ Idle \in Operation /\ Idle.todo = {} /\ Idle.pc = "idle"
  /\ [Idle EXCEPT !.pc = "done"] \in Operation
  /\ [Idle EXCEPT !.pc = "done"].todo = {} /\ [Idle EXCEPT !.pc = "done"].pc = "done"
BY DEF Idle, Operation

LEMMA FinishTyped ==
  ASSUME op \in [Procs -> Operation], TodoTyped, disturbed \subseteq Procs,
         NEW p \in Procs, Finish(p)
  PROVE  op' \in [Procs -> Operation] /\ TodoTyped' /\ disturbed' \subseteq Procs
<1>1. OpStep(p, [Idle EXCEPT !.pc = "done"])
  BY IdleTyped DEF OpStep, Finish
<1> HIDE DEF OpStep
<1> QED BY <1>1, OpTyped DEF Finish

LEMMA TypedInit ==
  ASSUME Init
  PROVE  Typed
<1>1. FilesOK
  BY NewFileTyped DEF Init, FilesOK
<1>2. op \in [Procs -> Operation] /\ TodoTyped
  <2>1. op = [p \in Procs |-> Idle]
    BY DEF Init
  <2> QED BY <2>1, IdleTyped DEF TodoTyped
<1>3. snaps \subseteq SUBSET Entry /\ latest \subseteq Paths \X Hashes
  BY DEF Init, Manifests, manifestHash, Entry
<1>4. disturbed \subseteq Procs /\ changes \in Nat
  BY DEF Init
<1> QED BY <1>1, <1>2, <1>3, <1>4 DEF Typed

\* Browsers and requests about files touch nothing but files.
FileStep(i) ==
  \/ \E h \in Hashes : UserTypes(i, h)
  \/ \E e \in Entry : CreateFile(i, e)
  \/ \E path \in Paths : RenameFile(i, path)
  \/ DocStored(i) \/ DeleteFile(i) \/ Unload(i)

LEMMA FileStepTyped ==
  ASSUME Typed, NEW i \in Ids, FileStep(i)
  PROVE  Typed'
<1>1. FilesOK'
  BY FilesOKStep DEF FileStep, Typed
<1>2. /\ UNCHANGED <<snaps, latest, op>>
      /\ disturbed' \subseteq Procs /\ changes' \in Nat
  BY DEF Typed, FileStep, UserTypes, CreateFile, RenameFile, DocStored, DeleteFile, Unload, Change
<1>3. TodoTyped'
  BY <1>2 DEF TodoTyped, Typed
<1> QED BY <1>1, <1>2, <1>3 DEF Typed

-----------------------------------------------------------------------------
(* Types of the steps of operations.                                        *)

OpNext(p) ==
  \/ \E kind \in {"auto", "named"} : Snapshot(p, kind, {})
  \/ \E target \in snaps : Snapshot(p, "pre_restore", target)
  \/ ReadFile(p) \/ LatestSnapshotHash(p) \/ CreateSnapshot(p)
  \/ ListCurrent(p) \/ RestoreMissing(p) \/ RestoreReplaced(p) \/ RestoreText(p)
  \/ RemoveRest(p) \/ Restored(p) \/ Fails(p)

LEMMA NextCases ==
  ASSUME [Next]_vars
  PROVE  \/ \E i \in Ids : FileStep(i)
         \/ \E p \in Procs : OpNext(p)
         \/ UNCHANGED vars
BY DEF Next, FileStep, OpNext, Procs

LEMMA SnapshotTyped ==
  ASSUME Typed, NEW p \in Procs, NEW kind \in {"auto", "named", "pre_restore"},
         NEW target \in SUBSET Entry, Snapshot(p, kind, target)
  PROVE  Typed'
<1> DEFINE r == [pc |-> "read", kind |-> kind, todo |-> ListFiles,
                 manifest |-> {}, target |-> target, rest |-> {}]
<1>1. ListFiles \subseteq Row
  BY RowTyped DEF Typed, FilesOK
<1>2. OpStep(p, r)
  BY <1>1 DEF Snapshot, OpStep, Operation
<1> HIDE DEF r
<1>3. op' \in [Procs -> Operation] /\ TodoTyped'
  BY <1>2, OpTyped DEF Typed
<1>4. UNCHANGED <<files, snaps, latest, disturbed, changes>>
  BY DEF Snapshot
<1>5. FilesOK'
  BY <1>4 DEF Typed, FilesOK, UniquePaths, Rows
<1> QED BY <1>3, <1>4, <1>5 DEF Typed

\* A text that is read is one the file has or had.
LEMMA ReadTyped ==
  ASSUME Typed, NEW f \in Row, NEW h \in IF f.kind = "asset" THEN {f.hash} ELSE currentText(f.id)
  PROVE  [path |-> f.path, kind |-> f.kind, hash |-> h] \in Entry
<1>1. f.id \in Ids /\ f.path \in Paths /\ f.kind \in Kinds /\ f.hash \in Hashes
  BY DEF Row
<1>2. h \in Hashes
  <2>1. CASE f.kind = "asset"
    BY <2>1, <1>1
  <2>2. CASE f.kind # "asset"
    <3>1. files[f.id] # NoFile /\ h \in {files[f.id].hash, files[f.id].mirror}
      BY <2>2 DEF currentText
    <3>2. files[f.id] \in File
      BY <1>1, <3>1 DEF Typed, FilesOK
    <3> QED BY <3>1, <3>2 DEF File
  <2> QED BY <2>1, <2>2
<1> QED BY <1>1, <1>2 DEF Entry

LEMMA ReadFileTyped ==
  ASSUME Typed, NEW p \in Procs, ReadFile(p)
  PROVE  Typed'
<1>1. op[p] \in Operation /\ op[p].pc = "read" /\ op[p].todo \subseteq Row
  BY DEF ReadFile, Typed, TodoTyped
<1>2. PICK f \in First(op[p].todo) :
        \E h \in IF f.kind = "asset" THEN {f.hash} ELSE currentText(f.id) :
          op' = [op EXCEPT ![p].todo = @ \ {f},
                           ![p].manifest = @ \cup {[path |-> f.path, kind |-> f.kind, hash |-> h]}]
  BY DEF ReadFile
<1> PICK h \in IF f.kind = "asset" THEN {f.hash} ELSE currentText(f.id) :
          op' = [op EXCEPT ![p].todo = @ \ {f},
                           ![p].manifest = @ \cup {[path |-> f.path, kind |-> f.kind, hash |-> h]}]
  BY <1>2
<1>3. f \in op[p].todo
  BY DEF First
<1>4. [path |-> f.path, kind |-> f.kind, hash |-> h] \in Entry
  BY <1>1, <1>3, ReadTyped
<1> DEFINE m == op[p].manifest \cup {[path |-> f.path, kind |-> f.kind, hash |-> h]}
           r == [op[p] EXCEPT !.todo = op[p].todo \ {f}, !.manifest = m]
<1>5. op' = [op EXCEPT ![p] = r]
  BY DEF Typed
<1>6. m \subseteq Entry
  BY <1>1, <1>4 DEF Operation
<1> HIDE DEF m
<1>7. r \in Operation /\ r.pc = "read" /\ r.todo \subseteq Row
  BY <1>1, <1>6 DEF Operation
<1> HIDE DEF r
<1>8. op' \in [Procs -> Operation] /\ TodoTyped'
  BY <1>5, <1>7, OpTyped DEF OpStep, Typed
<1>9. UNCHANGED <<files, snaps, latest, disturbed, changes>>
  BY DEF ReadFile
<1>10. FilesOK'
  BY <1>9 DEF Typed, FilesOK, UniquePaths, Rows
<1> QED BY <1>8, <1>9, <1>10 DEF Typed

LEMMA LatestSnapshotHashTyped ==
  ASSUME Typed, NEW p \in Procs, LatestSnapshotHash(p)
  PROVE  Typed'
<1>1. UNCHANGED <<files, snaps, latest, changes>>
  BY DEF LatestSnapshotHash
<1>2. FilesOK'
  BY <1>1 DEF Typed, FilesOK, UniquePaths, Rows
<1>3. CASE Finish(p)
  <2>1. op' \in [Procs -> Operation] /\ TodoTyped' /\ disturbed' \subseteq Procs
    BY <1>3, FinishTyped DEF Typed
  <2> QED BY <1>1, <1>2, <2>1 DEF Typed
<1>4. CASE op' = [op EXCEPT ![p].pc = "create"] /\ UNCHANGED disturbed
  <2>1. op[p] \in Operation /\ op[p].todo = {}
    BY DEF LatestSnapshotHash, Typed
  <2> DEFINE r == [op[p] EXCEPT !.pc = "create"]
  <2>2. op' = [op EXCEPT ![p] = r]
    BY <1>4 DEF Typed
  <2>3. r \in Operation /\ r.todo = {}
    BY <2>1 DEF Operation
  <2> HIDE DEF r
  <2>4. op' \in [Procs -> Operation] /\ TodoTyped'
    BY <2>2, <2>3, OpTyped DEF OpStep, Typed
  <2> QED BY <1>1, <1>2, <1>4, <2>4 DEF Typed
<1> QED BY <1>3, <1>4 DEF LatestSnapshotHash

LEMMA CreateSnapshotTyped ==
  ASSUME Typed, NEW p \in Procs, CreateSnapshot(p)
  PROVE  Typed'
<1>1. UNCHANGED <<files, changes>>
  BY DEF CreateSnapshot
<1>2. FilesOK'
  BY <1>1 DEF Typed, FilesOK, UniquePaths, Rows
<1>3. op[p] \in Operation /\ op[p].manifest \subseteq Entry
  BY DEF Typed, Operation
<1>4. snaps' \subseteq SUBSET Entry /\ latest' \subseteq Paths \X Hashes
  BY <1>3 DEF CreateSnapshot, Typed, manifestHash, Entry
<1>5. CASE Finish(p)
  <2>1. op' \in [Procs -> Operation] /\ TodoTyped' /\ disturbed' \subseteq Procs
    BY <1>5, FinishTyped DEF Typed
  <2> QED BY <1>1, <1>2, <1>4, <2>1 DEF Typed
<1>6. CASE op' = [op EXCEPT ![p].pc = "list", ![p].manifest = {}] /\ UNCHANGED disturbed
  <2>1. op[p].todo \subseteq Row
    BY DEF CreateSnapshot, Typed, TodoTyped
  <2> DEFINE r == [op[p] EXCEPT !.pc = "list", !.manifest = {}]
  <2>2. op' = [op EXCEPT ![p] = r]
    BY <1>6 DEF Typed
  <2>3. r \in Operation /\ r.pc = "list" /\ r.todo \subseteq Row
    BY <1>3, <2>1 DEF Operation
  <2> HIDE DEF r
  <2>4. op' \in [Procs -> Operation] /\ TodoTyped'
    BY <2>2, <2>3, OpTyped DEF OpStep, Typed
  <2> QED BY <1>1, <1>2, <1>4, <1>6, <2>4 DEF Typed
<1> QED BY <1>5, <1>6 DEF CreateSnapshot

LEMMA ListCurrentTyped ==
  ASSUME Typed, NEW p \in Procs, ListCurrent(p)
  PROVE  Typed'
<1>1. UNCHANGED <<files, snaps, latest, disturbed, changes>>
  BY DEF ListCurrent
<1>2. FilesOK'
  BY <1>1 DEF Typed, FilesOK, UniquePaths, Rows
<1>3. op[p] \in Operation /\ op[p].target \subseteq Entry /\ ListFiles \subseteq Row
  BY RowTyped DEF Typed, Operation, FilesOK
<1> DEFINE r == [op[p] EXCEPT !.pc = "restore", !.todo = op[p].target, !.rest = ListFiles]
<1>4. op' = [op EXCEPT ![p] = r]
  BY DEF ListCurrent, Typed
<1>5. r \in Operation /\ r.pc = "restore" /\ r.todo \subseteq Entry
  BY <1>3 DEF Operation
<1> HIDE DEF r
<1>6. op' \in [Procs -> Operation] /\ TodoTyped'
  BY <1>4, <1>5, OpTyped DEF OpStep, Typed
<1> QED BY <1>1, <1>2, <1>6 DEF Typed

\* What a step of a restore leaves to do.
LEMMA RestoreOpTyped ==
  ASSUME Typed, NEW p \in Procs, NEW e, NEW f, op[p].pc = "restore",
         \/ op' = [op EXCEPT ![p].todo = @ \ {e}]
         \/ op' = [op EXCEPT ![p].rest = @ \ {f}]
         \/ op' = [op EXCEPT ![p].todo = @ \ {e}, ![p].rest = @ \ {f}]
  PROVE  op' \in [Procs -> Operation] /\ TodoTyped'
<1>1. op[p] \in Operation /\ op[p].todo \subseteq Entry
  BY DEF Typed, TodoTyped
<1>2. CASE op' = [op EXCEPT ![p].todo = @ \ {e}]
  <2> DEFINE r == [op[p] EXCEPT !.todo = op[p].todo \ {e}]
  <2>1. op' = [op EXCEPT ![p] = r]
    BY <1>2 DEF Typed
  <2>2. r \in Operation /\ r.pc = "restore" /\ r.todo \subseteq Entry
    BY <1>1 DEF Operation
  <2> HIDE DEF r
  <2> QED BY <2>1, <2>2, OpTyped DEF OpStep, Typed
<1>3. CASE op' = [op EXCEPT ![p].rest = @ \ {f}]
  <2> DEFINE r == [op[p] EXCEPT !.rest = op[p].rest \ {f}]
  <2>1. op' = [op EXCEPT ![p] = r]
    BY <1>3 DEF Typed
  <2>2. r \in Operation /\ r.pc = "restore" /\ r.todo \subseteq Entry
    BY <1>1 DEF Operation
  <2> HIDE DEF r
  <2> QED BY <2>1, <2>2, OpTyped DEF OpStep, Typed
<1>4. CASE op' = [op EXCEPT ![p].todo = @ \ {e}, ![p].rest = @ \ {f}]
  <2> DEFINE r == [op[p] EXCEPT !.todo = op[p].todo \ {e}, !.rest = op[p].rest \ {f}]
  <2>1. op' = [op EXCEPT ![p] = r]
    BY <1>4 DEF Typed
  <2>2. r \in Operation /\ r.pc = "restore" /\ r.todo \subseteq Entry
    BY <1>1 DEF Operation
  <2> HIDE DEF r
  <2> QED BY <2>1, <2>2, OpTyped DEF OpStep, Typed
<1> QED BY <1>2, <1>3, <1>4

LEMMA RestoreTyped ==
  ASSUME Typed, NEW p \in Procs,
         RestoreMissing(p) \/ RestoreReplaced(p) \/ RestoreText(p) \/ RemoveRest(p)
  PROVE  Typed'
<1>1. disturbed' \subseteq Procs /\ UNCHANGED <<snaps, latest, changes>>
  BY DEF Typed, RestoreMissing, RestoreReplaced, RestoreText, RemoveRest, Disturbs
<1>2. op[p].pc = "restore" /\ op[p] \in Operation /\ op[p].todo \subseteq Entry /\ op[p].rest \subseteq Row
  BY DEF Typed, RestoreMissing, RestoreReplaced, RestoreText, RemoveRest, TodoTyped, Operation
<1>3. op' \in [Procs -> Operation] /\ TodoTyped'
  BY <1>2, RestoreOpTyped DEF RestoreMissing, RestoreReplaced, RestoreText, RemoveRest
<1>4. FilesOK'
  <2>1. CASE RestoreMissing(p)
    BY <1>2, <2>1, CreatedFile DEF RestoreMissing, First, Unused, Typed
  <2>2. CASE RestoreReplaced(p) \/ RemoveRest(p)
    <3>1. PICK f \in op[p].rest : files' \in Deleted(f.id)
      BY <2>2 DEF RestoreReplaced, RemoveRest
    <3>2. f.id \in Ids
      BY <1>2 DEF Row
    <3> QED BY <3>1, <3>2, DeletedGone DEF Typed
  <2>3. CASE RestoreText(p)
    <3>1. PICK e \in First(op[p].todo), f \in op[p].rest :
                 /\ f.kind = "text" => files[f.id] # NoFile
                 /\ files' = IF f.kind = "text" THEN [files EXCEPT ![f.id].hash = e.hash] ELSE files
      BY <2>3 DEF RestoreText
    <3>2. f.id \in Ids /\ e.hash \in Hashes
      BY <1>2 DEF Row, Entry, First
    <3>3. CASE files' = files
      BY <3>3 DEF Typed, FilesOK, UniquePaths, Rows
    <3>4. CASE files[f.id] # NoFile /\ files' = [files EXCEPT ![f.id].hash = e.hash]
      BY <3>2, <3>4, HashSet DEF Typed
    <3> QED BY <3>1, <3>3, <3>4
  <2> QED BY <2>1, <2>2, <2>3
<1> QED BY <1>1, <1>3, <1>4 DEF Typed

LEMMA OpNextTyped ==
  ASSUME Typed, NEW p \in Procs, OpNext(p)
  PROVE  Typed'
<1>1. CASE \E kind \in {"auto", "named"} : Snapshot(p, kind, {})
  BY <1>1, SnapshotTyped
<1>2. CASE \E target \in snaps : Snapshot(p, "pre_restore", target)
  BY <1>2, SnapshotTyped DEF Typed
<1>3. CASE Restored(p) \/ Fails(p)
  <2>1. Finish(p) /\ UNCHANGED <<files, snaps, latest, changes>>
    BY <1>3 DEF Restored, Fails
  <2>2. op' \in [Procs -> Operation] /\ TodoTyped' /\ disturbed' \subseteq Procs
    BY <2>1, FinishTyped DEF Typed
  <2>3. FilesOK'
    BY <2>1 DEF Typed, FilesOK, UniquePaths, Rows
  <2> QED BY <2>1, <2>2, <2>3 DEF Typed
<1> QED BY <1>1, <1>2, <1>3, ReadFileTyped, LatestSnapshotHashTyped, CreateSnapshotTyped,
           ListCurrentTyped, RestoreTyped DEF OpNext

LEMMA TypedStep ==
  ASSUME Typed, [Next]_vars
  PROVE  Typed'
<1>1. CASE UNCHANGED vars
  BY <1>1 DEF vars, Typed, FilesOK, UniquePaths, Rows, TodoTyped
<1> QED BY <1>1, NextCases, FileStepTyped, OpNextTyped

\* Files, manifests and operations are what the code can put there, and no two rows of a
\* project have the same path, whoever creates, renames and restores (0001_init.sql:66).
THEOREM VersionsTypeCorrect == Spec => []TypeOK
<1>1. Init => Typed
  BY TypedInit
<1>2. Typed /\ [Next]_vars => Typed'
  BY TypedStep
<1>3. Typed => TypeOK
  BY TypedImpliesTypeOK
<1> QED BY <1>1, <1>2, <1>3, PTL DEF Spec

-----------------------------------------------------------------------------
(* What the steps do to the project.                                        *)

LEMMA SameFiles ==
  ASSUME UNCHANGED files
  PROVE  Tree' = Tree /\ ListFiles' = ListFiles
BY DEF Tree, ListFiles, Rows

LEMMA EntriesListed == EntriesOf(ListFiles) = Tree
<1>1. ASSUME NEW x \in Tree
      PROVE  x \in EntriesOf(ListFiles)
  <2>1. PICK i \in Rows : x = EntryOf(files[i])
    BY <1>1 DEF Tree
  <2> DEFINE f == [id |-> i, path |-> files[i].path, kind |-> files[i].kind, hash |-> files[i].hash]
  <2>2. f \in ListFiles
    BY DEF ListFiles
  <2>3. EntryOf(f) = x
    BY <2>1 DEF EntryOf
  <2> QED BY <2>2, <2>3 DEF EntriesOf
<1>2. ASSUME NEW x \in EntriesOf(ListFiles)
      PROVE  x \in Tree
  BY <1>2, Listed DEF EntriesOf
<1> QED BY <1>1, <1>2

\* Rows are told apart by their entries, since their paths are.
LEMMA EntriesDiffer ==
  ASSUME FilesOK, NEW i \in Rows, NEW j \in Rows, EntryOf(files[i]).path = EntryOf(files[j]).path
  PROVE  i = j
BY DEF FilesOK, UniquePaths, EntryOf

LEMMA ListedDiffer ==
  ASSUME FilesOK, NEW f \in ListFiles, NEW g \in ListFiles, f.path = g.path
  PROVE  f = g
<1>1. f.id = g.id
  BY Listed DEF FilesOK, UniquePaths
<1> QED BY <1>1, Listed

LEMMA CreatedTree ==
  ASSUME FilesOK, NEW i \in Ids, NEW e \in Entry, files[i] = NoFile, At(e.path) = {},
         files' = [files EXCEPT ![i] = NewFile(e)]
  PROVE  Tree' = Tree \cup {e} /\ ListFiles \subseteq ListFiles'
<1>1. /\ i \notin Rows /\ Rows' = Rows \cup {i} /\ files'[i] = NewFile(e)
      /\ \A j \in Ids \ {i} : files'[j] = files[j]
  BY CreatedFile
<1>2. \A j \in Rows : j \in Ids \ {i} /\ files'[j] = files[j]
  BY <1>1 DEF Rows
<1>3. Tree' = Tree \cup {e}
  <2>1. Tree' = {EntryOf(files'[j]) : j \in Rows'}
    BY DEF Tree
  <2>2. EntryOf(files'[i]) = e
    BY <1>1, NewFileTyped
  <2> QED BY <1>1, <1>2, <2>1, <2>2 DEF Tree
<1>4. ListFiles \subseteq ListFiles'
  BY <1>1, <1>2 DEF ListFiles
<1> QED BY <1>3, <1>4

LEMMA DeletedTree ==
  ASSUME FilesOK, NEW f \in ListFiles, files' \in Deleted(f.id)
  PROVE  Tree' = Tree \ {EntryOf(f)} /\ ListFiles \ {f} \subseteq ListFiles'
<1> DEFINE i == f.id
<1>1. i \in Rows /\ EntryOf(f) = EntryOf(files[i])
  BY Listed
<1> HIDE DEF i
<1>2. i \in Ids
  BY <1>1, RowTyped DEF FilesOK
<1>3. Rows' = Rows \ {i} /\ \A j \in Ids \ {i} : files'[j] = files[j]
  BY <1>2, DeletedGone DEF i
<1>4. \A j \in Rows \ {i} : files'[j] = files[j] /\ EntryOf(files[j]) # EntryOf(f)
  BY <1>1, <1>3, EntriesDiffer DEF Rows
<1>5. Tree' = {EntryOf(files'[j]) : j \in Rows \ {i}}
  BY <1>3 DEF Tree
<1>6. Tree' = Tree \ {EntryOf(f)}
  <2>1. Tree' = {EntryOf(files[j]) : j \in Rows \ {i}}
    BY <1>4, <1>5
  <2> QED BY <1>1, <1>4, <2>1 DEF Tree
<1>7. ASSUME NEW g \in ListFiles \ {f}
      PROVE  g \in ListFiles'
  <2>1. PICK j \in Rows : g = [id |-> j, path |-> files[j].path, kind |-> files[j].kind,
                               hash |-> files[j].hash]
    BY <1>7 DEF ListFiles
  <2>2. j # i
    BY <1>1, <1>7, <2>1, Listed DEF i
  <2> QED BY <1>3, <1>4, <2>1, <2>2 DEF ListFiles
<1> QED BY <1>6, <1>7

LEMMA HashSetTree ==
  ASSUME FilesOK, NEW f \in ListFiles, NEW e \in Entry, e.path = f.path, e.kind = f.kind,
         files' = [files EXCEPT ![f.id].hash = e.hash]
  PROVE  Tree' = (Tree \ {EntryOf(f)}) \cup {e} /\ ListFiles \ {f} \subseteq ListFiles'
<1> DEFINE i == f.id
<1>1. /\ i \in Rows /\ EntryOf(f) = EntryOf(files[i])
      /\ f.path = files[i].path /\ f.kind = files[i].kind
  BY Listed
<1>2. i \in Ids /\ files[i] # NoFile /\ e.hash \in Hashes
  BY <1>1 DEF Rows, Entry
<1>3. files' = [files EXCEPT ![i].hash = e.hash]
  OBVIOUS
<1> HIDE DEF i
<1>4. /\ Rows' = Rows /\ files'[i].hash = e.hash
      /\ files'[i].path = files[i].path /\ files'[i].kind = files[i].kind
      /\ \A j \in Ids \ {i} : files'[j] = files[j]
  BY <1>2, <1>3, HashSet
<1>5. \A j \in Rows \ {i} : files'[j] = files[j] /\ EntryOf(files[j]) # EntryOf(f)
  BY <1>1, <1>4, EntriesDiffer DEF Rows
<1>6. EntryOf(files'[i]) = e
  BY <1>1, <1>4 DEF EntryOf, Entry
<1>7. Tree' = (Tree \ {EntryOf(f)}) \cup {e}
  <2>1. Tree' = {EntryOf(files'[j]) : j \in Rows}
    BY <1>4 DEF Tree
  <2>2. Tree' = {EntryOf(files[j]) : j \in Rows \ {i}} \cup {e}
    BY <1>1, <1>5, <1>6, <2>1
  <2> QED BY <1>1, <1>5, <2>2 DEF Tree
<1>8. ASSUME NEW g \in ListFiles \ {f}
      PROVE  g \in ListFiles'
  <2>1. PICK j \in Rows : g = [id |-> j, path |-> files[j].path, kind |-> files[j].kind,
                               hash |-> files[j].hash]
    BY <1>8 DEF ListFiles
  <2>2. j # i
    BY <1>1, <1>8, <2>1, Listed DEF i
  <2> QED BY <1>4, <1>5, <2>1, <2>2 DEF ListFiles
<1> QED BY <1>7, <1>8

-----------------------------------------------------------------------------
(* What undisturbed operations know.                                        *)

LEMMA FaithfulKept ==
  ASSUME NEW p \in Procs, Faithful(p), op'[p] = op[p],
         Tree' = Tree, ListFiles' = ListFiles, snaps \subseteq snaps'
  PROVE  Faithful(p)'
<1>1. UNION snaps \subseteq UNION snaps'
  OBVIOUS
<1>2. Reading(p)'
  BY DEF Faithful, Reading
<1>3. Taken(p)'
  BY DEF Faithful, Taken
<1>4. Saved(p)'
  BY <1>1 DEF Faithful, Saved
<1>5. Done(p)' = Done(p)
  BY DEF Done
<1>6. Restoring(p)'
  BY <1>1, <1>5 DEF Faithful, Restoring
<1> QED BY <1>2, <1>3, <1>4, <1>6 DEF Faithful

LEMMA FaithfulIdle ==
  ASSUME NEW p \in Procs, Idling(p)
  PROVE  Faithful(p)
BY DEF Idling, Faithful, Reading, Taken, Saved, Restoring

LEMMA FinishIdles ==
  ASSUME Typed, NEW p \in Procs, Finish(p)
  PROVE  /\ Faithful(p)'
         /\ \A q \in Procs \ {p} : op'[q] = op[q] /\ (Undisturbed(q)' => Undisturbed(q))
<1>1. op'[p] = [Idle EXCEPT !.pc = "done"] /\ \A q \in Procs \ {p} : op'[q] = op[q]
  BY DEF Finish, Typed
<1>2. op'[p].pc = "done"
  BY <1>1, IdleTyped
<1>3. Faithful(p)'
  BY <1>2 DEF Faithful, Reading, Taken, Saved, Restoring
<1> QED BY <1>1, <1>3 DEF Finish, Undisturbed

LEMMA FileStepFaithful ==
  ASSUME Inv, NEW i \in Ids, FileStep(i), NEW p \in Procs, Undisturbed(p)'
  PROVE  Faithful(p)'
<1> USE DEF Inv
<1>1. UNCHANGED <<snaps, op>>
  BY DEF FileStep, UserTypes, CreateFile, RenameFile, DocStored, DeleteFile, Unload, Change
<1>2. CASE Idling(p)
  BY <1>1, <1>2 DEF Idling, Faithful, Reading, Taken, Saved, Restoring
<1>3. CASE ~Idling(p)
  <2>1. Undisturbed(p) /\ (DocStored(i) \/ Unload(i))
    BY <1>3 DEF Undisturbed, FileStep, UserTypes, CreateFile, RenameFile, DocStored, DeleteFile,
                Unload, Change
  <2>2. CASE DocStored(i)
    <3>1. i \in Rows /\ files[i] \in File /\ files' = [files EXCEPT ![i].mirror = files[i].hash]
      BY <2>2, RowTyped DEF DocStored, Typed, FilesOK
    <3>2. files'[i] = [files[i] EXCEPT !.mirror = files[i].hash] /\ \A j \in Ids \ {i} : files'[j] = files[j]
      BY <3>1 DEF Typed, FilesOK
    <3>3. /\ files'[i] \in File /\ files'[i].row = files[i].row /\ files'[i].path = files[i].path
          /\ files'[i].kind = files[i].kind /\ files'[i].hash = files[i].hash
      BY <3>1, <3>2 DEF File
    <3>4. Rows' = Rows
      BY <3>1, <3>2, <3>3, NoFileIsNoFile DEF Rows
    <3>5. \A j \in Rows : /\ files'[j].path = files[j].path
                          /\ files'[j].kind = files[j].kind /\ files'[j].hash = files[j].hash
      BY <3>2, <3>3 DEF Rows
    <3>6. ListFiles' = ListFiles
      BY <3>4, <3>5 DEF ListFiles
    <3>7. \A j \in Rows : EntryOf(files'[j]) = EntryOf(files[j])
      BY <3>5 DEF EntryOf
    <3>8. Tree' = Tree
      BY <3>4, <3>7 DEF Tree
    <3> QED BY <1>1, <2>1, <3>6, <3>8, FaithfulKept
  <2>3. CASE Unload(i)
    <3>1. files' = [files EXCEPT ![i] = NoFile] /\ i \notin Rows
      BY <2>3 DEF Unload, Rows
    <3>2. Rows' = Rows /\ \A j \in Rows : files'[j] = files[j]
      BY <3>1 DEF Rows
    <3>3. Tree' = Tree /\ ListFiles' = ListFiles
      BY <3>2 DEF Tree, ListFiles
    <3> QED BY <1>1, <2>1, <3>3, FaithfulKept
  <2> QED BY <2>1, <2>2, <2>3
<1> QED BY <1>2, <1>3

FilesMove(p) == RestoreMissing(p) \/ RestoreReplaced(p) \/ RestoreText(p) \/ RemoveRest(p)

\* A step of p as every other operation sees it.
LEMMA OthersFaithful ==
  ASSUME Inv, NEW p \in Procs, OpNext(p), NEW q \in Procs \ {p}, Undisturbed(q)'
  PROVE  Faithful(q)'
<1> USE DEF Inv
<1>1. op'[q] = op[q]
  BY FinishIdles DEF Typed, OpNext, Snapshot, ReadFile, LatestSnapshotHash, CreateSnapshot, ListCurrent,
       RestoreMissing, RestoreReplaced, RestoreText, RemoveRest, Restored, Fails
<1>2. CASE FilesMove(p)
  <2>1. Disturbs(p)
    BY <1>2 DEF FilesMove, RestoreMissing, RestoreReplaced, RestoreText, RemoveRest
  <2>2. Idling(q)
    BY <2>1 DEF Disturbs, Undisturbed
  <2> QED BY <1>1, <2>2 DEF Idling, Faithful, Reading, Taken, Saved, Restoring
<1>3. CASE ~FilesMove(p)
  <2>1. UNCHANGED files /\ snaps \subseteq snaps'
    BY <1>3 DEF FilesMove, OpNext, Snapshot, ReadFile, LatestSnapshotHash, CreateSnapshot, ListCurrent,
                Restored, Fails
  <2>2. UNCHANGED disturbed \/ Finish(p)
    BY <1>3 DEF FilesMove, OpNext, Snapshot, ReadFile, LatestSnapshotHash, CreateSnapshot, ListCurrent,
                Restored, Fails
  <2>3. Undisturbed(q)
    BY <2>2, FinishIdles DEF Undisturbed
  <2> QED BY <1>1, <2>1, <2>3, SameFiles, FaithfulKept
<1> QED BY <1>2, <1>3

LEMMA SnapshotFaithful ==
  ASSUME Typed, NEW p \in Procs, NEW kind, NEW target, Snapshot(p, kind, target)
  PROVE  Faithful(p)'
<1>1. op'[p] = [pc |-> "read", kind |-> kind, todo |-> ListFiles,
                manifest |-> {}, target |-> target, rest |-> {}]
  BY DEF Snapshot, Typed
<1>2. op'[p].pc = "read" /\ op'[p].todo = ListFiles /\ op'[p].manifest = {}
  BY <1>1
<1>3. Tree' = Tree /\ ListFiles' = ListFiles
  BY SameFiles DEF Snapshot
<1>4. Reading(p)'
  <2>1. EntriesOf(op'[p].todo) = Tree
    BY <1>2, EntriesListed
  <2> QED BY <1>2, <1>3, <2>1 DEF Reading, EntriesOf
<1> QED BY <1>2, <1>4 DEF Faithful, Taken, Saved, Restoring

\* What is read of a file nobody disturbs is what was listed.
LEMMA ReadFileFaithful ==
  ASSUME Typed, NEW p \in Procs, Faithful(p), ReadFile(p)
  PROVE  Faithful(p)'
<1>1. op[p] \in Operation /\ op[p].pc = "read" /\ op[p].todo \subseteq Row
  BY DEF ReadFile, Typed, TodoTyped
<1>2. PICK f \in First(op[p].todo) :
        \E h \in IF f.kind = "asset" THEN {f.hash} ELSE currentText(f.id) :
          op' = [op EXCEPT ![p].todo = @ \ {f},
                           ![p].manifest = @ \cup {[path |-> f.path, kind |-> f.kind, hash |-> h]}]
  BY DEF ReadFile
<1> PICK h \in IF f.kind = "asset" THEN {f.hash} ELSE currentText(f.id) :
          op' = [op EXCEPT ![p].todo = @ \ {f},
                           ![p].manifest = @ \cup {[path |-> f.path, kind |-> f.kind, hash |-> h]}]
  BY <1>2
<1> DEFINE x == [path |-> f.path, kind |-> f.kind, hash |-> h]
<1>3. op'[p] = [op[p] EXCEPT !.todo = op[p].todo \ {f}, !.manifest = op[p].manifest \cup {x}]
  BY DEF Typed
<1>4. f \in op[p].todo /\ f \in ListFiles
  BY <1>1 DEF First, Faithful, Reading
<1>5. ~Outages => x = EntryOf(f)
  BY <1>4, Listed DEF currentText, EntryOf
<1> HIDE DEF x
<1>6. /\ op'[p].pc = "read" /\ op'[p].todo = op[p].todo \ {f}
      /\ op'[p].manifest = op[p].manifest \cup {x}
  BY <1>1, <1>3 DEF Operation
<1>7. Tree' = Tree /\ ListFiles' = ListFiles
  BY SameFiles DEF ReadFile
<1>8. EntriesOf(op[p].todo) = EntriesOf(op[p].todo \ {f}) \cup {EntryOf(f)}
  BY <1>4 DEF EntriesOf
<1>9. Reading(p)'
  <2>1. op[p].todo \subseteq ListFiles /\ (~Outages => Tree = op[p].manifest \cup EntriesOf(op[p].todo))
    BY <1>1 DEF Faithful, Reading
  <2>2. ~Outages => Tree = op'[p].manifest \cup EntriesOf(op'[p].todo)
    BY <1>5, <1>6, <1>8, <2>1
  <2>3. EntriesOf(op'[p].todo) = EntriesOf(op[p].todo)'
    BY DEF EntriesOf, EntryOf
  <2> QED BY <1>6, <1>7, <2>1, <2>2, <2>3 DEF Reading
<1> QED BY <1>6, <1>9 DEF Faithful, Taken, Saved, Restoring

LEMMA LatestSnapshotHashFaithful ==
  ASSUME Typed, NEW p \in Procs, Faithful(p), LatestSnapshotHash(p)
  PROVE  Faithful(p)'
<1>1. CASE Finish(p)
  BY <1>1, FinishIdles
<1>2. CASE op' = [op EXCEPT ![p].pc = "create"]
  <2>1. op'[p] = [op[p] EXCEPT !.pc = "create"] /\ op[p] \in Operation
    BY <1>2 DEF Typed
  <2>2. op'[p].pc = "create" /\ op'[p].manifest = op[p].manifest
    BY <2>1 DEF Operation
  <2>3. ~Outages => op[p].manifest = Tree
    BY DEF LatestSnapshotHash, Faithful, Reading, EntriesOf
  <2>4. Tree' = Tree
    BY SameFiles DEF LatestSnapshotHash
  <2> QED BY <2>2, <2>3, <2>4 DEF Faithful, Reading, Taken, Saved, Restoring
<1> QED BY <1>1, <1>2 DEF LatestSnapshotHash

LEMMA CreateSnapshotFaithful ==
  ASSUME Typed, NEW p \in Procs, Faithful(p), CreateSnapshot(p)
  PROVE  Faithful(p)'
<1>1. CASE Finish(p)
  BY <1>1, FinishIdles
<1>2. CASE op' = [op EXCEPT ![p].pc = "list", ![p].manifest = {}]
  <2>1. op'[p] = [op[p] EXCEPT !.pc = "list", !.manifest = {}] /\ op[p] \in Operation
    BY <1>2 DEF Typed
  <2>2. op'[p].pc = "list"
    BY <2>1 DEF Operation
  <2>3. ~Outages => Tree \subseteq UNION snaps'
    BY DEF CreateSnapshot, Faithful, Taken
  <2>4. Tree' = Tree
    BY SameFiles DEF CreateSnapshot
  <2> QED BY <2>2, <2>3, <2>4 DEF Faithful, Reading, Taken, Saved, Restoring
<1> QED BY <1>1, <1>2 DEF CreateSnapshot

LEMMA ListCurrentFaithful ==
  ASSUME Typed, NEW p \in Procs, Faithful(p), ListCurrent(p)
  PROVE  Faithful(p)'
<1>1. op'[p] = [op[p] EXCEPT !.pc = "restore", !.todo = op[p].target, !.rest = ListFiles]
      /\ op[p] \in Operation
  BY DEF ListCurrent, Typed
<1>2. /\ op'[p].pc = "restore" /\ op'[p].todo = op[p].target /\ op'[p].target = op[p].target
      /\ op'[p].rest = ListFiles
  BY <1>1 DEF Operation
<1>3. Tree' = Tree /\ ListFiles' = ListFiles /\ UNCHANGED snaps
  BY SameFiles DEF ListCurrent
<1>4. Done(p)' = {}
  BY <1>2 DEF Done
<1>5. EntriesOf(op[p].rest)' = Tree
  BY <1>2, EntriesListed DEF EntriesOf, EntryOf
<1>6. ~Outages => Tree \subseteq UNION snaps
  BY DEF ListCurrent, Faithful, Saved
<1>7. Restoring(p)'
  BY <1>2, <1>3, <1>4, <1>5, <1>6 DEF Restoring
<1> QED BY <1>2, <1>7 DEF Faithful, Reading, Taken, Saved

\* The entries of the rest after one file is struck off.
LEMMA StruckOff ==
  ASSUME FilesOK, NEW p \in Procs, op[p].rest \subseteq ListFiles, NEW f \in op[p].rest,
         Tree = EntriesOf(op[p].rest) \cup Done(p),
         \A g \in op[p].rest : \A e \in Done(p) : g.path # e.path
  PROVE  Tree \ {EntryOf(f)} = EntriesOf(op[p].rest \ {f}) \cup Done(p)
<1>1. \A g \in op[p].rest \ {f} : EntryOf(g) # EntryOf(f)
  BY ListedDiffer DEF EntryOf
<1>2. EntryOf(f) \notin Done(p)
  BY DEF EntryOf
<1> QED BY <1>1, <1>2 DEF EntriesOf

LEMMA RestoreMissingFaithful ==
  ASSUME Typed, NEW p \in Procs, Faithful(p), RestoreMissing(p)
  PROVE  Faithful(p)'
<1>1. op[p] \in Operation /\ op[p].pc = "restore" /\ op[p].todo \subseteq Entry
  BY DEF RestoreMissing, Typed, TodoTyped
<1>2. PICK e \in First(op[p].todo), i \in Unused :
        /\ Current(p, e) = {} /\ At(e.path) = {}
        /\ files' = [files EXCEPT ![i] = NewFile(e)]
        /\ op' = [op EXCEPT ![p].todo = @ \ {e}]
  BY DEF RestoreMissing
<1>3. e \in op[p].todo /\ i \in Ids /\ files[i] = NoFile /\ e \in Entry
  BY <1>1 DEF First, Unused
<1>4. Tree' = Tree \cup {e} /\ ListFiles \subseteq ListFiles'
  BY <1>2, <1>3, CreatedTree DEF Typed
<1>5. op'[p] = [op[p] EXCEPT !.todo = op[p].todo \ {e}]
  BY <1>2 DEF Typed
<1>6. /\ op'[p].pc = "restore" /\ op'[p].todo = op[p].todo \ {e}
      /\ op'[p].target = op[p].target /\ op'[p].rest = op[p].rest
  BY <1>1, <1>5 DEF Operation
<1>7. Restoring(p)
  BY DEF Faithful
<1>8. Done(p)' = Done(p) \cup {e}
  BY <1>1, <1>3, <1>6, <1>7 DEF Done, Restoring
<1>9. EntriesOf(op[p].rest)' = EntriesOf(op[p].rest)
  BY <1>6 DEF EntriesOf, EntryOf
<1>10. \A f \in op[p].rest : f.path # e.path
  BY <1>2 DEF Current
<1>11. Restoring(p)'
  <2>1. op'[p].todo \subseteq op'[p].target /\ op'[p].rest \subseteq ListFiles'
    BY <1>1, <1>4, <1>6, <1>7 DEF Restoring
  <2>2. \A f \in op'[p].rest : \A d \in Done(p)' : f.path # d.path
    BY <1>1, <1>6, <1>7, <1>8, <1>10 DEF Restoring
  <2>3. Tree' = EntriesOf(op[p].rest)' \cup Done(p)'
    BY <1>1, <1>4, <1>7, <1>8, <1>9 DEF Restoring
  <2>4. ~Outages => EntriesOf(op[p].rest)' \subseteq UNION snaps'
    BY <1>1, <1>7, <1>9 DEF Restoring, RestoreMissing
  <2> QED BY <2>1, <2>2, <2>3, <2>4 DEF Restoring
<1> QED BY <1>6, <1>11 DEF Faithful, Reading, Taken, Saved

\* A listed file is deleted: as a file to be replaced, or as one the snapshot has not.
LEMMA StruckFaithful ==
  ASSUME Typed, NEW p \in Procs, Faithful(p), op[p].pc = "restore",
         NEW f \in op[p].rest, files' \in Deleted(f.id), op' = [op EXCEPT ![p].rest = @ \ {f}],
         UNCHANGED snaps
  PROVE  Faithful(p)'
<1>1. op[p] \in Operation
  BY DEF Typed
<1>2. op'[p] = [op[p] EXCEPT !.rest = op[p].rest \ {f}]
  BY DEF Typed
<1>3. /\ op'[p].pc = "restore" /\ op'[p].todo = op[p].todo
      /\ op'[p].target = op[p].target /\ op'[p].rest = op[p].rest \ {f}
  BY <1>1, <1>2 DEF Operation
<1>4. /\ op[p].todo \subseteq op[p].target /\ op[p].rest \subseteq ListFiles
      /\ \A g \in op[p].rest : \A e \in Done(p) : g.path # e.path
      /\ Tree = EntriesOf(op[p].rest) \cup Done(p)
      /\ ~Outages => EntriesOf(op[p].rest) \subseteq UNION snaps
  BY DEF Faithful, Restoring
<1>5. Tree' = Tree \ {EntryOf(f)} /\ ListFiles \ {f} \subseteq ListFiles'
  BY <1>4, DeletedTree DEF Typed
<1>6. Done(p)' = Done(p)
  BY <1>3 DEF Done
<1>7. EntriesOf(op[p].rest)' = EntriesOf(op[p].rest \ {f})
  BY <1>3 DEF EntriesOf, EntryOf
<1>8. Tree \ {EntryOf(f)} = EntriesOf(op[p].rest \ {f}) \cup Done(p)
  BY <1>4, StruckOff DEF Typed
<1>9. EntriesOf(op[p].rest \ {f}) \subseteq EntriesOf(op[p].rest)
  BY DEF EntriesOf
<1>10. Restoring(p)'
  <2>1. op'[p].todo \subseteq op'[p].target /\ op'[p].rest \subseteq ListFiles'
    BY <1>3, <1>4, <1>5
  <2>2. \A g \in op'[p].rest : \A e \in Done(p)' : g.path # e.path
    BY <1>3, <1>4, <1>6
  <2>3. Tree' = EntriesOf(op[p].rest)' \cup Done(p)'
    BY <1>5, <1>6, <1>7, <1>8
  <2>4. ~Outages => EntriesOf(op[p].rest)' \subseteq UNION snaps'
    BY <1>4, <1>7, <1>9
  <2> QED BY <2>1, <2>2, <2>3, <2>4 DEF Restoring
<1> QED BY <1>3, <1>10 DEF Faithful, Reading, Taken, Saved

LEMMA RestoreTextFaithful ==
  ASSUME Typed, NEW p \in Procs, Faithful(p), RestoreText(p)
  PROVE  Faithful(p)'
<1>1. op[p] \in Operation /\ op[p].pc = "restore" /\ op[p].todo \subseteq Entry
  BY DEF RestoreText, Typed, TodoTyped
<1>2. PICK e \in First(op[p].todo), f \in op[p].rest :
        /\ f \in Current(p, e) /\ ~Replaced(f, e)
        /\ files' = IF f.kind = "text" THEN [files EXCEPT ![f.id].hash = e.hash] ELSE files
        /\ op' = [op EXCEPT ![p].todo = @ \ {e}, ![p].rest = @ \ {f}]
  BY DEF RestoreText
<1>3. e \in op[p].todo /\ e \in Entry /\ e.path = f.path /\ e.kind = f.kind
  BY <1>1, <1>2 DEF First, Current, Replaced
<1>4. op'[p] = [op[p] EXCEPT !.todo = op[p].todo \ {e}, !.rest = op[p].rest \ {f}]
  BY <1>2 DEF Typed
<1>5. /\ op'[p].pc = "restore" /\ op'[p].todo = op[p].todo \ {e}
      /\ op'[p].target = op[p].target /\ op'[p].rest = op[p].rest \ {f}
  BY <1>1, <1>4 DEF Operation
<1>6. /\ op[p].todo \subseteq op[p].target /\ op[p].rest \subseteq ListFiles
      /\ \A g \in op[p].rest : \A d \in Done(p) : g.path # d.path
      /\ Tree = EntriesOf(op[p].rest) \cup Done(p)
      /\ ~Outages => EntriesOf(op[p].rest) \subseteq UNION snaps
  BY <1>1 DEF Faithful, Restoring
<1>7. Tree' = (Tree \ {EntryOf(f)}) \cup {e} /\ ListFiles \ {f} \subseteq ListFiles'
  <2>1. CASE f.kind = "text"
    BY <1>2, <1>3, <1>6, <2>1, HashSetTree DEF Typed
  <2>2. CASE f.kind # "text"
    <3>1. e.kind = "asset"
      BY <1>3, <2>2 DEF Entry, Kinds
    <3>2. EntryOf(f) = e
      BY <1>2, <1>3, <3>1 DEF Replaced, EntryOf, Entry
    <3>3. Tree' = Tree /\ ListFiles' = ListFiles
      BY <1>2, <2>2, SameFiles
    <3>4. EntryOf(f) \in Tree
      BY <1>2, <1>6, Listed
    <3> QED BY <3>2, <3>3, <3>4
  <2> QED BY <2>1, <2>2
<1>8. Done(p)' = Done(p) \cup {e}
  BY <1>3, <1>5, <1>6 DEF Done
<1>9. EntriesOf(op[p].rest)' = EntriesOf(op[p].rest \ {f})
  BY <1>5 DEF EntriesOf, EntryOf
<1>10. Tree \ {EntryOf(f)} = EntriesOf(op[p].rest \ {f}) \cup Done(p)
  BY <1>2, <1>6, StruckOff DEF Typed
<1>11. EntriesOf(op[p].rest \ {f}) \subseteq EntriesOf(op[p].rest)
  BY DEF EntriesOf
<1>12. \A g \in op[p].rest \ {f} : g.path # e.path
  BY <1>2, <1>3, <1>6, ListedDiffer DEF Typed
<1>13. Restoring(p)'
  <2>1. op'[p].todo \subseteq op'[p].target /\ op'[p].rest \subseteq ListFiles'
    BY <1>5, <1>6, <1>7
  <2>2. \A g \in op'[p].rest : \A d \in Done(p)' : g.path # d.path
    BY <1>5, <1>6, <1>8, <1>12
  <2>3. Tree' = EntriesOf(op[p].rest)' \cup Done(p)'
    BY <1>7, <1>8, <1>9, <1>10
  <2>4. ~Outages => EntriesOf(op[p].rest)' \subseteq UNION snaps'
    BY <1>6, <1>9, <1>11 DEF RestoreText
  <2> QED BY <2>1, <2>2, <2>3, <2>4 DEF Restoring
<1> QED BY <1>5, <1>13 DEF Faithful, Reading, Taken, Saved

LEMMA OwnStepFaithful ==
  ASSUME Inv, NEW p \in Procs, OpNext(p), Undisturbed(p)'
  PROVE  Faithful(p)'
<1>1. CASE \E kind, target : Snapshot(p, kind, target)
  BY <1>1, SnapshotFaithful DEF Inv
<1>2. CASE Restored(p) \/ Fails(p)
  BY <1>2, FinishIdles DEF Restored, Fails, Inv
<1>3. CASE /\ ~\E kind, target : Snapshot(p, kind, target)
           /\ ~(Restored(p) \/ Fails(p))
  <2>1. \/ ReadFile(p) \/ LatestSnapshotHash(p) \/ CreateSnapshot(p)
        \/ ListCurrent(p) \/ RestoreMissing(p) \/ RestoreReplaced(p) \/ RestoreText(p)
        \/ RemoveRest(p)
    BY <1>3 DEF OpNext
  <2>2. CASE Finish(p)
    BY <2>2, FinishIdles DEF Inv
  <2>3. CASE ~Finish(p)
    <3>1. Undisturbed(p)
      BY <2>1, <2>3 DEF Undisturbed, ReadFile, LatestSnapshotHash, CreateSnapshot, ListCurrent,
                        RestoreMissing, RestoreReplaced, RestoreText, RemoveRest, Disturbs
    <3>2. Faithful(p) /\ Typed
      BY <3>1 DEF Inv
    <3>3. CASE RestoreReplaced(p) \/ RemoveRest(p)
      <4>1. /\ op[p].pc = "restore" /\ UNCHANGED snaps
            /\ \E f \in op[p].rest : /\ files' \in Deleted(f.id)
                                     /\ op' = [op EXCEPT ![p].rest = @ \ {f}]
        BY <3>3 DEF RestoreReplaced, RemoveRest
      <4> QED BY <3>2, <4>1, StruckFaithful
    <3> QED BY <2>1, <3>2, <3>3, ReadFileFaithful, LatestSnapshotHashFaithful,
               CreateSnapshotFaithful, ListCurrentFaithful, RestoreMissingFaithful,
               RestoreTextFaithful
  <2> QED BY <2>2, <2>3
<1> QED BY <1>1, <1>2, <1>3

LEMMA InvInit ==
  ASSUME Init
  PROVE  Inv
<1>1. \A p \in Procs : Idling(p)
  BY IdleTyped DEF Init, Idling
<1> QED BY <1>1, TypedInit, FaithfulIdle DEF Inv

LEMMA InvStep ==
  ASSUME Inv, [Next]_vars
  PROVE  Inv'
<1>1. Typed'
  BY TypedStep DEF Inv
<1>2. ASSUME NEW q \in Procs, Undisturbed(q)'
      PROVE  Faithful(q)'
  <2>1. CASE UNCHANGED vars
    BY <1>2, <2>1, SameFiles, FaithfulKept DEF vars, Inv, Undisturbed
  <2>2. CASE \E i \in Ids : FileStep(i)
    BY <1>2, <2>2, FileStepFaithful
  <2>3. CASE \E p \in Procs : OpNext(p)
    BY <1>2, <2>3, OwnStepFaithful, OthersFaithful
  <2> QED BY <2>1, <2>2, <2>3, NextCases
<1> QED BY <1>1, <1>2 DEF Inv

-----------------------------------------------------------------------------
(* The theorems.                                                            *)

\* Whoever nobody has disturbed knows the project, at every step of versions.go:87 and :157.
THEOREM VersionsInvariant == Spec => []Inv
<1>1. Init => Inv
  BY InvInit
<1>2. Inv /\ [Next]_vars => Inv'
  BY InvStep
<1> QED BY <1>1, <1>2, PTL DEF Spec

\* A snapshot nobody disturbed is the project with its live text (versions.go:87), for any
\* number of files, contents and operations, as long as the sidecar answers.
THEOREM SnapshotIsCurrentAlways ==
  ASSUME ~Outages
  PROVE  Spec => SnapshotIsCurrent
<1>1. Inv /\ [Next]_vars =>
        [\A p \in Procs : Creates(p) /\ Undisturbed(p) => op[p].manifest = Tree]_vars
  BY DEF Inv, Creates, Faithful, Taken
<1> QED BY <1>1, VersionsInvariant, PTL DEF Spec, SnapshotIsCurrent

\* A restore nobody disturbed ends with the files of the snapshot and no others
\* (versions.go:157), whether the sidecar answers its snapshot or not.
THEOREM RestoreYieldsSnapshotAlways == Spec => RestoreYieldsSnapshot
<1>1. Inv /\ [Next]_vars =>
        [\A p \in Procs : Completes(p) /\ Undisturbed(p) => Tree = op[p].target]_vars
  <2> SUFFICES ASSUME Inv, NEW p \in Procs, Completes(p), Undisturbed(p)
               PROVE  Tree = op[p].target
    OBVIOUS
  <2>1. Restoring(p) /\ op[p].pc = "restore" /\ op[p].todo = {} /\ op[p].rest = {}
    BY DEF Inv, Faithful, Completes
  <2> QED BY <2>1 DEF Restoring, Done, EntriesOf
<1> QED BY <1>1, VersionsInvariant, PTL DEF Spec, RestoreYieldsSnapshot

\* The steps that change files strike off one listed file, and all listed files are saved.
LEMMA DestroysSaved ==
  ASSUME ~Outages, Inv, [Next]_vars, NEW p \in Procs, Restores(p), Undisturbed(p)
  PROVE  Tree \ Tree' \subseteq UNION snaps
<1>1. op[p].pc = "restore" /\ Typed /\ Restoring(p)
  BY DEF Inv, Faithful, Restores
<1>2. FilesMove(p)
  <2>1. PICK q \in Procs : OpNext(q)
    <3>1. ~UNCHANGED vars
      BY DEF vars, Restores
    <3>2. ASSUME NEW i \in Ids, FileStep(i)
          PROVE  FALSE
      BY <3>2 DEF Restores, FileStep, UserTypes, CreateFile, RenameFile, DocStored, DeleteFile, Unload, Change
    <3> QED BY <3>1, <3>2, NextCases
  <2>2. FilesMove(q)
    BY <2>1 DEF Restores, FilesMove, OpNext, Snapshot, ReadFile, LatestSnapshotHash, CreateSnapshot,
                ListCurrent, Restored, Fails
  <2>3. p = q
    BY <1>1, <2>2 DEF Restores, Typed, FilesMove, RestoreMissing, RestoreReplaced, RestoreText, RemoveRest
  <2> QED BY <2>2, <2>3
<1>3. op[p].rest \subseteq ListFiles /\ EntriesOf(op[p].rest) \subseteq UNION snaps
  BY <1>1 DEF Restoring
<1>4. CASE RestoreMissing(p)
  <2>1. PICK e \in First(op[p].todo), i \in Unused :
          At(e.path) = {} /\ files' = [files EXCEPT ![i] = NewFile(e)]
    BY <1>4 DEF RestoreMissing
  <2>2. e \in Entry /\ i \in Ids /\ files[i] = NoFile
    BY <1>1, <2>1 DEF Typed, TodoTyped, First, Unused
  <2> QED BY <1>1, <2>1, <2>2, CreatedTree DEF Typed
<1>5. CASE RestoreReplaced(p) \/ RemoveRest(p)
  <2>1. PICK f \in op[p].rest : files' \in Deleted(f.id)
    BY <1>5 DEF RestoreReplaced, RemoveRest
  <2>2. Tree' = Tree \ {EntryOf(f)}
    BY <1>1, <1>3, <2>1, DeletedTree DEF Typed
  <2> QED BY <1>3, <2>2 DEF EntriesOf
<1>6. CASE RestoreText(p)
  <2>1. PICK e \in First(op[p].todo), f \in op[p].rest :
          /\ f \in Current(p, e) /\ ~Replaced(f, e)
          /\ files' = [files EXCEPT ![f.id].hash = e.hash]
    BY <1>6 DEF RestoreText, Restores
  <2>2. e \in Entry /\ e.path = f.path /\ e.kind = f.kind
    BY <1>1, <2>1 DEF Typed, TodoTyped, First, Current, Replaced
  <2>3. Tree' = (Tree \ {EntryOf(f)}) \cup {e}
    BY <1>1, <1>3, <2>1, <2>2, HashSetTree DEF Typed
  <2> QED BY <1>3, <2>3 DEF EntriesOf
<1> QED BY <1>2, <1>4, <1>5, <1>6 DEF FilesMove

\* What an undisturbed restore deletes or overwrites is in a snapshot (versions.go:156), as
\* long as the sidecar answers; the run VersionsOutage shows why it must.
THEOREM DestroysOnlySavedAlways ==
  ASSUME ~Outages
  PROVE  Spec => DestroysOnlySaved
<1>1. Inv /\ [Next]_vars =>
        [\A p \in Procs : Restores(p) /\ Undisturbed(p) => Tree \ Tree' \subseteq UNION snaps]_vars
  BY DestroysSaved
<1> QED BY <1>1, VersionsInvariant, PTL DEF Spec, DestroysOnlySaved
=============================================================================
