------------------------------ MODULE Versions ------------------------------
(***************************************************************************)
(* Snapshots of a project and restoring them.  Both read and write the     *)
(* files one by one, with a call to Postgres or to the collaboration       *)
(* sidecar each, while browsers type and other requests create, rename and *)
(* delete files.  A content hash stands for the bytes.                     *)
(***************************************************************************)
EXTENDS Naturals

CONSTANTS
  Ids,        \* file ids
  Paths,      \* paths, as numbers: files are listed ORDER BY path
  Hashes,     \* contents
  Sweeper,    \* the goroutine that takes automatic snapshots
  Requests,   \* requests that save a named version or restore one
  NoFile,
  Outages,    \* whether a call to the sidecar may fail
  MaxChanges  \* bound: changes made by browsers and by requests about files

ASSUME VersionConstants ==
  /\ Paths \subseteq Nat /\ Sweeper \notin Requests
  /\ Outages \in BOOLEAN /\ MaxChanges \in Nat

VARIABLES
  files,    \* each file: its row, the text the sidecar holds and the stored mirror
  snaps,    \* the snapshots taken so far
  latest,   \* project_hash of the newest one
  op,       \* what each goroutine is doing
  disturbed, \* who has met a change by others since it began
  changes

vars == <<files, snaps, latest, op, disturbed, changes>>

Procs == {Sweeper} \cup Requests
Kinds == {"text", "asset"}

\* Without a row a file is only a document some browser has still open.
Rows     == {i \in Ids : files[i] # NoFile /\ files[i].row}
At(path) == {i \in Rows : files[i].path = path}

File  == [path : Paths, kind : Kinds, hash : Hashes, mirror : Hashes, row : BOOLEAN]
Entry == [path : Paths, kind : Kinds, hash : Hashes]

ASSUME NoFileIsNoFile == NoFile \notin File

EntryOf(f) == [path |-> f.path, kind |-> f.kind, hash |-> f.hash]

\* The project as its members see it.
Tree == {EntryOf(files[i]) : i \in Rows}

\* What ListFiles returns; the hash of a text is read later.
ListFiles == {[id |-> i, path |-> files[i].path, kind |-> files[i].kind, hash |-> files[i].hash] : i \in Rows}

First(S) == {f \in S : \A g \in S : f.path <= g.path}

\* The kind is not part of the project hash.
manifestHash(m) == {<<e.path, e.hash>> : e \in m}

NewFile(e) == [path |-> e.path, kind |-> e.kind, hash |-> e.hash, mirror |-> e.hash, row |-> TRUE]

\* Ids are never used again: no request that still knows an old one may meet a new file.
Unused == {i \in Ids : files[i] = NoFile /\ \A p \in Procs : \A f \in op[p].todo \cup op[p].rest :
                                              "id" \in DOMAIN f => f.id # i}

Idle == [pc |-> "idle", kind |-> "auto", todo |-> {}, manifest |-> {}, target |-> {}, rest |-> {}]

\* What a project can have held: paths are unique.
Manifests == {m \in SUBSET Entry : \A e, f \in m : e.path = f.path => e = f}

\* The unique index on (project_id, path).
UniquePaths == \A i, j \in Rows : files[i].path = files[j].path => i = j

\* A project, new or with a snapshot of what it was before.
Init ==
  /\ files \in [Ids -> {NoFile} \cup {NewFile(e) : e \in Entry}]
  /\ UniquePaths
  /\ \/ snaps = {} /\ latest = {}
     \/ \E m \in Manifests : snaps = {m} /\ latest = manifestHash(m)
  /\ op = [p \in Procs |-> Idle]
  /\ disturbed = {}
  /\ changes = 0

Idling(p) == op[p].pc \in {"idle", "done"}

\* Everybody else who is at work meets the step of p.
Disturbs(p) == disturbed' = disturbed \cup {q \in Procs \ {p} : ~Idling(q)}

-----------------------------------------------------------------------------
(* Browsers and requests about files.                                       *)

Change ==
  /\ changes < MaxChanges /\ changes' = changes + 1
  /\ disturbed' = {q \in Procs : ~Idling(q)}
  /\ UNCHANGED <<snaps, latest, op>>

UserTypes(i, h) ==
  /\ files[i] # NoFile /\ files[i].kind = "text" /\ files[i].hash # h
  /\ files' = [files EXCEPT ![i].hash = h]
  /\ Change

\* The sidecar stores the document: yjs_state and the mirror.
DocStored(i) ==
  /\ i \in Rows /\ files[i].mirror # files[i].hash
  /\ files' = [files EXCEPT ![i].mirror = files[i].hash]
  /\ UNCHANGED <<snaps, latest, op, disturbed, changes>>

CreateFile(i, e) ==
  /\ i \in Unused /\ At(e.path) = {}
  /\ files' = [files EXCEPT ![i] = NewFile(e)]
  /\ Change

\* Mutant: no unique index on (project_id, path).
RenameFileTaken(i, path) ==
  /\ i \in Rows
  /\ files' = [files EXCEPT ![i].path = path]
  /\ Change

RenameFile(i, path) ==
  /\ i \in Rows /\ At(path) = {}
  /\ files' = [files EXCEPT ![i].path = path]
  /\ Change

\* The row goes with its mirror and Yjs state; an open document stays in memory.
Deleted(i) ==
  IF i \notin Rows THEN {files}
  ELSE {[files EXCEPT ![i] = NoFile]}
       \cup (IF files[i].kind = "text" THEN {[files EXCEPT ![i].row = FALSE]} ELSE {})

DeleteFile(i) ==
  /\ i \in Rows
  /\ files' \in Deleted(i)
  /\ Change

\* The last browser leaves a document that has no row any more.
Unload(i) ==
  /\ files[i] # NoFile /\ ~files[i].row
  /\ files' = [files EXCEPT ![i] = NoFile]
  /\ UNCHANGED <<snaps, latest, op, disturbed, changes>>

-----------------------------------------------------------------------------
(* Snapshot.                                                                *)

\* Bound: the sweeper comes by once in a behaviour.
Finish(p) ==
  /\ op' = [op EXCEPT ![p] = [Idle EXCEPT !.pc = "done"]]
  /\ disturbed' = disturbed \ {p}

\* sweep, handleCreateVersion and Restore all begin with ListFiles.
Snapshot(p, kind, target) ==
  /\ op[p].pc = "idle"
  /\ op' = [op EXCEPT ![p] = [pc |-> "read", kind |-> kind, todo |-> ListFiles,
                              manifest |-> {}, target |-> target, rest |-> {}]]
  /\ UNCHANGED <<files, snaps, latest, disturbed, changes>>

\* Mutant: the mirror is read, not the live text.
currentTextMirror(i) ==
  IF files[i] = NoFile THEN {} ELSE {files[i].mirror}

\* The live text if the sidecar has it, the mirror if it has not or does not
\* answer; an error if there is neither.
currentText(i) ==
  IF files[i] = NoFile THEN {}
  ELSE {files[i].hash} \cup (IF Outages /\ files[i].row THEN {files[i].mirror} ELSE {})

ReadFile(p) ==
  /\ op[p].pc = "read"
  /\ \E f \in First(op[p].todo) : \E h \in IF f.kind = "asset" THEN {f.hash} ELSE currentText(f.id) :
       op' = [op EXCEPT ![p].todo = @ \ {f},
                        ![p].manifest = @ \cup {[path |-> f.path, kind |-> f.kind, hash |-> h]}]
  /\ UNCHANGED <<files, snaps, latest, disturbed, changes>>

LatestSnapshotHash(p) ==
  /\ op[p].pc = "read" /\ op[p].todo = {}
  /\ IF op[p].kind = "auto" /\ latest = manifestHash(op[p].manifest)
     THEN Finish(p)
     ELSE op' = [op EXCEPT ![p].pc = "create"] /\ UNCHANGED disturbed
  /\ UNCHANGED <<files, snaps, latest, changes>>

CreateSnapshot(p) ==
  /\ op[p].pc = "create"
  /\ snaps' = snaps \cup {op[p].manifest}
  /\ latest' = manifestHash(op[p].manifest)
  /\ IF op[p].kind = "pre_restore"
     THEN op' = [op EXCEPT ![p].pc = "list", ![p].manifest = {}] /\ UNCHANGED disturbed
     ELSE Finish(p)
  /\ UNCHANGED <<files, changes>>

-----------------------------------------------------------------------------
(* Restore, after its own snapshot.                                         *)

ListCurrent(p) ==
  /\ op[p].pc = "list"
  /\ op' = [op EXCEPT ![p].pc = "restore", ![p].todo = op[p].target, ![p].rest = ListFiles]
  /\ UNCHANGED <<files, snaps, latest, disturbed, changes>>

Current(p, e) == {f \in op[p].rest : f.path = e.path}

\* Mutant: a file whose kind has changed gets the new content as it is.
ReplacedIgnoringKind(f, e) == f.kind = "asset" /\ e.kind = "asset" /\ f.hash # e.hash
Replaced(f, e) == f.kind # e.kind \/ (e.kind = "asset" /\ f.hash # e.hash)

\* A file the snapshot has and the listing has not; a path that has been taken
\* since is an error.
RestoreMissing(p) ==
  /\ op[p].pc = "restore"
  /\ \E e \in First(op[p].todo), i \in Unused :
       /\ Current(p, e) = {} /\ At(e.path) = {}
       /\ files' = [files EXCEPT ![i] = NewFile(e)]
       /\ op' = [op EXCEPT ![p].todo = @ \ {e}]
  /\ Disturbs(p)
  /\ UNCHANGED <<snaps, latest, changes>>

\* A file that must be replaced is deleted first, and is then missing.
RestoreReplaced(p) ==
  /\ op[p].pc = "restore"
  /\ \E e \in First(op[p].todo), f \in op[p].rest :
       /\ f \in Current(p, e) /\ Replaced(f, e)
       /\ files' \in Deleted(f.id)
       /\ op' = [op EXCEPT ![p].rest = @ \ {f}]
  /\ Disturbs(p)
  /\ UNCHANGED <<snaps, latest, changes>>

\* A text is set through the sidecar, which still may have a deleted one open.
RestoreText(p) ==
  /\ op[p].pc = "restore"
  /\ \E e \in First(op[p].todo), f \in op[p].rest :
       /\ f \in Current(p, e) /\ ~Replaced(f, e)
       /\ f.kind = "text" => files[f.id] # NoFile
       /\ files' = IF f.kind = "text" THEN [files EXCEPT ![f.id].hash = e.hash] ELSE files
       /\ op' = [op EXCEPT ![p].todo = @ \ {e}, ![p].rest = @ \ {f}]
  /\ Disturbs(p)
  /\ UNCHANGED <<snaps, latest, changes>>

\* What the snapshot has not is deleted, in the order of a Go map.
RemoveRest(p) ==
  /\ op[p].pc = "restore" /\ op[p].todo = {}
  /\ \E f \in op[p].rest :
       /\ files' \in Deleted(f.id)
       /\ op' = [op EXCEPT ![p].rest = @ \ {f}]
  /\ Disturbs(p)
  /\ UNCHANGED <<snaps, latest, changes>>

Restored(p) ==
  /\ op[p].pc = "restore" /\ op[p].todo = {} /\ op[p].rest = {}
  /\ Finish(p)
  /\ UNCHANGED <<files, snaps, latest, changes>>

\* Any call can fail or be cancelled; what is done stays done.
Fails(p) ==
  /\ ~Idling(p)
  /\ Finish(p)
  /\ UNCHANGED <<files, snaps, latest, changes>>

Next ==
  \/ \E i \in Ids : \/ \E h \in Hashes : UserTypes(i, h)
                    \/ \E e \in Entry : CreateFile(i, e)
                    \/ \E path \in Paths : RenameFile(i, path)
                    \/ DocStored(i) \/ DeleteFile(i) \/ Unload(i)
  \/ Snapshot(Sweeper, "auto", {})
  \/ \E p \in Requests : \/ Snapshot(p, "named", {})
                         \/ \E target \in snaps : Snapshot(p, "pre_restore", target)
  \/ \E p \in Procs : \/ ReadFile(p) \/ LatestSnapshotHash(p) \/ CreateSnapshot(p)
                      \/ ListCurrent(p) \/ RestoreMissing(p) \/ RestoreReplaced(p) \/ RestoreText(p)
                      \/ RemoveRest(p) \/ Restored(p) \/ Fails(p)

Spec == Init /\ [][Next]_vars

-----------------------------------------------------------------------------
(* Properties.                                                              *)

Row == [id : Ids, path : Paths, kind : Kinds, hash : Hashes]

\* Files, manifests and the work in progress hold what the code can put there,
\* and no two rows of a project have the same path.
TypeOK ==
  /\ files \in [Ids -> File \cup {NoFile}]
  /\ UniquePaths
  /\ snaps \subseteq SUBSET Entry
  /\ latest \subseteq Paths \X Hashes
  /\ \A p \in Procs :
       /\ op[p].pc \in {"idle", "done", "read", "create", "list", "restore"}
       /\ op[p].kind \in {"auto", "named", "pre_restore"}
       /\ op[p].todo \subseteq IF op[p].pc = "restore" THEN Entry ELSE Row
       /\ op[p].rest \subseteq Row
       /\ op[p].manifest \subseteq Entry /\ op[p].target \subseteq Entry
  /\ disturbed \subseteq Procs
  /\ changes \in Nat

\* Nobody else has changed the project since p began.
Undisturbed(p) == p \notin disturbed

Creates(p)  == op[p].pc = "create" /\ op'[p].pc \in {"idle", "done", "list"} /\ op[p].manifest \in snaps'
Completes(p) == op[p].pc = "restore" /\ op[p].todo = {} /\ op[p].rest = {} /\ op'[p].pc = "done"
Restores(p) == op[p].pc = "restore" /\ op'[p] # op[p] /\ files' # files

\* A snapshot nobody disturbed is the project, with the text that is on the
\* screens and not only the stored one.
SnapshotIsCurrent ==
  [][\A p \in Procs : Creates(p) /\ Undisturbed(p) => op[p].manifest = Tree]_vars

\* A restore nobody disturbed ends with exactly the files of the snapshot,
\* whatever was renamed, deleted, added or has changed its kind since.
RestoreYieldsSnapshot ==
  [][\A p \in Procs : Completes(p) /\ Undisturbed(p) => Tree = op[p].target]_vars

\* Whatever an undisturbed restore deletes or overwrites, even if it fails
\* half-way, is in a snapshot: versions.go:156, "A pre_restore snapshot is taken
\* first".  Without outages of the sidecar it holds.
DestroysOnlySaved ==
  [][\A p \in Procs : Restores(p) /\ Undisturbed(p) => Tree \ Tree' \subseteq UNION snaps]_vars
=============================================================================
