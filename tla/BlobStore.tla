------------------------------ MODULE BlobStore ------------------------------
(***************************************************************************)
(* One entry of the content-addressed store (internal/blob), which is also *)
(* how cachedProxy fills its cache: look for the file, write a temporary   *)
(* one beside it, rename.  All writers of one content use one temporary    *)
(* name.  A name stands for an inode; a writer writes to the inode it has  *)
(* opened whatever the name stands for by then.                            *)
(***************************************************************************)
EXTENDS Naturals, FiniteSets

CONSTANTS
  Putters,
  MaxInodes,      \* bound: inodes ever created
  MaxCrashes      \* bound: ends of the process

ASSUME BlobConstants == MaxInodes \in Nat /\ MaxCrashes \in Nat

VARIABLES
  final, temporary,  \* the inode of each name, 0 for none
  whole,             \* the inodes that hold all the bytes
  lastInode,
  writer,            \* what each writer is about to do, and the inode it has open
  crashes,
  shared             \* history: a writer has opened the file another one was writing

blobVars == <<final, temporary, whole, lastInode, writer, crashes, shared>>

NotWriting   == [step |-> "idle", inode |-> 0]

BlobInit ==
  /\ final = 0 /\ temporary = 0 /\ whole = {} /\ lastInode = 0
  /\ writer = [w \in Putters |-> NotWriting] /\ crashes = 0 /\ shared = FALSE

\* Stat: what is there is taken for complete.
Put(w) ==
  /\ writer[w] = NotWriting /\ final = 0
  /\ writer' = [writer EXCEPT ![w].step = "open"]
  /\ UNCHANGED <<final, temporary, whole, lastInode, crashes, shared>>

Writing(i) == {w \in Putters : writer[w].inode = i /\ writer[w].step \in {"write", "rename"}}

\* Mutant: the file is written under its own name.
OpenFinal(w) ==
  /\ writer[w].step = "open" /\ lastInode < MaxInodes
  /\ lastInode' = lastInode + 1 /\ final' = lastInode'
  /\ writer' = [writer EXCEPT ![w] = [step |-> "write", inode |-> lastInode']]
  /\ UNCHANGED <<temporary, whole, crashes, shared>>

\* WriteFile opens with O_CREATE and O_TRUNC.
OpenTemporary(w) ==
  /\ writer[w].step = "open"
  /\ IF temporary = 0 THEN lastInode < MaxInodes /\ lastInode' = lastInode + 1 /\ temporary' = lastInode'
     ELSE UNCHANGED <<lastInode, temporary>>
  /\ whole' = whole \ {temporary'}
  /\ shared' = (shared \/ Writing(temporary') # {})
  /\ writer' = [writer EXCEPT ![w] = [step |-> "write", inode |-> temporary']]
  /\ UNCHANGED <<final, crashes>>

\* All the bytes, or an error, which ends the Put.
WriteFile(w) ==
  /\ writer[w].step = "write"
  /\ \/ /\ whole' = whole \cup {writer[w].inode}
        /\ writer' = [writer EXCEPT ![w].step = "rename"]
     \/ writer' = [writer EXCEPT ![w] = NotWriting] /\ UNCHANGED whole
  /\ UNCHANGED <<final, temporary, lastInode, crashes, shared>>

\* It fails where the other writer has renamed the file already.
Rename(w) ==
  /\ writer[w].step = "rename"
  /\ IF temporary # 0 THEN final' = temporary /\ temporary' = 0 ELSE UNCHANGED <<final, temporary>>
  /\ writer' = [writer EXCEPT ![w] = NotWriting]
  /\ UNCHANGED <<whole, lastInode, crashes, shared>>

\* The process ends; the files stay.
Crash ==
  /\ crashes < MaxCrashes /\ crashes' = crashes + 1
  /\ writer' = [w \in Putters |-> NotWriting]
  /\ UNCHANGED <<final, temporary, whole, lastInode, shared>>

BlobNext == (\E w \in Putters : Put(w) \/ OpenTemporary(w) \/ WriteFile(w) \/ Rename(w)) \/ Crash

BlobSpec == BlobInit /\ [][BlobNext]_blobVars

-----------------------------------------------------------------------------

\* blob.go:30 "Put stores the bytes": what readers find under the final name is whole, also
\* after a crash or an error in the middle, unless two writers have shared the temporary file.
WholeUnlessShared == final # 0 => final \in whole \/ shared
=============================================================================
