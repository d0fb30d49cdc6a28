----------------------------- MODULE AutoVersions -----------------------------
(***************************************************************************)
(* A document and the versions that are taken of it: the life of the text  *)
(* (DocSync) and the schedule (SnapshotSchedule) of a project of one file. *)
(* A PUT of the sidecar is a step of both, and a snapshot reads the text   *)
(* the document has by then, or its mirror.                                *)
(***************************************************************************)
EXTENDS DocSync

CONSTANTS
  idleWindow, maxWindow,  \* as in SnapshotSchedule
  MaxLost,                \* bound: snapshots and marks that are lost to failures
  MaxRestarts             \* bound: restarts of the application

ASSUME AutoVersionsConstants ==
  idleWindow \in Nat /\ maxWindow \in Nat /\ MaxLost \in Nat /\ MaxRestarts \in Nat

VARIABLES
  dirty, marking, due, snap, unsaved, forgotten, lost, restarts,
  reading,  \* the text the snapshot in progress has read
  saved     \* the text of the newest snapshot

Project  == "project"
Schedule == INSTANCE SnapshotSchedule
              WITH Projects <- {Project}, Puts <- Sidecars, None <- "none", put <- marking,
                   failures <- lost, crashes <- restarts,
                   MaxFailures <- MaxLost, MaxCrashes <- MaxRestarts

schedule == <<dirty, marking, due, snap, unsaved, forgotten, lost, restarts>>
versions == <<reading, saved>>
allVars  == <<vars, schedule, versions>>

AutoInit == Init /\ Schedule!Init /\ reading = {} /\ saved = {}

-----------------------------------------------------------------------------
(* A PUT: the state, the mirror, then OnDocStored.                          *)

StateStored(g) ==
  /\ UpsertYjsState(g) /\ Schedule!handleInternalPutYDoc(g, Project)
  /\ UNCHANGED versions

MirrorStored(g) == UpsertFileContent(g) /\ UNCHANGED <<schedule, versions>>

\* Mutant: the project is marked before the mirror is written.
MarkedEarly(g) ==
  /\ put[g].pc = "content" /\ Schedule!MarkDirty(g)
  /\ UNCHANGED <<vars, versions>>

\* Mutant: an error of TouchProject, which is ignored, ends the handler.
NotMarked(g) ==
  /\ put[g] = NoPut /\ marking[g] # "none"
  /\ marking' = [marking EXCEPT ![g] = "none"]
  /\ UNCHANGED <<vars, dirty, due, snap, unsaved, forgotten, lost, restarts, versions>>

\* OnDocStored takes no context: nothing keeps it from running now.
OnDocStored(g) ==
  /\ put[g] = NoPut /\ Schedule!MarkDirty(g)
  /\ UNCHANGED <<vars, versions>>

\* The handler returns before OnDocStored.
PutEnds(g) ==
  /\ PutRefused(g) \/ PutFails(g) \/ PutCancelled(g)
  /\ IF marking[g] = "none" THEN UNCHANGED schedule ELSE Schedule!PutFails(g)
  /\ UNCHANGED versions

\* The sidecar waits for the answer before it stores again or lets the document go.
NextStore ==
  /\ marking[sidecar] = "none"
  /\ onStoreDocument \/ Unload
  /\ UNCHANGED <<schedule, versions>>

Elsewhere ==
  /\ \/ \E t \in Tabs : \/ Connect(t) \/ Disconnect(t) \/ CloseTab(t) \/ Receive(t)
                        \/ \E e \in Edits : Type(t, e)
     \/ \E e \in Edits : withDoc(e)
     \/ Crash \/ DeleteFile
  /\ UNCHANGED <<schedule, versions>>

Load         == (onLoadDocument \/ GetState \/ GetContent) /\ UNCHANGED <<schedule, versions>>
Sent(t)      == Send(t) /\ UNCHANGED <<schedule, versions>>
Reconnect(t) == Connect(t) /\ replica[t] # {} /\ UNCHANGED <<schedule, versions>>

-----------------------------------------------------------------------------
(* The snapshotter.                                                         *)

Clock == Schedule!Tick /\ UNCHANGED <<vars, versions>>
Sweep == Schedule!sweep /\ UNCHANGED <<vars, versions>>

\* The live text if the document is loaded and the sidecar answers, else the mirror.
currentText == {mirror} \cup IF mem # NoDoc THEN {mem} ELSE {}

Snapshot ==
  /\ Schedule!Snapshot(Project)
  /\ IF row THEN reading' \in currentText ELSE reading' = {}
  /\ UNCHANGED <<vars, saved>>

SnapshotCreated ==
  /\ Schedule!SnapshotCreated
  /\ saved' = reading /\ reading' = {}
  /\ UNCHANGED vars

SnapshotFails ==
  /\ Schedule!SnapshotFails
  /\ reading' = {}
  /\ UNCHANGED <<vars, saved>>

\* The application restarts: requests of the sidecar fail, and the map is empty.
Restart ==
  /\ Schedule!Crash
  /\ reading' = {}
  /\ put' = [g \in Sidecars |-> NoPut]
  /\ failures' = failures + Cardinality({g \in Sidecars : put[g] # NoPut})
  /\ load' = "no"
  /\ UNCHANGED <<stored, mem, pending, sidecar, clients, seeds, drops, stray, saved>>

AutoNext ==
  \/ \E g \in Sidecars : StateStored(g) \/ MirrorStored(g) \/ OnDocStored(g) \/ PutEnds(g)
  \/ \E t \in Tabs : Sent(t)
  \/ NextStore \/ Load \/ Elsewhere
  \/ Clock \/ Sweep \/ Snapshot \/ SnapshotCreated \/ SnapshotFails \/ Restart

\* What DocSync and SnapshotSchedule assume of their parts.
AutoFairness ==
  /\ \A t \in Tabs : SF_allVars(Reconnect(t)) /\ SF_allVars(Sent(t))
  /\ WF_allVars(Load) /\ WF_allVars(NextStore)
  /\ \A g \in Sidecars :
       WF_allVars(StateStored(g)) /\ WF_allVars(MirrorStored(g)) /\ WF_allVars(OnDocStored(g))
  /\ WF_allVars(Clock) /\ WF_allVars(Sweep) /\ WF_allVars(Snapshot) /\ WF_allVars(SnapshotCreated)

AutoSpec == AutoInit /\ [][AutoNext]_allVars /\ AutoFairness

-----------------------------------------------------------------------------
(* Properties.                                                              *)

AtRest ==
  /\ \A g \in Sidecars : put[g] = NoPut /\ marking[g] = "none"
  /\ ~dirty[Project].set /\ due = {} /\ snap = Schedule!Resting

\* versions.go:43, collab_handlers.go:161: when no PUT, mark or snapshot is left, the newest
\* snapshot shows all that is stored of the document, whichever of the two texts it has
\* read, unless a mark was lost, a store has failed or a PUT has outlived its sidecar.
StoredIsSaved ==
  AtRest /\ row /\ failures = 0 /\ ~stray /\ forgotten = {} => yjs \subseteq saved

\* What is typed in a tab that stays open is in a snapshot in the end, with the same exceptions.
TypedIsSaved ==
  \A t \in Tabs \ Readers, e \in Edits :
    <<"edit", e>> \in replica[t]
      ~> \/ <<"edit", e>> \in saved \/ replica[t] = {} \/ ~row
         \/ failures > 0 \/ stray \/ forgotten # {}
=============================================================================
