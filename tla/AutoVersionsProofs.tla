------------------------- MODULE AutoVersionsProofs -------------------------
(***************************************************************************)
(* A document and its versions.  The composition steps the schedule by the *)
(* schedule's own actions, so that what is proved of it carries over, and  *)
(* keeps the invariant of the document.  What a snapshot saves then rests  *)
(* on three facts: the text in memory contains what is stored, the mirror  *)
(* is what is stored unless a PUT is about to write it, and that PUT still *)
(* has its mark to set.                                                    *)
(***************************************************************************)
EXTENDS AutoVersions, DocSyncProofs

ScheduleProofs == INSTANCE SnapshotScheduleProofs
                    WITH Projects <- {Project}, Puts <- Sidecars, None <- "none", put <- marking,
                         failures <- lost, crashes <- restarts,
                         MaxFailures <- MaxLost, MaxCrashes <- MaxRestarts

\* A PUT that has stored the state and not the mirror has not set its mark.
MarkToSet == \A g \in Sidecars : put[g].pc = "content" => marking[g] = Project

\* The newest snapshot, or the one in progress, shows all that is stored, or somebody still
\* knows that another one must be taken.
Newest == IF snap = Schedule!Resting THEN saved ELSE reading

SavedOrRemembered ==
  row /\ failures = 0 /\ ~stray /\ Project \notin forgotten
    => yjs \subseteq Newest \/ Schedule!Remembered(Project)

AutoInv ==
  /\ IInv
  /\ Schedule!TypeOK
  /\ MarkToSet
  /\ SavedOrRemembered
-----------------------------------------------------------------------------

LEMMA ScheduleAssumptions ==
  /\ "none" \notin {Project}
  /\ idleWindow \in Nat /\ maxWindow \in Nat
  /\ MaxLost \in Nat /\ MaxRestarts \in Nat
BY AutoVersionsConstants DEF Project

\* The two instances of the schedule are the same specification.
LEMMA OneSchedule ==
  /\ Schedule!Init <=> ScheduleProofs!Init
  /\ Schedule!Next <=> ScheduleProofs!Next
  /\ Schedule!vars = ScheduleProofs!vars
  /\ Schedule!TypeOK <=> ScheduleProofs!TypeOK
<1>1. Schedule!Init <=> ScheduleProofs!Init
  BY DEF Schedule!Init, ScheduleProofs!Init, Schedule!Clean, ScheduleProofs!Clean, Schedule!Resting, ScheduleProofs!Resting
<1>2. Schedule!TypeOK <=> ScheduleProofs!TypeOK
  BY DEF Schedule!TypeOK, ScheduleProofs!TypeOK, Schedule!Mark, ScheduleProofs!Mark, Schedule!Resting, ScheduleProofs!Resting
<1>3. Schedule!vars = ScheduleProofs!vars
  BY DEF Schedule!vars, ScheduleProofs!vars
<1>4. Schedule!Next <=> ScheduleProofs!Next
  BY DEF Schedule!Next, Schedule!MarkDirty, Schedule!PutFails, Schedule!handleInternalPutYDoc, Schedule!Snapshot,
         Schedule!Tick, Schedule!sweep, Schedule!SnapshotCreated, Schedule!SnapshotFails, Schedule!Crash,
         Schedule!Clean, Schedule!Resting, Schedule!Older, Schedule!Due, Schedule!Unread,
         ScheduleProofs!Next, ScheduleProofs!MarkDirty, ScheduleProofs!PutFails, ScheduleProofs!handleInternalPutYDoc, ScheduleProofs!Snapshot,
         ScheduleProofs!Tick, ScheduleProofs!sweep, ScheduleProofs!SnapshotCreated, ScheduleProofs!SnapshotFails, ScheduleProofs!Crash,
         ScheduleProofs!Clean, ScheduleProofs!Resting, ScheduleProofs!Older, ScheduleProofs!Due, ScheduleProofs!Unread
<1> QED
  BY <1>1, <1>2, <1>3, <1>4

\* Every step of the composition is one of the schedule, or leaves it alone.
LEMMA ScheduleStep == AutoNext => Schedule!Next \/ UNCHANGED Schedule!vars
<1> SUFFICES ASSUME AutoNext PROVE Schedule!Next \/ UNCHANGED Schedule!vars
  OBVIOUS
<1>1. ASSUME UNCHANGED schedule PROVE UNCHANGED Schedule!vars
  BY <1>1 DEF schedule, Schedule!vars
<1>2. ASSUME NEW g \in Sidecars, StateStored(g) \/ MirrorStored(g) \/ OnDocStored(g) \/ PutEnds(g)
      PROVE  Schedule!Next \/ UNCHANGED Schedule!vars
  BY <1>1, <1>2 DEF StateStored, MirrorStored, OnDocStored, PutEnds, Schedule!Next
<1>3. CASE Clock \/ Sweep \/ Snapshot \/ SnapshotCreated \/ SnapshotFails \/ Restart
  BY <1>3 DEF Clock, Sweep, Snapshot, SnapshotCreated, SnapshotFails, Restart, Schedule!Next
<1>4. CASE NextStore \/ Load \/ Elsewhere \/ \E t \in Tabs : Sent(t)
  BY <1>1, <1>4 DEF NextStore, Load, Elsewhere, Sent
<1> QED
  BY <1>2, <1>3, <1>4 DEF AutoNext

\* Every step of the composition but a restart of the application is one of the document,
\* or leaves it alone.
LEMMA DocumentStep == AutoNext => Next \/ Restart \/ UNCHANGED vars
<1> SUFFICES ASSUME AutoNext PROVE Next \/ Restart \/ UNCHANGED vars
  OBVIOUS
<1>1. ASSUME NEW g \in Sidecars, StateStored(g) \/ MirrorStored(g) \/ OnDocStored(g) \/ PutEnds(g)
      PROVE  Next \/ UNCHANGED vars
  BY <1>1 DEF StateStored, MirrorStored, OnDocStored, PutEnds, Next
<1>2. CASE Clock \/ Sweep \/ Snapshot \/ SnapshotCreated \/ SnapshotFails
  BY <1>2 DEF Clock, Sweep, Snapshot, SnapshotCreated, SnapshotFails
<1>3. CASE NextStore \/ Load \/ Elsewhere \/ \E t \in Tabs : Sent(t)
  BY <1>3 DEF NextStore, Load, Elsewhere, Sent, Next
<1> QED
  BY <1>1, <1>2, <1>3 DEF AutoNext

LEMMA ScheduleTyped == Schedule!TypeOK /\ (AutoNext \/ UNCHANGED allVars) => Schedule!TypeOK'
<1>1. UNCHANGED allVars => UNCHANGED Schedule!vars
  BY DEF allVars, schedule, Schedule!vars
<1>2. ScheduleProofs!TypeOK' <=> Schedule!TypeOK'
  BY DEF Schedule!TypeOK, ScheduleProofs!TypeOK, Schedule!Mark, ScheduleProofs!Mark, Schedule!Resting, ScheduleProofs!Resting
<1>3. UNCHANGED Schedule!vars => UNCHANGED ScheduleProofs!vars
  BY DEF Schedule!vars, ScheduleProofs!vars
<1>4. ScheduleProofs!TypeOK /\ [ScheduleProofs!Next]_(ScheduleProofs!vars) => ScheduleProofs!TypeOK'
  BY ScheduleProofs!TypeStep, ScheduleAssumptions
<1> QED
  BY <1>1, <1>2, <1>3, <1>4, ScheduleStep, OneSchedule

\* The restart of the application ends every PUT, which counts as a failure of each.
LEMMA RestartStep == IInv /\ Restart => IInv'
<1> SUFFICES ASSUME IInv, Restart PROVE IInv'
  OBVIOUS
<1> USE DEF IInv, NoDoc
<1> DEFINE ended == {g \in Sidecars : put[g] # NoPut}
<1>1. \A g \in Sidecars : put'[g] = NoPut
  BY DEF Restart
<1>2. sidecar \in Sidecars /\ sidecar' = sidecar
  BY DEF Restart, TypeOK
<1>3. IsFiniteSet(ended)
  <2>1. IsFiniteSet(Sidecars)
    BY FS_Interval, DocSyncConstants DEF Sidecars
  <2> QED
    BY <2>1, FS_Subset
<1>4. failures' = failures + Cardinality(ended) /\ Cardinality(ended) \in Nat
  BY <1>3, FS_CardinalityType DEF Restart
<1>5. failures' = 0 => failures = 0 /\ ended = {}
  <2>1. Cardinality(ended) = 0 => ended = {}
    BY <1>3, FS_EmptySet
  <2>2. failures \in Nat
    BY DEF TypeOK
  <2> HIDE DEF ended
  <2> QED
    BY <1>4, <2>1, <2>2
<1>6. TypeOK'
  <2>1. put' \in [Sidecars -> PutRecord]
    BY Members DEF Restart
  <2>2. failures' \in Nat
    BY <1>4 DEF TypeOK
  <2> QED
    BY <1>1, <1>2, <2>1, <2>2 DEF Restart, TypeOK, PutRecord, stored, clients
<1>7. Puts'
  BY <1>1, <1>2 DEF Puts
<1>8. Seeding'
  BY <1>1, Blank DEF Restart, Seeding, AllWithin, NothingYet, SeededOnce, Within, stored, clients, TypeOK
<1>9. Kept'
  BY <1>1, <1>2, Blank DEF Restart, Kept, stored
<1>10. Mirrored'
  <2> SUFFICES ASSUME row', ~stray', yjs' # NoDoc, failures' = 0 PROVE mirror' = yjs'
    BY <1>1, <1>2, Blank DEF Mirrored
  <2>1. put[sidecar].pc # "content"
    BY <1>2, <1>5, Blank
  <2> QED
    BY <1>5, <2>1 DEF Restart, Mirrored, stored
<1> QED
  BY <1>6, <1>7, <1>8, <1>9, <1>10

LEMMA DocumentKept == IInv /\ (AutoNext \/ UNCHANGED allVars) => IInv'
<1>1. UNCHANGED allVars => UNCHANGED vars
  BY DEF allVars
<1> QED
  BY <1>1, DocumentStep, Step, RestartStep

LEMMA AutoStart == AutoInit => AutoInv
<1> SUFFICES ASSUME AutoInit PROVE AutoInv
  OBVIOUS
<1>1. IInv
  BY Start DEF AutoInit
<1>2. Schedule!TypeOK
  <2>1. ScheduleProofs!Init => ScheduleProofs!IInv
    BY ScheduleProofs!InvInit, ScheduleAssumptions
  <2> QED
    BY <2>1, OneSchedule DEF AutoInit, ScheduleProofs!IInv
<1>3. MarkToSet
  BY Blank DEF AutoInit, Init, MarkToSet
<1>4. SavedOrRemembered
  BY DEF AutoInit, Init, SavedOrRemembered, NoDoc
<1> QED
  BY <1>1, <1>2, <1>3, <1>4 DEF AutoInv

LEMMA MarkToSetStep == AutoInv /\ AutoNext => MarkToSet'
<1> SUFFICES ASSUME AutoInv, AutoNext, NEW g \in Sidecars, put'[g].pc = "content"
             PROVE  marking'[g] = Project
  BY DEF MarkToSet
<1> USE DEF AutoInv, IInv
<1>t. /\ put \in [Sidecars -> PutRecord] /\ marking \in [Sidecars -> {Project, "none"}]
      /\ put[g].pc = "content" => marking[g] = Project
  BY DEF TypeOK, Schedule!TypeOK, PutRecord, MarkToSet
<1>u. Project # "none"
  BY DEF Project
<1>1. ASSUME NEW h \in Sidecars, StateStored(h) PROVE marking'[g] = Project
  BY <1>1, <1>t DEF StateStored, UpsertYjsState, Goto, Schedule!handleInternalPutYDoc
<1>2. ASSUME NEW h \in Sidecars, MirrorStored(h) PROVE marking'[g] = Project
  BY <1>2, <1>t, Blank DEF MirrorStored, UpsertFileContent, Over, schedule
<1>3. ASSUME NEW h \in Sidecars, OnDocStored(h) PROVE marking'[g] = Project
  BY <1>3, <1>t, Blank DEF OnDocStored, Schedule!MarkDirty, vars
<1>4. ASSUME NEW h \in Sidecars, PutEnds(h) PROVE marking'[g] = Project
  <2>1. put'[h] = NoPut /\ \A k \in Sidecars : k # h => put'[k] = put[k]
    BY <1>4, Ends DEF PutEnds, PutRefused, PutFails, PutCancelled
  <2>2. g # h /\ put[g].pc = "content"
    BY <2>1, Blank
  <2>3. marking'[g] = marking[g]
    BY <1>4, <1>t, <2>2 DEF PutEnds, Schedule!PutFails, schedule
  <2> QED
    BY <1>t, <2>2, <2>3
<1>5. CASE NextStore
  BY <1>5, <1>t, Blank DEF NextStore, onStoreDocument, Unload, schedule, Schedule!vars
<1>6. CASE Load \/ Elsewhere \/ \E t \in Tabs : Sent(t)
  <2>1. UNCHANGED <<put, marking>>
    BY <1>6 DEF Load, onLoadDocument, GetState, GetContent, Elsewhere, Connect, Disconnect, CloseTab, Receive,
       Type, withDoc, Crash, DeleteFile, Sent, Send, schedule
  <2> QED
    BY <1>t, <2>1
<1>7. CASE Clock \/ Sweep \/ Snapshot \/ SnapshotCreated \/ SnapshotFails
  <2>1. UNCHANGED <<put, marking>>
    BY <1>7 DEF Clock, Sweep, Snapshot, SnapshotCreated, SnapshotFails, vars, Schedule!Tick, Schedule!sweep,
       Schedule!Snapshot, Schedule!SnapshotCreated, Schedule!SnapshotFails
  <2> QED
    BY <1>t, <2>1
<1>8. CASE Restart
  BY <1>8, Blank DEF Restart
<1> QED
  BY <1>1, <1>2, <1>3, <1>4, <1>5, <1>6, <1>7, <1>8 DEF AutoNext

\* A step that stores nothing, ends no snapshot and keeps what somebody knows.
LEMMA SavedKept ==
  ASSUME SavedOrRemembered, failures \in Nat, failures' >= failures, stray => stray',
         row' => row /\ yjs' = yjs, Newest' = Newest, Project \in forgotten => Project \in forgotten',
         Schedule!Remembered(Project) => Schedule!Remembered(Project)' \/ Project \in forgotten'
  PROVE  SavedOrRemembered'
BY DEF SavedOrRemembered

LEMMA SavedStep == AutoInv /\ AutoNext => SavedOrRemembered'
<1> SUFFICES ASSUME AutoInv, AutoNext PROVE SavedOrRemembered'
  OBVIOUS
<1> USE DEF AutoInv, IInv
<1>t. /\ put \in [Sidecars -> PutRecord] /\ marking \in [Sidecars -> {Project, "none"}]
      /\ dirty \in [{Project} -> Schedule!Mark] /\ due \subseteq {Project} /\ forgotten \subseteq {Project}
      /\ snap # Schedule!Resting => snap.p = Project
      /\ failures \in Nat
  BY DEF TypeOK, Schedule!TypeOK, PutRecord
<1>u. Project # "none"
  BY DEF Project
<1>1. ASSUME NEW h \in Sidecars, StateStored(h) PROVE SavedOrRemembered'
  <2>1. marking'[h] = Project
    BY <1>1, <1>t DEF StateStored, Schedule!handleInternalPutYDoc
  <2> QED
    BY <2>1 DEF SavedOrRemembered, Schedule!Remembered
<1>2. ASSUME UNCHANGED schedule, UNCHANGED versions,
             failures' \in Nat, failures' >= failures, stray => stray', row' => row /\ yjs' = yjs
      PROVE  SavedOrRemembered'
  <2>1. Newest' = Newest /\ forgotten' = forgotten
    BY <1>2 DEF schedule, versions, Newest
  <2>2. Schedule!Remembered(Project)' <=> Schedule!Remembered(Project)
    BY <1>2 DEF schedule, Schedule!Remembered
  <2> QED
    BY <1>2, <1>t, <2>1, <2>2, SavedKept
<1>3. ASSUME NEW h \in Sidecars, MirrorStored(h) PROVE SavedOrRemembered'
  BY <1>2, <1>3, <1>t DEF MirrorStored, UpsertFileContent, history
<1>4. ASSUME NEW h \in Sidecars, OnDocStored(h) PROVE SavedOrRemembered'
  <2>1. marking[h] = Project
    BY <1>4, <1>t, <1>u DEF OnDocStored, Schedule!MarkDirty
  <2>2. dirty'[Project].set
    BY <1>4, <1>t, <2>1 DEF OnDocStored, Schedule!MarkDirty
  <2> QED
    BY <2>2 DEF SavedOrRemembered, Schedule!Remembered
<1>5. ASSUME NEW h \in Sidecars, PutEnds(h) PROVE SavedOrRemembered'
  <2>1. failures' \in Nat /\ failures' >= failures /\ UNCHANGED <<row, yjs, stray>> /\ UNCHANGED versions
    BY <1>5, <1>t DEF PutEnds, PutRefused, PutFails, PutCancelled, stored, history
  <2>2. CASE marking[h] = "none"
    BY <1>2, <1>5, <2>1, <2>2 DEF PutEnds
  <2>3. CASE marking[h] = Project
    <3>1. Project \in forgotten'
      BY <1>5, <1>u, <2>3 DEF PutEnds, Schedule!PutFails
    <3> QED
      BY <3>1 DEF SavedOrRemembered
  <2> QED
    BY <1>t, <2>2, <2>3
<1>6. CASE NextStore \/ Load \/ \E t \in Tabs : Sent(t)
  <2>1. UNCHANGED <<row, yjs, stray, failures>> /\ UNCHANGED schedule /\ UNCHANGED versions
    BY <1>6 DEF NextStore, onStoreDocument, Unload, Load, onLoadDocument, GetState, GetContent, Sent, Send,
       stored, history
  <2> QED
    BY <1>2, <1>t, <2>1
<1>7. CASE Elsewhere
  <2>1. /\ UNCHANGED failures /\ (stray => stray') /\ (row' => row /\ yjs' = yjs)
        /\ UNCHANGED schedule /\ UNCHANGED versions
    <3>1. UNCHANGED schedule /\ UNCHANGED versions
      BY <1>7 DEF Elsewhere
    <3>2. CASE Crash
      BY <3>1, <3>2 DEF Crash, stored
    <3>3. CASE DeleteFile
      BY <3>1, <3>3 DEF DeleteFile, history
    <3>4. ASSUME NEW t \in Tabs, Connect(t) \/ Disconnect(t) \/ CloseTab(t) \/ Receive(t)
          PROVE  UNCHANGED <<row, yjs, stray, failures>>
      BY <3>4 DEF Connect, Disconnect, CloseTab, Receive, stored, history
    <3>5. ASSUME NEW t \in Tabs, NEW e \in Edits, Type(t, e) PROVE UNCHANGED <<row, yjs, stray, failures>>
      BY <3>5 DEF Type, stored, history
    <3>6. ASSUME NEW e \in Edits, withDoc(e) PROVE UNCHANGED <<row, yjs, stray, failures>>
      BY <3>6 DEF withDoc, stored, history
    <3> QED
      BY <1>7, <3>1, <3>2, <3>3, <3>4, <3>5, <3>6 DEF Elsewhere
  <2> QED
    BY <1>2, <1>t, <2>1
<1>8. CASE Clock \/ Sweep
  <2>1. /\ UNCHANGED <<row, yjs, stray, failures>> /\ UNCHANGED versions
        /\ UNCHANGED <<snap, forgotten, marking>>
    BY <1>8 DEF Clock, Sweep, Schedule!Tick, Schedule!sweep, vars, stored, history
  <2>2. dirty[Project].set => dirty'[Project].set \/ Project \in due'
    <3>1. CASE Clock
      BY <3>1, <1>t DEF Clock, Schedule!Tick, Schedule!Mark, Project
    <3>2. CASE Sweep
      BY <3>2, <1>t DEF Sweep, Schedule!sweep, Project
    <3> QED
      BY <1>8, <3>1, <3>2
  <2>3. Project \in due => Project \in due'
    BY <1>8 DEF Clock, Sweep, Schedule!Tick, Schedule!sweep
  <2>4. Schedule!Remembered(Project) => Schedule!Remembered(Project)'
    BY <2>1, <2>2, <2>3 DEF Schedule!Remembered
  <2>5. Newest' = Newest
    BY <2>1 DEF Newest, versions
  <2> QED
    BY <1>t, <2>1, <2>4, <2>5, SavedKept
<1>9. CASE Snapshot
  <2> SUFFICES ASSUME row, failures = 0, ~stray, ~Schedule!Remembered(Project)'
               PROVE  yjs \subseteq reading'
    <3>1. UNCHANGED <<row, yjs, stray, failures>>
      BY <1>9 DEF Snapshot, vars, stored, history
    <3>2. snap' # Schedule!Resting
      BY <1>9, <1>u DEF Snapshot, Schedule!Snapshot, Schedule!Resting
    <3> QED
      BY <3>1, <3>2 DEF SavedOrRemembered, Newest
  <2>1. reading' \in currentText
    BY <1>9 DEF Snapshot
  <2>2. sidecar \in Sidecars /\ put[sidecar].pc # "content"
    <3>1. UNCHANGED marking
      BY <1>9 DEF Snapshot, Schedule!Snapshot
    <3> QED
      BY <3>1 DEF Schedule!Remembered, MarkToSet, TypeOK
  <2>3. yjs # NoDoc => mirror = yjs
    BY <2>2 DEF Mirrored
  <2>4. mem # NoDoc => yjs \subseteq mem
    BY DEF Kept
  <2> QED
    BY <2>1, <2>3, <2>4 DEF currentText, NoDoc
<1>10. CASE SnapshotCreated
  <2>1. snap # Schedule!Resting /\ snap' = Schedule!Resting
    BY <1>10 DEF SnapshotCreated, Schedule!SnapshotCreated
  <2>2. Newest = reading /\ Newest' = reading
    BY <1>10, <2>1 DEF SnapshotCreated, Newest
  <2>3. UNCHANGED <<row, yjs, stray, failures>> /\ UNCHANGED <<forgotten, dirty, due, marking>>
    BY <1>10 DEF SnapshotCreated, Schedule!SnapshotCreated, vars, stored, history
  <2>4. Schedule!Remembered(Project)' <=> Schedule!Remembered(Project)
    BY <2>3 DEF Schedule!Remembered
  <2> QED
    BY <2>2, <2>3, <2>4 DEF SavedOrRemembered
<1>11. CASE SnapshotFails \/ Restart
  <2>1. Project \in forgotten'
    BY <1>11, <1>t DEF SnapshotFails, Restart, Schedule!SnapshotFails, Schedule!Crash
  <2> QED
    BY <2>1 DEF SavedOrRemembered
<1> QED
  BY <1>1, <1>3, <1>4, <1>5, <1>6, <1>7, <1>8, <1>9, <1>10, <1>11 DEF AutoNext

LEMMA AutoStep == AutoInv /\ [AutoNext]_allVars => AutoInv'
<1> SUFFICES ASSUME AutoInv, [AutoNext]_allVars PROVE AutoInv'
  OBVIOUS
<1>1. IInv' /\ Schedule!TypeOK'
  BY DocumentKept, ScheduleTyped DEF AutoInv
<1>2. CASE UNCHANGED allVars
  <2>1. MarkToSet'
    BY <1>2 DEF AutoInv, MarkToSet, allVars, vars, schedule
  <2>2. SavedOrRemembered'
    BY <1>2 DEF AutoInv, SavedOrRemembered, Newest, Schedule!Remembered, allVars, vars, stored, history, schedule, versions
  <2> QED
    BY <1>1, <2>1, <2>2 DEF AutoInv
<1>3. CASE AutoNext
  BY <1>1, <1>3, MarkToSetStep, SavedStep DEF AutoInv
<1> QED
  BY <1>2, <1>3

-----------------------------------------------------------------------------

\* The composition keeps what is proved of the document, and its own invariant.
THEOREM AutoVersionsInvariant == AutoSpec => []AutoInv
BY AutoStart, AutoStep, PTL DEF AutoSpec

\* When nothing is left to do the newest snapshot shows all that is stored, whichever of the
\* two texts it has read (versions.go:43, collab_handlers.go:161).
THEOREM StoredIsSavedAlways == AutoSpec => []StoredIsSaved
<1>1. AutoInv => StoredIsSaved
  <2> SUFFICES ASSUME AutoInv, AtRest, row, failures = 0, ~stray, forgotten = {}
               PROVE  yjs \subseteq saved
    BY DEF StoredIsSaved
  <2>1. ~Schedule!Remembered(Project)
    BY DEF AtRest, Schedule!Remembered, Project
  <2> QED
    BY <2>1 DEF AutoInv, SavedOrRemembered, AtRest, Newest
<1> QED
  BY AutoVersionsInvariant, <1>1, PTL

\* The composition implements the schedule: what its model says of marks and sweeps is true
\* of the marks that the PUTs of one document set.
THEOREM ScheduleImplemented == AutoSpec => Schedule!Spec
<1>1. AutoInit => Schedule!Init
  BY DEF AutoInit
<1>2. [AutoNext]_allVars => [Schedule!Next]_(Schedule!vars)
  <2>1. UNCHANGED allVars => UNCHANGED Schedule!vars
    BY DEF allVars, schedule, Schedule!vars
  <2> QED
    BY <2>1, ScheduleStep
<1> QED
  BY <1>1, <1>2, PTL DEF AutoSpec, Schedule!Spec

\* No race of a PUT with the sweep or a snapshot forgets a change of the document, only a
\* failure or a restart does (versions.go:80).
THEOREM NoChangeOfTheDocumentForgotten == AutoSpec => []Schedule!NoChangeForgotten
<1>1. ScheduleProofs!Init => ScheduleProofs!IInv
  BY ScheduleProofs!InvInit, ScheduleAssumptions
<1>2. ScheduleProofs!IInv /\ [ScheduleProofs!Next]_(ScheduleProofs!vars) => ScheduleProofs!IInv'
  BY ScheduleProofs!InvStep, ScheduleAssumptions
<1>3. ScheduleProofs!IInv => Schedule!NoChangeForgotten
  BY DEF ScheduleProofs!IInv, ScheduleProofs!NoChangeForgotten, ScheduleProofs!Remembered,
         Schedule!NoChangeForgotten, Schedule!Remembered
<1>4. AutoInit => ScheduleProofs!Init
  BY OneSchedule DEF AutoInit
<1>5. [AutoNext]_allVars => [ScheduleProofs!Next]_(ScheduleProofs!vars)
  <2>1. UNCHANGED allVars => UNCHANGED ScheduleProofs!vars
    BY DEF allVars, schedule, ScheduleProofs!vars
  <2>2. UNCHANGED Schedule!vars => UNCHANGED ScheduleProofs!vars
    BY DEF Schedule!vars, ScheduleProofs!vars
  <2> QED
    BY <2>1, <2>2, ScheduleStep, OneSchedule
<1> QED
  BY <1>1, <1>2, <1>3, <1>4, <1>5, PTL DEF AutoSpec
=============================================================================
