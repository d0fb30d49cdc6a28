----------------------- MODULE SnapshotScheduleProofs -----------------------
(***************************************************************************)
(* No stored change is forgotten, for any number of projects and handlers  *)
(* and any windows.  Given the types, the property is inductive: each step *)
(* that drops a reason to remember a project gives it another, saves the   *)
(* change, or fails.                                                       *)
(***************************************************************************)
EXTENDS SnapshotSchedule, TLAPS

IInv == TypeOK /\ NoChangeForgotten

\* A snapshot in progress has a project.
LEMMA SnapProject ==
  ASSUME TypeOK, snap # Resting
  PROVE  snap.p \in Projects /\ snap.held \in BOOLEAN
BY DEF TypeOK

LEMMA TypeStep == TypeOK /\ [Next]_vars => TypeOK'
<1>. SUFFICES ASSUME TypeOK, [Next]_vars PROVE TypeOK'
  OBVIOUS
<1>. USE ScheduleConstants
<1>1. ASSUME NEW h \in Puts, NEW p \in Projects, handleInternalPutYDoc(h, p)
      PROVE  TypeOK'
  BY <1>1 DEF handleInternalPutYDoc, TypeOK
<1>2. ASSUME NEW h \in Puts, MarkDirty(h)
      PROVE  TypeOK'
  <2>1. put[h] \in Projects
    BY <1>2 DEF MarkDirty, TypeOK
  <2>2. dirty[put[h]].first \in 0 .. maxWindow
    BY <2>1 DEF TypeOK, Mark
  <2>3. [first |-> IF dirty[put[h]].set THEN dirty[put[h]].first ELSE 0, last |-> 0, set |-> TRUE] \in Mark
    BY <2>2 DEF Mark
  <2>4. dirty' \in [Projects -> Mark]
    BY <1>2, <2>1, <2>3 DEF MarkDirty, TypeOK
  <2>. QED
    BY <1>2, <2>4 DEF MarkDirty, TypeOK
<1>4. CASE Tick
  <2>1. ASSUME NEW p \in Projects
        PROVE  [dirty[p] EXCEPT !.first = Older(@), !.last = Older(@)] \in Mark
    <3>1. \A a \in 0 .. maxWindow : Older(a) \in 0 .. maxWindow
      BY DEF Older
    <3>2. dirty[p] \in Mark
      BY DEF TypeOK
    <3>3. dirty[p].first \in 0 .. maxWindow /\ dirty[p].last \in 0 .. maxWindow
      BY <3>2 DEF Mark
    <3>. QED
      BY <3>1, <3>2, <3>3 DEF Mark
  <2>2. dirty' \in [Projects -> Mark]
    BY <1>4, <2>1 DEF Tick
  <2>. QED
    BY <1>4, <2>2 DEF Tick, TypeOK
<1>5. CASE sweep
  <2>1. Clean \in Mark
    BY DEF Clean, Mark
  <2>. QED
    BY <1>5, <2>1 DEF sweep, TypeOK
<1>6. ASSUME NEW p \in Projects, Snapshot(p)
      PROVE  TypeOK'
  <2>1. [p |-> p, held |-> p \in unsaved] \in [p : Projects, held : BOOLEAN]
    BY DEF TypeOK
  <2>. QED
    BY <1>6, <2>1 DEF Snapshot, TypeOK
<1>7. CASE SnapshotCreated
  BY <1>7 DEF SnapshotCreated, TypeOK
<1>8. CASE SnapshotFails
  <2>1. snap.p \in Projects /\ snap.held \in BOOLEAN
    BY <1>8, SnapProject DEF SnapshotFails
  <2>. QED
    BY <1>8, <2>1 DEF SnapshotFails, Unread, TypeOK
<1>9. CASE Crash
  <2>1. unsaved' \subseteq Projects
    BY <1>9, SnapProject DEF Crash, Unread, TypeOK, Resting
  <2>2. Clean \in Mark
    BY DEF Clean, Mark
  <2>. QED
    BY <1>9, <2>1, <2>2 DEF Crash, TypeOK
<1>10. CASE UNCHANGED vars
  BY <1>10 DEF vars, TypeOK
<1>11. ASSUME NEW h \in Puts, PutFails(h)
       PROVE  TypeOK'
  BY <1>11 DEF PutFails, TypeOK
<1>. QED
  BY <1>1, <1>2, <1>4, <1>5, <1>6, <1>7, <1>8, <1>9, <1>10, <1>11 DEF Next

LEMMA InvInit == Init => IInv
<1>. SUFFICES ASSUME Init PROVE IInv
  OBVIOUS
<1>1. TypeOK
  BY ScheduleConstants DEF Init, TypeOK, Mark, Clean
<1>2. NoChangeForgotten
  BY DEF Init, NoChangeForgotten
<1>. QED
  BY <1>1, <1>2 DEF IInv

\* A step that keeps a project remembered and saves nothing anew keeps the invariant.
LEMMA Kept ==
  ASSUME NoChangeForgotten, forgotten \subseteq forgotten',
         \A p \in Projects :
           p \in unsaved' => (p \in unsaved /\ (Remembered(p) => Remembered(p)'))
                                     \/ Remembered(p)'
  PROVE  NoChangeForgotten'
BY DEF NoChangeForgotten

LEMMA InvStep == IInv /\ [Next]_vars => IInv'
<1>. SUFFICES ASSUME IInv, [Next]_vars PROVE NoChangeForgotten'
  BY TypeStep DEF IInv
<1>. USE ScheduleConstants
<1>t. TypeOK /\ NoChangeForgotten /\ (snap # Resting => snap.p \in Projects)
  BY SnapProject DEF IInv
<1>1. ASSUME NEW h \in Puts, NEW p \in Projects, handleInternalPutYDoc(h, p)
      PROVE  NoChangeForgotten'
  <2>1. put'[h] = p /\ \A g \in Puts : g # h => put'[g] = put[g]
    BY <1>1, <1>t DEF handleInternalPutYDoc, TypeOK
  <2>2. \A q \in Projects : q # p => (q \in unsaved' <=> q \in unsaved) /\ (Remembered(q) => Remembered(q)')
    BY <1>1, <1>t, <2>1 DEF handleInternalPutYDoc, TypeOK, Remembered
  <2>3. Remembered(p)'
    BY <2>1 DEF Remembered
  <2>4. forgotten' = forgotten
    BY <1>1 DEF handleInternalPutYDoc
  <2>. QED
    BY <1>t, <2>2, <2>3, <2>4, Kept
<1>2. ASSUME NEW h \in Puts, MarkDirty(h)
      PROVE  NoChangeForgotten'
  <2>1. PICK p \in Projects : put[h] = p
    BY <1>2, <1>t DEF MarkDirty, TypeOK
  <2>2. dirty'[p].set /\ \A q \in Projects : q # p => dirty'[q] = dirty[q]
    BY <1>2, <1>t, <2>1 DEF MarkDirty, TypeOK
  <2>3. \A g \in Puts : g # h => put'[g] = put[g]
    BY <1>2, <1>t DEF MarkDirty, TypeOK
  <2>4. /\ \A q \in Projects : Remembered(q) => Remembered(q)'
        /\ UNCHANGED <<unsaved, forgotten>>
    BY <1>2, <2>1, <2>2, <2>3 DEF MarkDirty, Remembered
  <2>. QED
    BY <1>t, <2>4, Kept
<1>4. CASE Tick
  <2>1. \A q \in Projects : dirty'[q].set = dirty[q].set
    BY <1>4, <1>t DEF Tick, TypeOK, Mark
  <2>2. /\ \A q \in Projects : Remembered(q) => Remembered(q)'
        /\ UNCHANGED <<unsaved, forgotten>>
    BY <1>4, <2>1 DEF Tick, Remembered
  <2>. QED
    BY <1>t, <2>2, Kept
<1>5. CASE sweep
  <2>1. /\ \A q \in Projects : Remembered(q) => Remembered(q)'
        /\ UNCHANGED <<unsaved, forgotten>>
    BY <1>5, <1>t DEF sweep, Remembered
  <2>. QED
    BY <1>t, <2>1, Kept
<1>6. ASSUME NEW p \in Projects, Snapshot(p)
      PROVE  NoChangeForgotten'
  <2>1. p \notin unsaved' /\ \A q \in Projects : q # p => (q \in unsaved' <=> q \in unsaved)
    BY <1>6, <1>t DEF Snapshot, TypeOK
  <2>2. \A q \in Projects : q # p /\ Remembered(q) => Remembered(q)'
    BY <1>6 DEF Snapshot, Remembered
  <2>3. forgotten' = forgotten \ {p}
    BY <1>6 DEF Snapshot
  <2>. QED
    BY <1>t, <2>1, <2>2, <2>3 DEF NoChangeForgotten
<1>7. CASE SnapshotCreated
  <2>1. /\ \A q \in Projects : Remembered(q) => Remembered(q)'
        /\ UNCHANGED <<unsaved, forgotten>>
    BY <1>7 DEF SnapshotCreated, Remembered
  <2>. QED
    BY <1>t, <2>1, Kept
<1>8. CASE SnapshotFails
  <2>1. /\ forgotten' = forgotten \cup {snap.p}
        /\ \A q \in Projects : q # snap.p => (q \in unsaved' <=> q \in unsaved)
        /\ \A q \in Projects : Remembered(q) => Remembered(q)'
    BY <1>8, <1>t DEF SnapshotFails, Unread, Remembered, TypeOK
  <2>. QED
    BY <1>t, <2>1 DEF NoChangeForgotten
<1>9. CASE Crash
  BY <1>9 DEF Crash, NoChangeForgotten
<1>10. CASE UNCHANGED vars
  <2>1. UNCHANGED <<unsaved, forgotten>> /\ \A q \in Projects : Remembered(q) => Remembered(q)'
    BY <1>10 DEF vars, Remembered
  <2>. QED
    BY <1>t, <2>1, Kept
<1>11. ASSUME NEW h \in Puts, PutFails(h)
       PROVE  NoChangeForgotten'
  <2>1. PICK p \in Projects : put[h] = p
    BY <1>11, <1>t DEF PutFails, TypeOK
  <2>2. forgotten' = forgotten \cup {p} /\ UNCHANGED unsaved
    BY <1>11, <2>1 DEF PutFails
  <2>3. \A g \in Puts : g # h => put'[g] = put[g]
    BY <1>11, <1>t DEF PutFails, TypeOK
  <2>4. \A q \in Projects : q # p /\ Remembered(q) => Remembered(q)'
    BY <1>11, <2>1, <2>3 DEF PutFails, Remembered
  <2>. QED
    BY <1>t, <2>2, <2>4 DEF NoChangeForgotten
<1>. QED
  BY <1>1, <1>2, <1>4, <1>5, <1>6, <1>7, <1>8, <1>9, <1>10, <1>11 DEF Next

\* Every variable of the schedule keeps its type, for every window and any crashes.
THEOREM ScheduleTypeCorrect == Spec => []TypeOK
<1>1. Init => TypeOK
  BY InvInit DEF IInv
<1>. QED
  BY <1>1, TypeStep, PTL DEF Spec

\* No interleaving of MarkDirty, sweep and Snapshot forgets a stored change: only
\* a failed Put or snapshot or a restart of the server does.
THEOREM NoChangeForgottenAlways == Spec => []NoChangeForgotten
<1>1. IInv => NoChangeForgotten
  BY DEF IInv
<1>. QED
  BY <1>1, InvInit, InvStep, PTL DEF Spec
=============================================================================
