-------------------------- MODULE SnapshotSchedule --------------------------
(***************************************************************************)
(* When automatic versions are taken.  Every stored document marks its     *)
(* project in the map dirty; a single goroutine wakes up now and then,     *)
(* removes the marks that are old enough and snapshots their projects one  *)
(* after the other.  Time is counted in ticks of that goroutine.           *)
(***************************************************************************)
EXTENDS Naturals

CONSTANTS
  Projects,
  Puts,        \* requests of the sidecar that store a document
  None,        \* no project
  idleWindow,  \* ticks without a write after which a project is due
  maxWindow,   \* ticks after the first write when it is due in any case
  MaxFailures, \* bound: snapshots and Puts that fail
  MaxCrashes   \* bound: restarts of the application

ASSUME ScheduleConstants ==
  /\ None \notin Projects
  /\ idleWindow \in Nat /\ maxWindow \in Nat
  /\ MaxFailures \in Nat /\ MaxCrashes \in Nat

VARIABLES
  dirty,     \* per project: how long ago the first and the last write were marked
  put,       \* the project each Put has stored and not marked yet
  due,       \* projects the sweep has taken off the map
  snap,      \* the snapshot in progress: its project, and whether it holds such a change
  unsaved,   \* projects with a stored change no snapshot has read
  forgotten, \* projects whose mark a failure or a restart has dropped
  failures, crashes

vars == <<dirty, put, due, snap, unsaved, forgotten, failures, crashes>>

Clean   == [first |-> maxWindow, last |-> maxWindow, set |-> FALSE]
Resting == [p |-> None, held |-> FALSE]

Init ==
  /\ dirty = [p \in Projects |-> Clean]
  /\ put = [h \in Puts |-> None]
  /\ due = {}
  /\ snap = Resting
  /\ unsaved = {}
  /\ forgotten = {}
  /\ failures = 0 /\ crashes = 0

-----------------------------------------------------------------------------

\* The text is committed first, OnDocStored runs later in the same handler.
handleInternalPutYDoc(h, p) ==
  /\ put[h] = None
  /\ put' = [put EXCEPT ![h] = p]
  /\ unsaved' = unsaved \cup {p}
  /\ UNCHANGED <<dirty, due, snap, forgotten, failures, crashes>>

MarkDirty(h) ==
  LET p == put[h] IN
  /\ p # None
  /\ dirty' = [dirty EXCEPT ![p] = [first |-> IF @.set THEN @.first ELSE 0, last |-> 0, set |-> TRUE]]
  /\ put' = [put EXCEPT ![h] = None]
  /\ UNCHANGED <<due, snap, unsaved, forgotten, failures, crashes>>

\* The Yjs state is stored, the text mirror is not: the handler returns the error.
PutFails(h) ==
  /\ put[h] # None /\ failures < MaxFailures
  /\ failures' = failures + 1
  /\ forgotten' = forgotten \cup {put[h]}
  /\ put' = [put EXCEPT ![h] = None]
  /\ UNCHANGED <<dirty, due, snap, unsaved, crashes>>

Older(age) == IF age < maxWindow THEN age + 1 ELSE age

Tick ==
  /\ dirty' = [p \in Projects |-> [dirty[p] EXCEPT !.first = Older(@), !.last = Older(@)]]
  /\ UNCHANGED <<put, due, snap, unsaved, forgotten, failures, crashes>>

\* Mutant: only quiet projects are due.
QuietOnly(p) == dirty[p].set /\ dirty[p].last >= idleWindow

Due(p) == dirty[p].set /\ (dirty[p].last >= idleWindow \/ dirty[p].first >= maxWindow)

\* Mutant: the sweep empties the whole map.
sweepAll ==
  /\ due = {} /\ snap = Resting
  /\ due' = {p \in Projects : Due(p)}
  /\ dirty' = [p \in Projects |-> Clean]
  /\ UNCHANGED <<put, snap, unsaved, forgotten, failures, crashes>>

\* Run calls sweep only when the last sweep has returned; marks go at once.
sweep ==
  /\ due = {} /\ snap = Resting
  /\ due' = {p \in Projects : Due(p)}
  /\ dirty' = [p \in Projects |-> IF Due(p) THEN Clean ELSE dirty[p]]
  /\ UNCHANGED <<put, snap, unsaved, forgotten, failures, crashes>>

\* A snapshot reads the project; what is stored from now on is not in it.
Snapshot(p) ==
  /\ p \in due /\ snap = Resting
  /\ snap' = [p |-> p, held |-> p \in unsaved]
  /\ due' = due \ {p}
  /\ unsaved' = unsaved \ {p}
  /\ forgotten' = forgotten \ {p}
  /\ UNCHANGED <<dirty, put, failures, crashes>>

SnapshotCreated ==
  /\ snap # Resting
  /\ snap' = Resting
  /\ UNCHANGED <<dirty, put, due, unsaved, forgotten, failures, crashes>>

\* What a snapshot has read is saved only when it has been created.
Unread == unsaved' = IF snap.held THEN unsaved \cup {snap.p} ELSE unsaved

\* An error is logged and that is all.
SnapshotFails ==
  /\ snap # Resting /\ failures < MaxFailures
  /\ failures' = failures + 1
  /\ Unread
  /\ forgotten' = forgotten \cup {snap.p}
  /\ snap' = Resting
  /\ UNCHANGED <<dirty, put, due, crashes>>

\* The map, the sweep and the handlers live in the memory of the process.
Crash ==
  /\ crashes < MaxCrashes
  /\ crashes' = crashes + 1
  /\ dirty' = [p \in Projects |-> Clean]
  /\ put' = [h \in Puts |-> None]
  /\ due' = {}
  /\ snap' = Resting
  /\ Unread
  /\ forgotten' = Projects
  /\ UNCHANGED failures

Next ==
  \/ \E h \in Puts : MarkDirty(h) \/ PutFails(h) \/ \E p \in Projects : handleInternalPutYDoc(h, p)
  \/ \E p \in Projects : Snapshot(p)
  \/ Tick \/ sweep \/ SnapshotCreated \/ SnapshotFails \/ Crash

Spec == Init /\ [][Next]_vars

\* Time passes, handlers that have stored go on, and so does the goroutine of Run.
Fairness ==
  /\ WF_vars(Tick) /\ WF_vars(sweep)
  /\ \A p \in Projects : WF_vars(Snapshot(p))
  /\ WF_vars(SnapshotCreated)
  /\ \A h \in Puts : WF_vars(MarkDirty(h))

FairSpec == Spec /\ Fairness

-----------------------------------------------------------------------------
(* Properties.                                                              *)

Mark == [first : 0 .. maxWindow, last : 0 .. maxWindow, set : BOOLEAN]

\* Marks, sweeps and snapshots are about projects; ages stay within the window.
TypeOK ==
  /\ dirty \in [Projects -> Mark]
  /\ put \in [Puts -> Projects \cup {None}]
  /\ due \subseteq Projects
  /\ snap \in [p : Projects, held : BOOLEAN] \cup {Resting}
  /\ unsaved \subseteq Projects
  /\ forgotten \subseteq Projects
  /\ failures \in Nat /\ crashes \in Nat

\* Somebody still knows that p must be saved.
Remembered(p) == dirty[p].set \/ p \in due \/ \E h \in Puts : put[h] = p

\* A stored change is never forgotten by a race of MarkDirty with the sweep:
\* until a snapshot has read it, it is marked, due or about to be marked,
\* unless a snapshot or the Put failed or the server restarted meanwhile.
NoChangeForgotten ==
  \A p \in Projects : p \in unsaved => Remembered(p) \/ p \in forgotten

\* Even under uninterrupted writing, and while other projects are due, every
\* stored change is read by a snapshot, or its mark was lost to a failure.
ChangesAreSaved ==
  \A p \in Projects : p \in unsaved ~> p \notin unsaved \/ p \in forgotten
=============================================================================
