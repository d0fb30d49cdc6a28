------------------------------ MODULE DocSync ------------------------------
(***************************************************************************)
(* One text file: its Yjs document in the sidecar, the replicas in the     *)
(* browsers, and what Postgres keeps of it, the Yjs state and a mirror of  *)
(* the text.  A document is the set of updates it has received, which is   *)
(* all that merging depends on; a text is the set of updates it shows.     *)
(***************************************************************************)
EXTENDS Naturals, FiniteSets

CONSTANTS
  Tabs,           \* browser tabs that may open the file
  Readers,        \* those whose token is "ro"
  Edits,          \* edits, each made once
  MaxDrops,       \* bound: unloads of a document nothing was stored of
  MaxCrashes,     \* bound: restarts of the sidecar
  MaxFailures     \* bound: stores that fail

ASSUME DocSyncConstants ==
  /\ Readers \subseteq Tabs
  /\ MaxDrops \in Nat /\ MaxCrashes \in Nat /\ MaxFailures \in Nat

Sidecars == 0 .. MaxCrashes
Seeds    == {"seed"} \X Nat
Updates  == Seeds \cup ({"edit"} \X Edits)

\* What is loaded holds at least its seed: no document is the empty set.
NoDoc == {}
NoPut == [pc |-> "none", state |-> NoDoc]

VARIABLES
  row,      \* whether the file exists
  yjs,      \* yjs_state
  mirror,   \* file_contents; {} is the text the file was created with
  mem,      \* the document in the sidecar
  load,     \* how far onLoadDocument is
  pending,  \* whether the debounced store is scheduled
  put,      \* the PUT each incarnation of the sidecar has under way
  sidecar,  \* the incarnation that is running
  online,   \* tabs whose connection is up
  replica,  \* the Y.Doc of each tab; {} before the first sync
  typed,    \* edits made so far
  seeds,    \* documents seeded so far
  drops,    \* times a document nothing was ever stored of left the memory
  stray,    \* whether a PUT has outlived its sidecar
  failures

stored  == <<row, yjs, mirror>>
clients == <<online, replica, typed>>
history == <<seeds, drops, stray, failures>>
vars == <<stored, mem, load, pending, put, sidecar, clients, history>>

\* A file that has just been created, and that nobody has opened.
Init ==
  /\ row = TRUE /\ yjs = NoDoc /\ mirror = {}
  /\ mem = NoDoc /\ load = "no" /\ pending = FALSE
  /\ put = [g \in Sidecars |-> NoPut] /\ sidecar = 0
  /\ online = {} /\ replica = [t \in Tabs |-> {}]
  /\ typed = {} /\ seeds = 0 /\ drops = 0 /\ stray = FALSE
  /\ failures = 0


-----------------------------------------------------------------------------
(* Browsers.                                                                *)

\* The provider asks for a token, which takes the file, and reconnects for ever.
Connect(t) ==
  /\ t \notin online /\ row /\ mem # NoDoc
  /\ online' = online \cup {t}
  /\ UNCHANGED <<stored, mem, load, pending, put, sidecar, replica, typed, history>>

Disconnect(t) ==
  /\ t \in online
  /\ online' = online \ {t}
  /\ UNCHANGED <<stored, mem, load, pending, put, sidecar, replica, typed, history>>

\* The tab is closed or shows another file; with the next one it begins anew.
CloseTab(t) ==
  /\ replica[t] # {}
  /\ online' = online \ {t}
  /\ replica' = [replica EXCEPT ![t] = {}]
  /\ UNCHANGED <<stored, mem, load, pending, put, sidecar, typed, history>>

Receive(t) ==
  /\ t \in online
  /\ replica' = [replica EXCEPT ![t] = @ \cup mem]
  /\ UNCHANGED <<stored, mem, load, pending, put, sidecar, online, typed, history>>

\* The editor appears with the first sync and stays when the connection breaks.
Type(t, e) ==
  /\ t \notin Readers /\ replica[t] # {}
  /\ e \notin typed
  /\ typed' = typed \cup {e}
  /\ replica' = [replica EXCEPT ![t] = @ \cup {<<"edit", e>>}]
  /\ UNCHANGED <<stored, mem, load, pending, put, sidecar, online, history>>

\* Mutant: nothing schedules a store.
ChangedSilently(updates) ==
  /\ ~(updates \subseteq mem)
  /\ mem' = mem \cup updates
  /\ UNCHANGED pending

\* A change of the document schedules a store.
Changed(updates) ==
  /\ ~(updates \subseteq mem)
  /\ mem' = mem \cup updates
  /\ pending' = TRUE

\* Updates of a read-only connection are dropped.
Send(t) ==
  /\ t \in online /\ t \notin Readers
  /\ Changed(replica[t])
  /\ UNCHANGED <<stored, load, put, sidecar, clients, history>>

\* Edit and SetContent of the app, over a direct connection.
withDoc(e) ==
  /\ mem # NoDoc /\ e \notin typed
  /\ typed' = typed \cup {e}
  /\ Changed({<<"edit", e>>})
  /\ UNCHANGED <<stored, load, put, sidecar, online, replica, history>>

-----------------------------------------------------------------------------
(* Loading.                                                                 *)

\* A connection or a direct connection wants the document.
onLoadDocument ==
  /\ mem = NoDoc /\ load = "no"
  /\ load' = "state"
  /\ UNCHANGED <<stored, mem, pending, put, sidecar, clients, history>>

\* Mutant: the text is preferred to the state.
GetStateLast ==
  /\ load = "state"
  /\ load' = "content"
  /\ UNCHANGED <<stored, mem, pending, put, sidecar, clients, history>>

GetState ==
  /\ load = "state"
  /\ IF yjs # NoDoc THEN mem' = yjs /\ load' = "no"
                    ELSE load' = "content" /\ UNCHANGED mem
  /\ UNCHANGED <<stored, pending, put, sidecar, clients, history>>

\* Without a state the document is made from the text; each time it is another
\* insertion, by another Yjs client.  Loading is not a change to store.
GetContent ==
  /\ load = "content"
  /\ load' = "no"
  /\ IF row THEN /\ seeds' = seeds + 1
                 /\ mem' = {<<"seed", seeds + 1>>}
            ELSE UNCHANGED <<seeds, mem>>
  /\ UNCHANGED <<stored, pending, put, sidecar, clients, drops, stray, failures>>

-----------------------------------------------------------------------------
(* Storing.                                                                 *)

\* After the debounce, or at once when the last connection closes.  One store of
\* a document at a time.
onStoreDocument ==
  /\ mem # NoDoc /\ put[sidecar] = NoPut
  /\ pending \/ online = {}
  /\ put' = [put EXCEPT ![sidecar] = [pc |-> "state", state |-> mem]]
  /\ pending' = FALSE
  /\ UNCHANGED <<stored, mem, load, sidecar, clients, history>>

Goto(g, pc) == put' = [put EXCEPT ![g].pc = pc]
Over(g)     == put' = [put EXCEPT ![g] = NoPut]

UpsertYjsState(g) ==
  /\ put[g].pc = "state" /\ row
  /\ yjs' = put[g].state
  /\ Goto(g, "content")
  /\ UNCHANGED <<row, mirror, mem, load, pending, sidecar, clients, history>>

\* Mutant: the handler returns without writing the mirror.
PutWithoutMirror(g) ==
  /\ put[g].pc = "content" /\ row
  /\ Over(g)
  /\ UNCHANGED <<stored, mem, load, pending, sidecar, clients, history>>

UpsertFileContent(g) ==
  /\ put[g].pc = "content" /\ row
  /\ mirror' = put[g].state
  /\ Over(g)
  /\ UNCHANGED <<row, yjs, mem, load, pending, sidecar, clients, history>>

\* FileByID or a foreign key finds that the file is gone.
PutRefused(g) ==
  /\ put[g] # NoPut /\ ~row
  /\ Over(g)
  /\ UNCHANGED <<stored, mem, load, pending, sidecar, clients, history>>

\* Postgres or the app fails; the sidecar does not try again by itself.
PutFails(g) ==
  /\ put[g] # NoPut /\ failures < MaxFailures
  /\ failures' = failures + 1
  /\ Over(g)
  /\ UNCHANGED <<stored, mem, load, pending, sidecar, clients, seeds, drops, stray>>

\* The context of the request ends with the connection to the sidecar, which the
\* app may notice or not before it is done.
PutCancelled(g) ==
  /\ put[g] # NoPut /\ g # sidecar
  /\ Over(g)
  /\ UNCHANGED <<stored, mem, load, pending, sidecar, clients, history>>

\* A document leaves the memory; nothing may have been stored of it.
Dropped == drops' = IF mem # NoDoc /\ yjs = NoDoc THEN drops + 1 ELSE drops

\* Mutant: the store that is due or under way is not waited for.
UnloadAtOnce ==
  /\ mem # NoDoc /\ online = {}
  /\ yjs = NoDoc => drops < MaxDrops
  /\ mem' = NoDoc
  /\ Dropped
  /\ UNCHANGED <<stored, load, pending, put, sidecar, clients, seeds, stray, failures>>

\* The last connection has closed and the store, if any, is over.
Unload ==
  /\ mem # NoDoc /\ online = {} /\ ~pending /\ put[sidecar] = NoPut
  /\ yjs = NoDoc => drops < MaxDrops
  /\ mem' = NoDoc
  /\ Dropped
  /\ UNCHANGED <<stored, load, pending, put, sidecar, clients, seeds, stray, failures>>

\* The sidecar restarts: its documents and timers are gone, a PUT it has sent is not.
Crash ==
  /\ sidecar < MaxCrashes
  /\ sidecar' = sidecar + 1
  /\ mem' = NoDoc /\ load' = "no" /\ pending' = FALSE
  /\ Dropped
  /\ stray' = (stray \/ put[sidecar] # NoPut)
  /\ online' = {}
  /\ UNCHANGED <<stored, put, replica, typed, seeds, failures>>

\* The rows that refer to the file go with it; documents in memory stay.
DeleteFile ==
  /\ row
  /\ row' = FALSE /\ yjs' = NoDoc /\ mirror' = {}
  /\ UNCHANGED <<mem, load, pending, put, sidecar, clients, history>>

Next ==
  \/ \E t \in Tabs : \/ Connect(t) \/ Disconnect(t) \/ CloseTab(t)
                     \/ Receive(t) \/ Send(t)
                     \/ \E e \in Edits : Type(t, e)
  \/ \E e \in Edits : withDoc(e)
  \/ onLoadDocument \/ GetState \/ GetContent \/ onStoreDocument
  \/ \E g \in Sidecars : UpsertYjsState(g) \/ UpsertFileContent(g) \/ PutRefused(g)
                             \/ PutFails(g) \/ PutCancelled(g)
  \/ Unload \/ Crash \/ DeleteFile

Spec == Init /\ [][Next]_vars

\* Loads and stores run and end.  However often connections break and documents
\* come and go, a tab that has a replica is connected again, since a document is
\* loaded for the connection that asks for it, and some connection lasts long
\* enough to send what the tab has.
Fairness ==
  /\ \A t \in Tabs : SF_vars(Connect(t) /\ replica[t] # {}) /\ SF_vars(Send(t))
  /\ WF_vars(onLoadDocument) /\ WF_vars(GetState) /\ WF_vars(GetContent)
  /\ WF_vars(onStoreDocument)
  /\ \A g \in Sidecars : WF_vars(UpsertYjsState(g)) /\ WF_vars(UpsertFileContent(g))

FairSpec == Spec /\ Fairness

-----------------------------------------------------------------------------
(* Properties.                                                              *)

\* Documents are sets of updates, PUTs carry one, only a document in memory has
\* connections, timers and a store.
TypeOK ==
  /\ row \in BOOLEAN
  /\ yjs \subseteq Updates /\ mirror \subseteq Updates /\ mem \subseteq Updates
  /\ load \in {"no", "state", "content"} /\ pending \in BOOLEAN
  /\ put \in [Sidecars -> [pc : {"none", "state", "content"}, state : SUBSET Updates]]
  /\ sidecar \in Sidecars
  /\ online \subseteq Tabs
  /\ replica \in [Tabs -> SUBSET Updates]
  /\ typed \subseteq Edits
  /\ seeds \in Nat /\ drops \in Nat /\ stray \in BOOLEAN
  /\ failures \in Nat
  /\ load # "no" => mem = NoDoc
  /\ mem = NoDoc => online = {} /\ ~pending /\ put[sidecar] = NoPut

SeedsIn(doc) == doc \cap Seeds

Documents == {mem, yjs, mirror} \cup {replica[t] : t \in Tabs}

\* Nobody ever sees the initial text twice, and it is stored once, as long as no
\* document has left the memory before its first store: what two loads of the
\* file seed does not merge.
ContentOnce ==
  drops = 0 => \A doc \in Documents : Cardinality(SeedsIn(doc)) <= 1

\* What has been stored stays stored, however stores, loads, restarts and
\* reconnecting tabs follow each other, unless a PUT outlives its sidecar.
StoredUpdatesStay ==
  [][row' /\ ~stray' => yjs \subseteq yjs']_vars

\* Between two stores that succeed the mirror, which search, export, copies and
\* snapshots fall back on, shows exactly the stored document.
MirrorFollowsState ==
  row /\ yjs # NoDoc /\ failures = 0 /\ ~stray /\ (\A g \in Sidecars : put[g].pc # "content")
    => mirror = yjs

\* What a writer has typed is stored while the tab stays open, across broken
\* connections and restarts of the sidecar, unless a store fails or a PUT outlives
\* its sidecar and puts an older state back.
EditsAreStored ==
  \A t \in Tabs \ Readers, e \in Edits :
    <<"edit", e>> \in replica[t]
      ~> (<<"edit", e>> \in yjs \/ replica[t] = {} \/ ~row \/ failures > 0 \/ stray)
=============================================================================
