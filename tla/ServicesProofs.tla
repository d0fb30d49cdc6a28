--------------------------- MODULE ServicesProofs ---------------------------
(***************************************************************************)
(* The parts of the server and of the editor that share no state, for any  *)
(* numbers of writers, jobs, tabs, handlers and administrators.            *)
(***************************************************************************)
EXTENDS BlobStore, Compiler, Events, Settings, SuggestMode, RateLimiter, FiniteSetTheorems, TLAPS

-----------------------------------------------------------------------------
(***************************************************************************)
(* What is found under the final name is whole, for any number of writers, *)
(* crashes and inodes, as long as no two writers have shared the temporary *)
(* file.  Until then there is one writer at most, and it writes to the     *)
(* inode the temporary name stands for, which is not the final one.        *)
(***************************************************************************)
Active(w) == writer[w].step \in {"write", "rename"}

BlobTypeOK ==
  /\ lastInode \in Nat /\ shared \in BOOLEAN
  /\ final \in 0 .. lastInode /\ temporary \in 0 .. lastInode
  /\ writer \in [Putters -> [step : {"idle", "open", "write", "rename"}, inode : Nat]]

\* A writer has the temporary file open, and it alone; what it is about to rename is whole.
OneWriter ==
  /\ \A w \in Putters : Active(w) => /\ writer[w].inode = temporary /\ temporary # 0
                                     /\ writer[w].step = "rename" => temporary \in whole
  /\ \A v, w \in Putters : Active(v) /\ Active(w) => v = w

FinalWhole == final # 0 => final \in whole /\ final # temporary

BlobInv == BlobTypeOK /\ (~shared => OneWriter /\ FinalWhole)

LEMMA BlobStart == BlobInit => BlobInv
<1> SUFFICES ASSUME BlobInit PROVE BlobInv
  OBVIOUS
<1>1. BlobTypeOK
  <2>1. NotWriting \in [step : {"idle", "open", "write", "rename"}, inode : Nat]
    BY DEF NotWriting
  <2>2. writer = [w \in Putters |-> NotWriting]
    BY DEF BlobInit
  <2>. HIDE DEF NotWriting
  <2>3. writer \in [Putters -> [step : {"idle", "open", "write", "rename"}, inode : Nat]]
    BY <2>1, <2>2, Zenon
  <2>4. lastInode \in Nat /\ final \in 0 .. lastInode /\ temporary \in 0 .. lastInode
    BY DEF BlobInit
  <2>5. shared \in BOOLEAN
    BY DEF BlobInit
  <2> QED
    BY <2>3, <2>4, <2>5 DEF BlobTypeOK
<1>2. OneWriter /\ FinalWhole
  BY DEF BlobInit, OneWriter, FinalWhole, Active, NotWriting
<1> QED
  BY <1>1, <1>2 DEF BlobInv

\* One step per action; all but OpenTemporary and Rename leave the two names alone.
LEMMA BlobStep == BlobInv /\ [BlobNext]_blobVars => BlobInv'
<1> SUFFICES ASSUME BlobInv, [BlobNext]_blobVars PROVE BlobInv'
  OBVIOUS
<1> USE DEF BlobInv, BlobTypeOK, OneWriter, FinalWhole, Active, NotWriting
<1>1. CASE UNCHANGED blobVars
  BY <1>1 DEF blobVars
<1>2. ASSUME NEW w \in Putters, Put(w) PROVE BlobInv'
  BY <1>2 DEF Put
<1>3. ASSUME NEW w \in Putters, OpenTemporary(w) PROVE BlobInv'
  <2>1. BlobTypeOK' /\ temporary' # 0
    BY <1>3 DEF OpenTemporary
  <2>2. CASE shared'
    BY <2>1, <2>2
  <2>3. CASE ~shared'
    <3>1. ~shared /\ Writing(temporary') = {}
      BY <1>3, <2>3 DEF OpenTemporary
    <3>2. \A v \in Putters : ~Active(v)
      BY <1>3, <3>1 DEF OpenTemporary, Writing
    <3>3. OneWriter'
      BY <1>3, <2>1, <3>2 DEF OpenTemporary
    <3>4. FinalWhole'
      BY <1>3, <3>1 DEF OpenTemporary
    <3> QED
      BY <2>1, <3>3, <3>4
  <2> QED
    BY <2>2, <2>3
<1>4. ASSUME NEW w \in Putters, WriteFile(w) PROVE BlobInv'
  BY <1>4 DEF WriteFile
<1>5. ASSUME NEW w \in Putters, Rename(w) PROVE BlobInv'
  BY <1>5 DEF Rename
<1>6. ASSUME Crash PROVE BlobInv'
  BY <1>6 DEF Crash
<1> QED
  BY <1>1, <1>2, <1>3, <1>4, <1>5, <1>6 DEF BlobNext

\* Readers of a blob find all of its bytes, also after a crash or an error in the middle of
\* a Put, unless two writers have shared the temporary file (blob.go:30).
THEOREM WholeUnlessSharedAlways == BlobSpec => []WholeUnlessShared
<1>1. BlobInv => WholeUnlessShared
  BY DEF BlobInv, FinalWhole, WholeUnlessShared
<1> QED
  BY BlobStart, BlobStep, <1>1, PTL DEF BlobSpec

-----------------------------------------------------------------------------
(***************************************************************************)
(* The slots of the compiler, for any number of requests and of slots.     *)
(***************************************************************************)
\* Requests between the acquisition of a slot and its release.
Inside == {j \in Jobs : job[j] \notin {"idle", "materialize", "waiting"}}

CompilerTypeOK ==
  /\ job \in [Jobs -> Steps] /\ sem \in Nat
  /\ dirs \subseteq Inside /\ IsFiniteSet(Inside)

\* The tokens in the channel are those of the requests inside, never more than it holds.
SlotsCounted == sem = Cardinality(Inside) /\ sem <= Slots

CompilerInv == CompilerTypeOK /\ SlotsCounted

\* What a request that moves does to the set of those inside.
LEMMA Moves ==
  ASSUME job \in [Jobs -> Steps], NEW j \in Jobs, NEW step \in Steps, Goto(j, step)
  PROVE  /\ job' \in [Jobs -> Steps]
         /\ Inside' = IF step \in {"idle", "materialize", "waiting"} THEN Inside \ {j}
                      ELSE Inside \cup {j}
BY DEF Goto, Inside

LEMMA CompilerStart == CompilerInit => CompilerInv
<1> SUFFICES ASSUME CompilerInit PROVE CompilerInv
  OBVIOUS
<1>1. Inside = {}
  BY DEF CompilerInit, Inside
<1> QED
  BY <1>1, FS_EmptySet, CompilerConstants
  DEF CompilerInit, CompilerInv, CompilerTypeOK, SlotsCounted, Steps

\* A step that neither takes nor gives back a slot.
LEMMA Neither ==
  ASSUME CompilerInv, NEW j \in Jobs, NEW step \in Steps, Goto(j, step),
         (j \in Inside) = (step \notin {"idle", "materialize", "waiting"}),
         sem' = sem, dirs' \in {dirs, dirs \cup {j}},
         dirs' = dirs \/ j \in Inside
  PROVE  CompilerInv'
<1>1. Inside' = Inside /\ job' \in [Jobs -> Steps]
  BY Moves DEF CompilerInv, CompilerTypeOK
<1> QED
  BY <1>1 DEF CompilerInv, CompilerTypeOK, SlotsCounted

LEMMA CompilerStep == CompilerInv /\ [CompilerNext]_compilerVars => CompilerInv'
<1> SUFFICES ASSUME CompilerInv, [CompilerNext]_compilerVars PROVE CompilerInv'
  OBVIOUS
<1>1. CASE UNCHANGED compilerVars
  BY <1>1 DEF compilerVars, CompilerInv, CompilerTypeOK, SlotsCounted, Inside
<1>2. ASSUME NEW j \in Jobs, handleCompile(j) PROVE CompilerInv'
  BY <1>2, Neither DEF handleCompile, Inside, Steps
<1>3. ASSUME NEW j \in Jobs, materialize(j) PROVE CompilerInv'
  BY <1>3, Neither DEF materialize, Inside, Steps
<1>4. ASSUME NEW j \in Jobs, ClientLeaves(j) PROVE CompilerInv'
  BY <1>4 DEF ClientLeaves, CompilerInv, CompilerTypeOK, SlotsCounted, Inside
<1>5. ASSUME NEW j \in Jobs, Acquire(j) PROVE CompilerInv'
  <2>1. j \notin Inside /\ Inside' = Inside \cup {j} /\ job' \in [Jobs -> Steps]
    BY <1>5, Moves DEF Acquire, CompilerInv, CompilerTypeOK, Inside, Steps
  <2>2. IsFiniteSet(Inside') /\ Cardinality(Inside') = Cardinality(Inside) + 1
    BY <2>1, FS_AddElement DEF CompilerInv, CompilerTypeOK
  <2> QED
    BY <1>5, <2>1, <2>2, CompilerConstants
    DEF Acquire, CompilerInv, CompilerTypeOK, SlotsCounted
<1>6. ASSUME NEW j \in Jobs, GiveUp(j) PROVE CompilerInv'
  BY <1>6, Neither DEF GiveUp, Inside, Steps
<1>7. ASSUME NEW j \in Jobs, MkdirTemp(j) PROVE CompilerInv'
  BY <1>7, Neither DEF MkdirTemp, Inside, Steps
<1>8. ASSUME NEW j \in Jobs, WriteFiles(j) PROVE CompilerInv'
  BY <1>8, Neither DEF WriteFiles, Inside, Steps
<1>9. ASSUME NEW j \in Jobs, TypstEnds(j) \/ Kill(j) \/ WaitDelay(j) PROVE CompilerInv'
  BY <1>9, Neither DEF TypstEnds, Kill, WaitDelay, Inside, Steps
<1>10. ASSUME NEW j \in Jobs, RemoveAll(j) PROVE CompilerInv'
  BY <1>10 DEF RemoveAll, CompilerInv, CompilerTypeOK, SlotsCounted, Inside
<1>11. ASSUME NEW j \in Jobs, Release(j) PROVE CompilerInv'
  <2>1. j \in Inside /\ Inside' = Inside \ {j} /\ job' \in [Jobs -> Steps]
    BY <1>11, Moves DEF Release, CompilerInv, CompilerTypeOK, Inside, Steps
  <2>2. IsFiniteSet(Inside') /\ Cardinality(Inside') = Cardinality(Inside) - 1
    BY <2>1, FS_RemoveElement DEF CompilerInv, CompilerTypeOK
  <2>3. Cardinality(Inside') \in Nat
    BY <2>2, FS_CardinalityType
  <2> QED
    BY <1>11, <2>1, <2>2, <2>3, CompilerConstants
    DEF Release, CompilerInv, CompilerTypeOK, SlotsCounted
<1> QED
  BY <1>1, <1>2, <1>3, <1>4, <1>5, <1>6, <1>7, <1>8, <1>9, <1>10, <1>11 DEF CompilerNext

\* compile.go:98: whatever fails in a job, the tokens in the channel are those of the jobs
\* that run, there are never more than the channel holds, and a directory belongs to a job
\* that runs.
THEOREM SlotsCountedAlways == CompilerSpec => [](SlotsCounted /\ dirs \subseteq Inside)
<1>1. CompilerInv => SlotsCounted /\ dirs \subseteq Inside
  BY DEF CompilerInv, CompilerTypeOK
<1> QED
  BY CompilerStart, CompilerStep, <1>1, PTL DEF CompilerSpec

-----------------------------------------------------------------------------
(***************************************************************************)
(* A tab that has missed nothing shows the lists as they are, for any      *)
(* number of tabs, lists, handlers and events, and channels of any length. *)
(* Until a change has reached a list it is somewhere on the way: with the  *)
(* handler, in the channel, or in a request not yet answered.              *)
(***************************************************************************)
Fetch == [step : {"none", "asked", "read"}, read : Nat]

EventsTypeOK ==
  /\ version \in [Topics -> Nat]
  /\ unpublished \in [Handlers -> SUBSET Topics]
  /\ subscribed \subseteq Tabs /\ channel \in [Tabs -> Seq(Topics)]
  /\ lists \in [Tabs -> [Topics -> Nat]]
  /\ fetches \in [Tabs -> [Topics -> Fetch]]
  /\ missed \in [Tabs -> SUBSET Topics]

\* A handler has one change to publish at most.
OneChange ==
  \A h \in Handlers : \A p, q \in unpublished[h] : p = q

\* The change is on its way to the list.
Coming(t, p) ==
  \/ \E h \in Handlers : p \in unpublished[h]
  \/ p \in ToSet(channel[t])
  \/ fetches[t][p] = Asked

UpToDate(t, p) ==
  /\ fetches[t][p].step = "read" => fetches[t][p].read = version[p]
  /\ fetches[t][p] = NoFetch /\ lists[t][p] # 0 => lists[t][p] = version[p]

Told == \A t \in Tabs, p \in Topics : p \in missed[t] \/ Coming(t, p) \/ UpToDate(t, p)

EventsInv == EventsTypeOK /\ OneChange /\ Told

LEMMA Appended ==
  ASSUME NEW S, NEW s \in Seq(S), NEW p \in S
  PROVE  Append(s, p) \in Seq(S) /\ ToSet(Append(s, p)) = ToSet(s) \cup {p}
<1>1. /\ Append(s, p) \in Seq(S) /\ Len(s) \in Nat /\ Len(Append(s, p)) = Len(s) + 1
      /\ DOMAIN s = 1 .. Len(s) /\ DOMAIN Append(s, p) = 1 .. Len(s) + 1
  OBVIOUS
<1>2. Append(s, p)[Len(s) + 1] = p /\ \A i \in 1 .. Len(s) : Append(s, p)[i] = s[i]
  OBVIOUS
<1>3. 1 .. Len(s) + 1 = (1 .. Len(s)) \cup {Len(s) + 1}
  BY <1>1
<1> QED
  BY <1>1, <1>2, <1>3 DEF ToSet

LEMMA Shortened ==
  ASSUME NEW S, NEW s \in Seq(S), s # <<>>
  PROVE  /\ Tail(s) \in Seq(S) /\ Head(s) \in S
         /\ ToSet(s) = ToSet(Tail(s)) \cup {Head(s)}
<1>1. /\ Tail(s) \in Seq(S) /\ Head(s) \in S /\ Head(s) = s[1]
      /\ Len(s) \in Nat \ {0} /\ Len(Tail(s)) = Len(s) - 1
      /\ DOMAIN s = 1 .. Len(s) /\ DOMAIN Tail(s) = 1 .. Len(s) - 1
  OBVIOUS
<1>2. \A i \in 1 .. Len(s) - 1 : Tail(s)[i] = s[i + 1]
  BY <1>1
<1>3. \A i \in 1 .. Len(s) - 1 : i + 1 \in 1 .. Len(s)
  BY <1>1
<1>4. \A i \in 1 .. Len(s) : i = 1 \/ (i - 1 \in 1 .. Len(s) - 1 /\ (i - 1) + 1 = i)
  BY <1>1
<1>5. ASSUME NEW i \in 1 .. Len(s) - 1 PROVE Tail(s)[i] \in ToSet(s)
  BY <1>1, <1>2, <1>3 DEF ToSet
<1>6. ASSUME NEW i \in 1 .. Len(s) PROVE s[i] \in ToSet(Tail(s)) \cup {Head(s)}
  <2>1. CASE i = 1
    BY <1>1, <2>1
  <2>2. CASE i # 1
    <3>1. i - 1 \in DOMAIN Tail(s) /\ Tail(s)[i - 1] = s[i]
      BY <1>1, <1>2, <1>4, <2>2
    <3> QED
      BY <3>1 DEF ToSet
  <2> QED
    BY <2>1, <2>2
<1> QED
  <2>1. \A q \in ToSet(Tail(s)) : \E i \in 1 .. Len(s) - 1 : q = Tail(s)[i]
    BY <1>1 DEF ToSet
  <2>2. \A q \in ToSet(s) : \E i \in 1 .. Len(s) : q = s[i]
    BY <1>1 DEF ToSet
  <2>3. Head(s) \in ToSet(s)
    BY <1>1 DEF ToSet
  <2> QED
    BY <1>1, <1>5, <1>6, <2>1, <2>2, <2>3

LEMMA EventsStart == EventsInit => EventsInv
<1> SUFFICES ASSUME EventsInit PROVE EventsInv
  OBVIOUS
<1>1. EventsTypeOK
  <2>1. NoFetch \in Fetch
    BY DEF NoFetch, Fetch
  <2> QED
    BY <2>1 DEF EventsInit, EventsTypeOK
<1>2. OneChange
  BY DEF EventsInit, OneChange
<1>3. Told
  BY DEF EventsInit, Told, UpToDate, NoFetch
<1> QED
  BY <1>1, <1>2, <1>3 DEF EventsInv

\* One step per action.  Only what touches a list, its fetch or its channel can disturb Told.
LEMMA EventsStep == EventsInv /\ [EventsNext]_eventsVars => EventsInv'
<1> SUFFICES ASSUME EventsInv, [EventsNext]_eventsVars PROVE EventsInv'
  OBVIOUS
<1> USE DEF EventsInv
<1>a. NoFetch \in Fetch /\ Asked \in Fetch /\ NoFetch # Asked
      /\ NoFetch.step = "none" /\ Asked.step = "asked"
  BY DEF NoFetch, Asked, Fetch
<1>1. CASE UNCHANGED eventsVars
  BY <1>1 DEF eventsVars, EventsTypeOK, OneChange, Told, Coming, UpToDate
<1>2. ASSUME NEW h \in Handlers, NEW p \in Topics, Write(h, p) PROVE EventsInv'
  <2>1. EventsTypeOK' /\ OneChange'
    BY <1>2 DEF Write, EventsTypeOK, OneChange
  <2>2. ASSUME NEW t \in Tabs, NEW q \in Topics
        PROVE  (q \in missed[t] \/ Coming(t, q) \/ UpToDate(t, q))'
    <3>1. CASE q = p
      <4>1. p \in unpublished'[h]
        BY <1>2 DEF Write, EventsTypeOK
      <4> QED
        BY <3>1, <4>1 DEF Coming
    <3>2. CASE q # p
      <4>1. /\ version'[q] = version[q] /\ \A g \in Handlers : unpublished[g] \subseteq unpublished'[g]
        BY <1>2, <3>2 DEF Write, EventsTypeOK
      <4> QED
        BY <1>2, <4>1 DEF Write, Told, Coming, UpToDate
    <3> QED
      BY <3>1, <3>2
  <2> QED
    BY <2>1, <2>2 DEF Told
<1>3. ASSUME NEW h \in Handlers, NEW p \in Topics, Publish(h, p) PROVE EventsInv'
  <2>1. \A t \in Tabs : /\ channel'[t] \in {channel[t], Append(channel[t], p)}
                        /\ missed'[t] = IF p \in ToSet(channel'[t]) THEN missed[t]
                                        ELSE missed[t] \cup {p}
    BY <1>3 DEF Publish
  <2>2. ASSUME NEW t \in Tabs
        PROVE  channel'[t] \in Seq(Topics) /\ ToSet(channel[t]) \subseteq ToSet(channel'[t])
    <3>1. channel[t] \in Seq(Topics)
      BY DEF EventsTypeOK
    <3>2. /\ Append(channel[t], p) \in Seq(Topics)
          /\ ToSet(Append(channel[t], p)) = ToSet(channel[t]) \cup {p}
      BY <3>1, Appended
    <3> QED
      BY <2>1, <3>1, <3>2
  <2>3. EventsTypeOK' /\ OneChange'
    <3>1. channel' \in [Tabs -> Seq(Topics)] /\ missed' \in [Tabs -> SUBSET Topics]
      BY <1>3, <2>1, <2>2 DEF Publish, EventsTypeOK
    <3> QED
      BY <1>3, <3>1 DEF Publish, EventsTypeOK, OneChange
  <2>4. ASSUME NEW t \in Tabs, NEW q \in Topics
        PROVE  (q \in missed[t] \/ Coming(t, q) \/ UpToDate(t, q))'
    <3>1. CASE q = p
      BY <2>1, <3>1 DEF Coming, EventsTypeOK
    <3>2. CASE q # p
      <4>1. \A g \in Handlers : q \in unpublished[g] => q \in unpublished'[g]
        BY <1>3, <3>2 DEF Publish, EventsTypeOK, OneChange
      <4>2. missed[t] \subseteq missed'[t]
        BY <2>1
      <4> QED
        BY <1>3, <2>2, <4>1, <4>2 DEF Publish, Told, Coming, UpToDate
    <3> QED
      BY <3>1, <3>2
  <2> QED
    BY <2>3, <2>4 DEF Told
<1>4. ASSUME ServerRestart PROVE EventsInv'
  <2>1. EventsTypeOK' /\ OneChange'
    <3>1. \A t \in Tabs : ToSet(channel[t]) \subseteq Topics
      BY DEF EventsTypeOK, ToSet
    <3>2. UNION {unpublished[h] : h \in Handlers} \subseteq Topics
      BY DEF EventsTypeOK
    <3>3. missed' \in [Tabs -> SUBSET Topics]
      BY <1>4, <3>1, <3>2 DEF ServerRestart, EventsTypeOK
    <3>4. channel' \in [Tabs -> Seq(Topics)] /\ unpublished' \in [Handlers -> SUBSET Topics]
      BY <1>4 DEF ServerRestart
    <3> QED
      BY <1>4, <3>3, <3>4 DEF ServerRestart, EventsTypeOK, OneChange
  <2>2. ASSUME NEW t \in Tabs, NEW q \in Topics
        PROVE  (q \in missed[t] \/ Coming(t, q) \/ UpToDate(t, q))'
    <3>1. /\ missed[t] \cup ToSet(channel[t]) \subseteq missed'[t]
          /\ \A h \in Handlers : unpublished[h] \subseteq missed'[t]
      BY <1>4 DEF ServerRestart
    <3> QED
      BY <1>4, <3>1 DEF ServerRestart, Told, Coming, UpToDate
  <2> QED
    BY <2>1, <2>2 DEF Told
<1>5. ASSUME NEW u \in Tabs, subscribe(u) PROVE EventsInv'
  BY <1>5 DEF subscribe, EventsTypeOK, OneChange, Told, Coming, UpToDate
<1>6. ASSUME NEW u \in Tabs, unsubscribe(u) PROVE EventsInv'
  <2>1. EventsTypeOK' /\ OneChange'
    <3>1. ToSet(channel[u]) \subseteq Topics
      BY DEF EventsTypeOK, ToSet
    <3> QED
      BY <1>6, <3>1 DEF unsubscribe, EventsTypeOK, OneChange
  <2>2. ASSUME NEW t \in Tabs, NEW q \in Topics
        PROVE  (q \in missed[t] \/ Coming(t, q) \/ UpToDate(t, q))'
    <3>1. /\ missed[t] \subseteq missed'[t]
          /\ channel'[t] = channel[t] \/ ToSet(channel[t]) \subseteq missed'[t]
      BY <1>6 DEF unsubscribe, EventsTypeOK
    <3> QED
      BY <1>6, <3>1 DEF unsubscribe, Told, Coming, UpToDate
  <2> QED
    BY <2>1, <2>2 DEF Told
<1>7. ASSUME NEW u \in Tabs, Open(u) PROVE EventsInv'
  <2>1. fetches' \in [Tabs -> [Topics -> Fetch]]
    BY <1>7, <1>a DEF Open, EventsTypeOK
  <2>2. EventsTypeOK' /\ OneChange'
    BY <1>7, <2>1 DEF Open, EventsTypeOK, OneChange
  <2>3. ASSUME NEW t \in Tabs, NEW q \in Topics
        PROVE  (q \in missed[t] \/ Coming(t, q) \/ UpToDate(t, q))'
    <3>1. fetches'[t][q] = Asked \/ fetches'[t][q] = fetches[t][q]
      BY <1>7 DEF Open, EventsTypeOK
    <3> QED
      BY <1>7, <3>1 DEF Open, Told, Coming, UpToDate
  <2> QED
    BY <2>2, <2>3 DEF Told
<1>8. ASSUME NEW u \in Tabs, onmessage(u) PROVE EventsInv'
  <2> DEFINE p == Head(channel[u])
  <2>1. /\ p \in Topics /\ Tail(channel[u]) \in Seq(Topics)
        /\ ToSet(channel[u]) = ToSet(Tail(channel[u])) \cup {p}
    BY <1>8, Shortened DEF onmessage, EventsTypeOK
  <2>2. /\ channel' = [channel EXCEPT ![u] = Tail(@)]
        /\ UNCHANGED <<version, unpublished, subscribed, lists>>
        /\ \/ /\ missed' = [missed EXCEPT ![u] = @ \cup {p}]
              /\ UNCHANGED fetches
           \/ /\ fetches' = [fetches EXCEPT ![u] = [fetches[u] EXCEPT ![p] = Asked]]
              /\ UNCHANGED missed
    BY <1>8 DEF onmessage
  <2> HIDE DEF p
  <2>3. EventsTypeOK' /\ OneChange'
    <3>1. channel' \in [Tabs -> Seq(Topics)]
      BY <2>1, <2>2 DEF EventsTypeOK
    <3>2. missed' \in [Tabs -> SUBSET Topics]
      <4>1. missed \in [Tabs -> SUBSET Topics] /\ missed[u] \cup {p} \in SUBSET Topics
        BY <2>1 DEF EventsTypeOK
      <4>2. missed' = [missed EXCEPT ![u] = missed[u] \cup {p}] \/ missed' = missed
        BY <2>2
      <4> QED
        BY <4>1, <4>2
    <3>3. fetches' \in [Tabs -> [Topics -> Fetch]]
      <4>1. /\ fetches \in [Tabs -> [Topics -> Fetch]]
            /\ [fetches[u] EXCEPT ![p] = Asked] \in [Topics -> Fetch]
        BY <1>a, <2>1 DEF EventsTypeOK
      <4>2. \/ fetches' = [fetches EXCEPT ![u] = [fetches[u] EXCEPT ![p] = Asked]]
            \/ fetches' = fetches
        BY <2>2
      <4> QED
        BY <4>1, <4>2
    <3> QED
      BY <2>2, <3>1, <3>2, <3>3 DEF EventsTypeOK, OneChange
  <2>4. ASSUME NEW t \in Tabs, NEW q \in Topics
        PROVE  (q \in missed[t] \/ Coming(t, q) \/ UpToDate(t, q))'
    <3>1. CASE t # u
      BY <2>2, <3>1 DEF Told, Coming, UpToDate, EventsTypeOK
    <3>2. CASE t = u /\ q = p
      BY <2>1, <2>2, <3>2 DEF Coming, EventsTypeOK
    <3>3. CASE t = u /\ q # p
      <4>1. /\ q \in ToSet(channel[t]) => q \in ToSet(channel'[t])
            /\ fetches'[t][q] = fetches[t][q] /\ missed[t] \subseteq missed'[t]
        BY <2>1, <2>2, <3>3 DEF EventsTypeOK
      <4> QED
        BY <2>2, <4>1 DEF Told, Coming, UpToDate
    <3> QED
      BY <3>1, <3>2, <3>3
  <2> QED
    BY <2>3, <2>4 DEF Told
<1>9. ASSUME NEW u \in Tabs, NEW p \in Topics, Read(u, p) PROVE EventsInv'
  <2> DEFINE answer == [step |-> "read", read |-> version[p]]
  <2>1. answer \in Fetch /\ answer.step = "read" /\ answer.read = version[p] /\ answer # NoFetch
    BY DEF Fetch, EventsTypeOK, NoFetch
  <2>2. /\ fetches' = [fetches EXCEPT ![u] = [fetches[u] EXCEPT ![p] = answer]]
        /\ missed' = [missed EXCEPT ![u] = @ \ {p}]
        /\ UNCHANGED <<version, unpublished, subscribed, channel, lists>>
    BY <1>9 DEF Read
  <2> HIDE DEF answer
  <2>3. EventsTypeOK' /\ OneChange'
    BY <2>1, <2>2 DEF EventsTypeOK, OneChange
  <2>4. ASSUME NEW t \in Tabs, NEW q \in Topics
        PROVE  (q \in missed[t] \/ Coming(t, q) \/ UpToDate(t, q))'
    <3>1. CASE t = u /\ q = p
      BY <2>1, <2>2, <3>1 DEF UpToDate, EventsTypeOK
    <3>2. CASE ~(t = u /\ q = p)
      <4>1. fetches'[t][q] = fetches[t][q] /\ (q \in missed[t] => q \in missed'[t])
        BY <2>2, <3>2 DEF EventsTypeOK
      <4> QED
        BY <2>2, <4>1 DEF Told, Coming, UpToDate
    <3> QED
      BY <3>1, <3>2
  <2> QED
    BY <2>3, <2>4 DEF Told
<1>10. ASSUME NEW u \in Tabs, NEW p \in Topics, Loaded(u, p) PROVE EventsInv'
  <2>1. fetches[u][p].step = "read" /\ fetches[u][p] \in Fetch /\ fetches[u][p].read \in Nat
    BY <1>10 DEF Loaded, EventsTypeOK, Fetch
  <2>2. /\ fetches' = [fetches EXCEPT ![u] = [fetches[u] EXCEPT ![p] = NoFetch]]
        /\ lists' = [lists EXCEPT ![u] = [lists[u] EXCEPT ![p] = fetches[u][p].read]]
        /\ UNCHANGED <<version, unpublished, subscribed, channel, missed>>
    BY <1>10 DEF Loaded
  <2>3. EventsTypeOK' /\ OneChange'
    BY <1>a, <2>1, <2>2 DEF EventsTypeOK, OneChange
  <2>4. ASSUME NEW t \in Tabs, NEW q \in Topics
        PROVE  (q \in missed[t] \/ Coming(t, q) \/ UpToDate(t, q))'
    <3>1. CASE t = u /\ q = p
      <4>1. fetches'[t][q] = NoFetch /\ lists'[t][q] = fetches[u][p].read
        BY <2>2, <3>1 DEF EventsTypeOK
      <4> QED
        BY <1>a, <2>1, <2>2, <3>1, <4>1 DEF Told, Coming, UpToDate
    <3>2. CASE ~(t = u /\ q = p)
      <4>1. fetches'[t][q] = fetches[t][q] /\ lists'[t][q] = lists[t][q]
        BY <2>2, <3>2 DEF EventsTypeOK
      <4> QED
        BY <2>2, <4>1 DEF Told, Coming, UpToDate
    <3> QED
      BY <3>1, <3>2
  <2> QED
    BY <2>3, <2>4 DEF Told
<1>11. ASSUME NEW u \in Tabs, NEW p \in Topics, LoadFails(u, p) PROVE EventsInv'
  <2>1. /\ fetches' = [fetches EXCEPT ![u] = [fetches[u] EXCEPT ![p] = NoFetch]]
        /\ missed' = [missed EXCEPT ![u] = @ \cup {p}]
        /\ UNCHANGED <<version, unpublished, subscribed, channel, lists>>
    BY <1>11 DEF LoadFails
  <2>2. EventsTypeOK' /\ OneChange'
    BY <1>a, <2>1 DEF EventsTypeOK, OneChange
  <2>3. ASSUME NEW t \in Tabs, NEW q \in Topics
        PROVE  (q \in missed[t] \/ Coming(t, q) \/ UpToDate(t, q))'
    <3>1. CASE t = u /\ q = p
      BY <2>1, <3>1 DEF EventsTypeOK
    <3>2. CASE ~(t = u /\ q = p)
      <4>1. fetches'[t][q] = fetches[t][q] /\ missed[t] \subseteq missed'[t]
        BY <2>1, <3>2 DEF EventsTypeOK
      <4> QED
        BY <2>1, <4>1 DEF Told, Coming, UpToDate
    <3> QED
      BY <3>1, <3>2
  <2> QED
    BY <2>2, <2>3 DEF Told
<1> QED
  BY <1>1, <1>2, <1>3, <1>4, <1>5, <1>6, <1>7, <1>8, <1>9, <1>10, <1>11 DEF EventsNext

\* sse.go:36: a list at rest is the one in the database, unless its last change was published
\* while the stream was down or full, came during the first load, or could not be loaded.
THEOREM ListsRefetchedAlways == EventsSpec => []ListsRefetched
<1>1. EventsInv => ListsRefetched
  BY DEF EventsInv, Told, Coming, UpToDate, ListsRefetched, Settled, NoFetch, Asked
<1> QED
  BY EventsStart, EventsStep, <1>1, PTL DEF EventsSpec

-----------------------------------------------------------------------------
(***************************************************************************)
(* Cache and rows, provider and settings, for any number of writers,       *)
(* forms, values and restarts.  The provider is as configured, or somebody *)
(* is still busy who will rebuild it or note that nobody did: a request    *)
(* rebuilds when the fields differ from those it began with, and when      *)
(* others have changed them meanwhile, nothing is promised.                *)
(***************************************************************************)
Fields == {"step", "form", "before", "issuer", "alone"}

SettingsTypeOK ==
  /\ DOMAIN rows = Keys /\ DOMAIN cache = Keys
  /\ DOMAIN put = Savers /\ stale \in BOOLEAN
  /\ \A w \in Savers :
       /\ DOMAIN put[w] = Fields /\ DOMAIN put[w].form \subseteq Keys
       /\ put[w].step \in {"idle", "row", "cache", "install"} /\ put[w].alone \in BOOLEAN
       /\ put[w].step = "cache" => DOMAIN put[w].form # {}

\* A row is ahead of the cache while its writer is between the two.
CacheFollows ==
  \A k \in Keys \ raced :
    /\ \A w \in Savers : k \in Setting(w) => rows[k] = put[w].form[k]
    /\ cache[k] = rows[k] \/ \E w \in Savers : k \in Setting(w)

BuiltOf(fields) == IF fields[1] # "" /\ fields[2] # "" THEN fields ELSE Off

BusyAlone == {w \in Busy : put[w].alone}

\* Of two requests nobody has disturbed one has begun after the last change of the fields.
LastChange ==
  \A v, w \in BusyAlone : v = w \/ put[v].before = OIDCFields \/ put[w].before = OIDCFields

\* The provider is the one of the fields, or of those a busy request has begun with.
ProviderFollows ==
  ~stale => \/ BusyAlone # Busy
            \/ /\ \/ provider = BuiltOf(OIDCFields)
                  \/ \E w \in Busy : provider = BuiltOf(put[w].before)
               /\ \A w \in Busy : \/ put[w].before = OIDCFields
                                  \/ provider = BuiltOf(put[w].before)

\* What was asked of the issuer is what is configured.
Installing ==
  \A w \in BusyAlone : put[w].step = "install" =>
    /\ put[w].issuer = OIDCFields[1] /\ put[w].before # OIDCFields
    /\ OIDCFields[1] # "" /\ OIDCFields[2] # ""

ProviderInv == LastChange /\ ProviderFollows /\ Installing

SettingsInv == SettingsTypeOK /\ CacheFollows /\ ProviderInv

LEMMA BuiltIs == Built = BuiltOf(OIDCFields)
BY DEF Built, BuiltOf, OIDCEnabled, OIDCFields

LEMMA FirstKey ==
  ASSUME NEW w \in Savers, DOMAIN put[w].form \subseteq Keys, DOMAIN put[w].form # {}
  PROVE  Next_(w) \in DOMAIN put[w].form
<1> DEFINE D == DOMAIN put[w].form
<1>1. \E k \in D : \A j \in D : Order[k] <= Order[j]
  BY DEF Keys, Order
<1> QED
  BY <1>1 DEF Next_

LEMMA SettingsStart == SettingsInit => SettingsInv
<1> SUFFICES ASSUME SettingsInit PROVE SettingsInv
  OBVIOUS
<1>1. /\ DOMAIN NoRequest = Fields /\ NoRequest.step = "idle" /\ NoRequest.alone = TRUE
      /\ DOMAIN NoRequest.form = {}
  BY DEF NoRequest, Fields
<1>2. \A w \in Savers : put[w] = NoRequest
  BY DEF SettingsInit
<1>3. SettingsTypeOK
  BY <1>1, <1>2 DEF SettingsInit, SettingsTypeOK
<1>4. CacheFollows
  BY DEF SettingsInit, CacheFollows, Setting, NoRequest
<1>5. Busy = {}
  BY <1>1, <1>2 DEF Busy
<1>6. ~stale => provider = BuiltOf(OIDCFields)
  BY BuiltIs DEF SettingsInit
<1>7. ProviderInv
  BY <1>5, <1>6 DEF ProviderInv, LastChange, ProviderFollows, Installing, BusyAlone
<1> QED
  BY <1>3, <1>4, <1>7 DEF SettingsInv

LEMMA Blank ==
  /\ DOMAIN NoRequest = Fields /\ NoRequest.step = "idle" /\ NoRequest.alone = TRUE
  /\ DOMAIN NoRequest.form = {}
BY DEF NoRequest, Fields

\* A request ends that leaves the settings as they are: with a provider it has just built, or
\* with none to build, or with a note that the provider is stale.
LEMMA Leaves ==
  ASSUME SettingsTypeOK, ProviderInv, NEW w \in Busy,
         put' = [put EXCEPT ![w] = NoRequest],
         UNCHANGED <<env, cache>>,
         \/ stale'
         \/ /\ put[w].alone /\ put[w].before = OIDCFields
            /\ UNCHANGED <<provider, stale>>
         \/ /\ put[w].alone /\ put[w].before # OIDCFields
            /\ provider' = BuiltOf(OIDCFields)
  PROVE  ProviderInv'
<1>1. OIDCFields' = OIDCFields
  BY DEF OIDCFields, str
<1>2. \A v \in Savers \ {w} : put'[v] = put[v]
  BY DEF SettingsTypeOK
<1>3. put'[w] = NoRequest /\ w \in Savers
  BY DEF SettingsTypeOK, Busy
<1>4. Busy' = Busy \ {w} /\ BusyAlone' = BusyAlone \ {w}
  BY <1>2, <1>3, Blank DEF Busy, BusyAlone
<1>5. LastChange' /\ Installing'
  <2>1. \A v \in BusyAlone' : v \in BusyAlone /\ put'[v] = put[v]
    BY <1>2, <1>4 DEF BusyAlone, Busy
  <2>2. LastChange'
    BY <1>1, <2>1 DEF ProviderInv, LastChange
  <2>3. Installing'
    BY <1>1, <2>1 DEF ProviderInv, Installing
  <2> QED
    BY <2>2, <2>3
<1>6. ProviderFollows'
  <2>1. CASE stale'
    BY <2>1 DEF ProviderFollows
  <2>2. CASE /\ put[w].alone /\ put[w].before = OIDCFields
             /\ UNCHANGED <<provider, stale>>
    <3>1. BusyAlone = Busy => BusyAlone' = Busy'
      BY <1>4
    <3>2. BusyAlone # Busy => BusyAlone' # Busy'
      BY <1>4, <2>2 DEF BusyAlone
    <3> QED
      BY <1>1, <1>2, <1>4, <2>2, <3>1, <3>2 DEF ProviderInv, ProviderFollows, Busy
  <2>3. CASE /\ put[w].alone /\ put[w].before # OIDCFields
             /\ provider' = BuiltOf(OIDCFields)
    <3>1. \A v \in BusyAlone \ {w} : put[v].before = OIDCFields
      BY <2>3 DEF ProviderInv, LastChange, BusyAlone
    <3>2. \A v \in BusyAlone' : put'[v].before = OIDCFields'
      BY <1>1, <1>2, <1>4, <3>1 DEF BusyAlone, Busy
    <3> QED
      BY <1>1, <2>3, <3>2 DEF ProviderFollows
  <2> QED
    BY <2>1, <2>2, <2>3
<1> QED
  BY <1>5, <1>6 DEF ProviderInv

\* A request goes on, with the settings, the provider and what it began with as they are.
LEMMA GoesOn ==
  ASSUME SettingsTypeOK, ProviderInv, NEW w \in Busy,
         UNCHANGED <<env, cache, provider, stale>>,
         \A v \in Savers \ {w} : put'[v] = put[v],
         put'[w].step \in {"row", "cache", "install"},
         put'[w].alone = put[w].alone, put'[w].before = put[w].before,
         put'[w].step = "install" =>
           /\ put'[w].issuer = OIDCFields[1] /\ put[w].before # OIDCFields
           /\ OIDCFields[1] # "" /\ OIDCFields[2] # ""
  PROVE  ProviderInv'
<1>1. OIDCFields' = OIDCFields
  BY DEF OIDCFields, str
<1>2. Busy' = Busy /\ BusyAlone' = BusyAlone
  BY DEF Busy, BusyAlone
<1>3. \A v \in Busy : put'[v].before = put[v].before
  BY DEF Busy
<1>4. LastChange' /\ ProviderFollows'
  BY <1>1, <1>2, <1>3 DEF ProviderInv, LastChange, ProviderFollows, BusyAlone
<1>5. Installing'
  BY <1>1, <1>2 DEF ProviderInv, Installing, BusyAlone, Busy
<1> QED
  BY <1>4, <1>5 DEF ProviderInv

\* The cache follows as long as no row and nobody between row and cache moves.
LEMMA CacheKept ==
  ASSUME CacheFollows, UNCHANGED <<rows, cache, raced>>,
         \A v \in Savers : Setting(v)' = Setting(v),
         \A v \in Savers : Setting(v) # {} => put'[v].form = put[v].form
  PROVE  CacheFollows'
BY DEF CacheFollows

LEMMA SettingsStep == SettingsInv /\ [SettingsNext]_settingsVars => SettingsInv'
<1> SUFFICES ASSUME SettingsInv, [SettingsNext]_settingsVars PROVE SettingsInv'
  OBVIOUS
<1>a. SettingsTypeOK /\ CacheFollows /\ ProviderInv
  BY DEF SettingsInv
<1>1. CASE UNCHANGED settingsVars
  <2>1. SettingsTypeOK'
    BY <1>1, <1>a DEF settingsVars, SettingsTypeOK
  <2>2. CacheFollows'
    BY <1>1, <1>a DEF settingsVars, CacheFollows, Setting, Next_
  <2>3. ProviderInv'
    <3>1. Busy' = Busy /\ BusyAlone' = BusyAlone /\ OIDCFields' = OIDCFields
      BY <1>1 DEF settingsVars, BusyAlone, Busy, OIDCFields, str
    <3> QED
      BY <1>1, <1>a, <3>1 DEF settingsVars, ProviderInv, LastChange, ProviderFollows, Installing
  <2> QED
    BY <2>1, <2>2, <2>3 DEF SettingsInv
<1>2. ASSUME NEW w \in Savers, NEW form \in Forms, handleAdminPutSettings(w, form)
      PROVE  SettingsInv'
  <2> DEFINE new == [step |-> "row", form |-> form, before |-> OIDCFields, issuer |-> "",
                     alone |-> TRUE]
  <2>1. /\ put[w].step = "idle"
        /\ \A v \in Savers \ {w} : put'[v] = put[v]
        /\ put'[w] = new /\ DOMAIN put' = Savers
        /\ UNCHANGED <<env, rows, cache, provider, restarts, raced, stale>>
    BY <1>2, <1>a DEF handleAdminPutSettings, SettingsTypeOK
  <2>c. /\ DOMAIN new = Fields /\ new.step = "row" /\ new.alone = TRUE
        /\ new.before = OIDCFields /\ new.form = form
    BY DEF Fields
  <2> HIDE DEF new
  <2>2. SettingsTypeOK'
    <3>1. /\ DOMAIN put'[w] = Fields /\ DOMAIN put'[w].form \subseteq Keys
          /\ put'[w].step = "row" /\ put'[w].alone = TRUE
      BY <2>1, <2>c, SettingsConstants
    <3> QED
      BY <1>a, <2>1, <3>1 DEF SettingsTypeOK
  <2>3. CacheFollows'
    <3>1. \A v \in Savers \ {w} : Setting(v)' = Setting(v)
      BY <2>1 DEF Setting, Next_
    <3>2. Setting(w) = {} /\ Setting(w)' = {}
      BY <2>1, <2>c DEF Setting
    <3> QED
      BY <1>a, <2>1, <3>1, <3>2, CacheKept
  <2>4. OIDCFields' = OIDCFields
    BY <2>1 DEF OIDCFields, str
  <2>5. w \notin Busy /\ put'[w].before = OIDCFields /\ put'[w].step = "row"
        /\ put'[w].alone = TRUE /\ \A v \in Busy : put'[v] = put[v]
    BY <2>1, <2>c DEF Busy
  <2>b. Busy' = Busy \cup {w} /\ BusyAlone' = BusyAlone \cup {w}
    <3>1. Busy' = Busy \cup {w}
      BY <2>1, <2>5 DEF Busy
    <3> QED
      BY <2>5, <3>1 DEF BusyAlone
  <2>6. LastChange' /\ Installing'
    <3>1. \A v \in BusyAlone : put'[v] = put[v]
      BY <2>5 DEF BusyAlone
    <3> QED
      <4>1. LastChange'
        BY <1>a, <2>4, <2>5, <2>b, <3>1 DEF ProviderInv, LastChange
      <4>2. Installing'
        BY <1>a, <2>4, <2>5, <2>b, <3>1 DEF ProviderInv, Installing
      <4> QED
        BY <4>1, <4>2
  <2>7. ProviderFollows'
    <3>1. BusyAlone' = Busy' => BusyAlone = Busy
      BY <2>5, <2>b DEF BusyAlone
    <3> QED
      BY <1>a, <2>1, <2>4, <2>5, <2>b, <3>1 DEF ProviderInv, ProviderFollows
  <2> QED
    BY <2>2, <2>3, <2>6, <2>7 DEF SettingsInv, ProviderInv
<1>3. ASSUME NEW w \in Savers, SetRow(w) PROVE SettingsInv'
  <2> DEFINE k == Next_(w)
  <2>1. put[w].step = "row" /\ DOMAIN put[w].form # {} /\ w \in Busy
        /\ UNCHANGED <<env, cache, provider, restarts>>
    BY <1>3 DEF SetRow, Busy
  <2>2. k \in DOMAIN put[w].form /\ k \in Keys
    BY <1>a, <2>1, FirstKey DEF SettingsTypeOK
  <2>3. CASE /\ rows' = [rows EXCEPT ![k] = put[w].form[k]]
             /\ put' = [put EXCEPT ![w].step = "cache"]
             /\ raced' = IF \E v \in Savers : k \in Setting(v) THEN raced \cup {k} ELSE raced
             /\ UNCHANGED stale
    <3>1. /\ DOMAIN put' = Savers /\ \A v \in Savers \ {w} : put'[v] = put[v]
          /\ put'[w] = [put[w] EXCEPT !.step = "cache"]
      BY <1>a, <2>3 DEF SettingsTypeOK
    <3>2. /\ DOMAIN put'[w] = Fields /\ put'[w].step = "cache"
          /\ put'[w].form = put[w].form /\ put'[w].before = put[w].before
          /\ put'[w].alone = put[w].alone
      BY <1>a, <3>1 DEF SettingsTypeOK, Fields
    <3>3. SettingsTypeOK'
      BY <1>a, <2>1, <2>3, <3>1, <3>2 DEF SettingsTypeOK
    <3>4. ProviderInv'
      BY <1>a, <2>1, <2>3, <3>1, <3>2, GoesOn
    <3>5. /\ Setting(w)' = {k} /\ Setting(w) = {}
          /\ \A v \in Savers \ {w} : Setting(v)' = Setting(v)
      <4>1. Next_(w)' = Next_(w)
        BY <3>2 DEF Next_
      <4>2. Setting(w)' = {k}
        BY <2>2, <3>2, <4>1 DEF Setting
      <4>3. Setting(w) = {}
        BY <2>1 DEF Setting
      <4>4. ASSUME NEW v \in Savers \ {w} PROVE Setting(v)' = Setting(v)
        <5>1. put'[v] = put[v]
          BY <3>1
        <5>2. Next_(v)' = Next_(v)
          BY <5>1 DEF Next_
        <5> QED
          BY <5>1, <5>2 DEF Setting
      <4> QED
        BY <4>2, <4>3, <4>4
    <3>6. CacheFollows'
      <4> SUFFICES ASSUME NEW j \in Keys, j \notin raced'
                   PROVE  /\ \A v \in Savers : j \in Setting(v)' => rows'[j] = put'[v].form[j]
                          /\ cache'[j] = rows'[j] \/ \E v \in Savers : j \in Setting(v)'
        BY DEF CacheFollows
      <4>1. j \notin raced
        BY <2>3
      <4>2. CASE j = k
        <5>1. \A v \in Savers : j \notin Setting(v)
          BY <2>3, <4>2
        <5>2. rows'[j] = put[w].form[j]
          BY <1>a, <2>2, <2>3, <4>2 DEF SettingsTypeOK
        <5> QED
          BY <3>2, <3>5, <4>2, <5>1, <5>2
      <4>3. CASE j # k
        <5>1. rows'[j] = rows[j] /\ cache'[j] = cache[j]
          BY <1>a, <2>1, <2>3, <4>3 DEF SettingsTypeOK
        <5> QED
          BY <1>a, <3>1, <3>5, <4>1, <4>3, <5>1 DEF CacheFollows
      <4> QED
        BY <4>2, <4>3
    <3> QED
      BY <3>3, <3>4, <3>6 DEF SettingsInv
  <2>4. CASE /\ put' = [put EXCEPT ![w] = NoRequest]
             /\ stale' = (stale \/ put[w].before # OIDCFields \/ ~put[w].alone)
             /\ UNCHANGED <<rows, raced>>
    <3>1. DOMAIN put' = Savers /\ put'[w] = NoRequest /\ \A v \in Savers \ {w} : put'[v] = put[v]
      BY <1>a, <2>4 DEF SettingsTypeOK
    <3>2. SettingsTypeOK'
      BY <1>a, <2>1, <2>4, <3>1, Blank DEF SettingsTypeOK
    <3>3. CacheFollows'
      <4>1. \A v \in Savers : Setting(v)' = Setting(v)
        BY <2>1, <3>1, Blank DEF Setting, Next_
      <4>2. Setting(w) = {}
        BY <2>1 DEF Setting
      <4> QED
        BY <1>a, <2>1, <2>4, <3>1, <4>1, <4>2, CacheKept
    <3>4. \/ stale'
          \/ put[w].alone /\ put[w].before = OIDCFields /\ UNCHANGED <<provider, stale>>
      BY <1>a, <2>1, <2>4 DEF SettingsTypeOK
    <3>5. ProviderInv'
      BY <1>a, <2>1, <2>4, <3>4, Leaves
    <3> QED
      BY <3>2, <3>3, <3>5 DEF SettingsInv
  <2> QED
    BY <1>3, <2>3, <2>4 DEF SetRow

<1>4. ASSUME NEW w \in Savers, SetCache(w) PROVE SettingsInv'
  <2> DEFINE k    == Next_(w)
             rest == Restrict(put[w].form, DOMAIN put[w].form \ {k})
  <2>1. put[w].step = "cache" /\ DOMAIN put[w].form # {} /\ w \in Busy
        /\ UNCHANGED <<env, rows, provider, restarts, raced, stale>>
        /\ cache' = [cache EXCEPT ![k] = put[w].form[k]]
    BY <1>4, <1>a DEF SetCache, Busy, SettingsTypeOK
  <2>2. k \in DOMAIN put[w].form /\ k \in Keys /\ Setting(w) = {k}
    BY <1>a, <2>1, FirstKey DEF SettingsTypeOK, Setting
  <2>3. /\ DOMAIN put' = Savers
        /\ put'[w] = [put[w] EXCEPT !.step = "row", !.form = rest]
        /\ \A v \in Savers \ {w} :
             put'[v] = [put[v] EXCEPT !.alone = put[v].alone /\ (put[v].step = "idle"
                                                              \/ OIDCFields' = OIDCFields)]
    BY <1>4 DEF SetCache
  <2>4. DOMAIN rest = DOMAIN put[w].form \ {k}
    BY DEF Restrict
  <2> HIDE DEF k, rest
  <2>5. /\ DOMAIN put'[w] = Fields /\ put'[w].step = "row" /\ DOMAIN put'[w].form \subseteq Keys
        /\ put'[w].before = put[w].before /\ put'[w].alone = put[w].alone
    BY <1>a, <2>3, <2>4 DEF SettingsTypeOK, Fields
  <2>6. \A v \in Savers \ {w} :
          /\ DOMAIN put'[v] = Fields /\ put'[v].step = put[v].step /\ put'[v].form = put[v].form
          /\ put'[v].before = put[v].before /\ put'[v].issuer = put[v].issuer
          /\ put'[v].alone = (put[v].alone /\ (put[v].step = "idle" \/ OIDCFields' = OIDCFields))
    BY <1>a, <2>3 DEF SettingsTypeOK, Fields
  <2>7. SettingsTypeOK'
    BY <1>a, <2>1, <2>3, <2>5, <2>6 DEF SettingsTypeOK
  <2>8. CacheFollows'
    <3>1. Setting(w)' = {} /\ \A v \in Savers \ {w} : Setting(v)' = Setting(v)
      BY <2>5, <2>6 DEF Setting, Next_
    <3> SUFFICES ASSUME NEW j \in Keys, j \notin raced
                 PROVE  /\ \A v \in Savers : j \in Setting(v)' => rows'[j] = put'[v].form[j]
                        /\ cache'[j] = rows'[j] \/ \E v \in Savers : j \in Setting(v)'
      BY <2>1 DEF CacheFollows
    <3>2. \A v \in Savers : j \in Setting(v)' => rows'[j] = put'[v].form[j]
      BY <1>a, <2>1, <2>6, <3>1 DEF CacheFollows
    <3>3. CASE j = k
      <4>1. cache'[j] = put[w].form[j] /\ rows[j] = put[w].form[j]
        BY <1>a, <2>1, <2>2, <3>3 DEF SettingsTypeOK, CacheFollows
      <4> QED
        BY <2>1, <3>2, <4>1
    <3>4. CASE j # k
      <4>1. cache'[j] = cache[j]
        BY <1>a, <2>1, <3>4 DEF SettingsTypeOK
      <4> QED
        BY <1>a, <2>1, <2>2, <3>1, <3>2, <3>4, <4>1 DEF CacheFollows
    <3> QED
      BY <3>3, <3>4
  <2>9. Busy' = Busy /\ BusyAlone' \subseteq BusyAlone
    BY <2>1, <2>5, <2>6 DEF Busy, BusyAlone
  <2>10. CASE OIDCFields' = OIDCFields
    <3>1. \A v \in Busy : put'[v].before = put[v].before /\ put'[v].alone = put[v].alone
      BY <1>a, <2>5, <2>6, <2>10 DEF Busy, SettingsTypeOK
    <3>2. BusyAlone' = BusyAlone
      BY <2>9, <3>1 DEF BusyAlone
    <3>3. LastChange' /\ ProviderFollows'
      BY <1>a, <2>1, <2>9, <2>10, <3>1, <3>2 DEF ProviderInv, LastChange, ProviderFollows, BusyAlone
    <3>4. Installing'
      BY <1>a, <2>5, <2>6, <2>10, <3>2 DEF ProviderInv, Installing, BusyAlone, Busy
    <3> QED
      BY <2>7, <2>8, <3>3, <3>4 DEF SettingsInv, ProviderInv
  <2>11. CASE OIDCFields' # OIDCFields
    <3>1. BusyAlone' \subseteq {w} /\ (w \in BusyAlone' => w \in BusyAlone)
      BY <2>5, <2>6, <2>9, <2>11 DEF BusyAlone, Busy
    <3>2. LastChange' /\ Installing'
      BY <2>5, <3>1 DEF LastChange, Installing
    <3>3. ProviderFollows'
      <4> SUFFICES ASSUME ~stale, BusyAlone' = Busy'
                   PROVE  provider = BuiltOf(put[w].before)
        BY <2>1, <2>5, <2>9, <3>1 DEF ProviderFollows
      <4>1. Busy = {w} /\ BusyAlone = {w}
        <5>1. BusyAlone \subseteq Busy
          BY DEF BusyAlone
        <5> QED
          BY <2>1, <2>9, <3>1, <5>1
      <4> QED
        BY <1>a, <4>1 DEF ProviderInv, ProviderFollows
    <3> QED
      BY <2>7, <2>8, <3>2, <3>3 DEF SettingsInv, ProviderInv
  <2> QED
    BY <2>10, <2>11

<1>5. ASSUME NEW w \in Savers, SetupOIDC(w) PROVE SettingsInv'
  <2>1. /\ put[w].step = "row" /\ DOMAIN put[w].form = {} /\ w \in Busy
        /\ UNCHANGED <<env, rows, cache, restarts, raced>>
    BY <1>5 DEF SetupOIDC, Busy
  <2>2. CASE put' = [put EXCEPT ![w] = NoRequest]
    <3>1. DOMAIN put' = Savers /\ put'[w] = NoRequest /\ \A v \in Savers \ {w} : put'[v] = put[v]
      BY <1>a, <2>2 DEF SettingsTypeOK
    <3>2. stale' \in BOOLEAN
      BY <1>5, <1>a DEF SetupOIDC, SettingsTypeOK
    <3>3. SettingsTypeOK'
      BY <1>a, <2>1, <3>1, <3>2, Blank DEF SettingsTypeOK
    <3>4. CacheFollows'
      <4>1. \A v \in Savers : Setting(v)' = Setting(v)
        BY <2>1, <3>1, Blank DEF Setting, Next_
      <4>2. Setting(w) = {}
        BY <2>1 DEF Setting
      <4> QED
        BY <1>a, <2>1, <3>1, <4>1, <4>2, CacheKept
    <3>5. \/ stale'
          \/ put[w].alone /\ put[w].before = OIDCFields /\ UNCHANGED <<provider, stale>>
          \/ put[w].alone /\ put[w].before # OIDCFields /\ provider' = BuiltOf(OIDCFields)
      <4>1. CASE put[w].before = OIDCFields
        BY <1>5, <1>a, <4>1 DEF SetupOIDC, SettingsTypeOK
      <4>2. CASE put[w].before # OIDCFields /\ ~OIDCEnabled
        <5>1. BuiltOf(OIDCFields) = Off
          BY <4>2, BuiltIs DEF Built
        <5> QED
          BY <1>5, <1>a, <4>2, <5>1 DEF SetupOIDC, SettingsTypeOK
      <4>3. CASE put[w].before # OIDCFields /\ OIDCEnabled
        <5>1. put'[w].step # "install"
          BY <3>1, Blank
        <5>2. put' # [put EXCEPT ![w].step = "install", ![w].issuer = str("oidc_issuer")]
          BY <1>a, <5>1 DEF SettingsTypeOK, Fields
        <5> QED
          BY <1>5, <4>3, <5>2 DEF SetupOIDC
      <4> QED
        BY <4>1, <4>2, <4>3
    <3>6. ProviderInv'
      BY <1>a, <2>1, <2>2, <3>5, Leaves
    <3> QED
      BY <3>3, <3>4, <3>6 DEF SettingsInv
  <2>3. CASE /\ put' = [put EXCEPT ![w].step = "install", ![w].issuer = str("oidc_issuer")]
             /\ put[w].before # OIDCFields /\ OIDCEnabled
             /\ UNCHANGED <<provider, stale>>
    <3>1. /\ DOMAIN put' = Savers /\ \A v \in Savers \ {w} : put'[v] = put[v]
          /\ put'[w] = [put[w] EXCEPT !.step = "install", !.issuer = str("oidc_issuer")]
      BY <1>a, <2>3 DEF SettingsTypeOK
    <3>2. /\ DOMAIN put'[w] = Fields /\ put'[w].step = "install"
          /\ put'[w].issuer = str("oidc_issuer")
          /\ put'[w].form = put[w].form /\ put'[w].before = put[w].before
          /\ put'[w].alone = put[w].alone
      BY <1>a, <3>1 DEF SettingsTypeOK, Fields
    <3>3. SettingsTypeOK'
      BY <1>a, <2>1, <2>3, <3>1, <3>2 DEF SettingsTypeOK
    <3>4. CacheFollows'
      <4>1. \A v \in Savers \ {w} : Setting(v)' = Setting(v)
        BY <3>1 DEF Setting, Next_
      <4>2. Setting(w) = {} /\ Setting(w)' = {}
        BY <2>1, <3>2 DEF Setting
      <4> QED
        BY <1>a, <2>1, <3>1, <4>1, <4>2, CacheKept
    <3>5. OIDCFields[1] = str("oidc_issuer") /\ OIDCFields[1] # "" /\ OIDCFields[2] # ""
      BY <2>3 DEF OIDCFields, OIDCEnabled
    <3>6. ProviderInv'
      BY <1>a, <2>1, <2>3, <3>1, <3>2, <3>5, GoesOn
    <3> QED
      BY <3>3, <3>4, <3>6 DEF SettingsInv
  <2> QED
    BY <1>5, <2>2, <2>3 DEF SetupOIDC
<1>6. ASSUME NEW w \in Savers, Install(w) PROVE SettingsInv'
  <2>1. /\ put[w].step = "install" /\ w \in Busy
        /\ put' = [put EXCEPT ![w] = NoRequest]
        /\ provider' = <<put[w].issuer, str("oidc_client_id")>> /\ stale' = ~put[w].alone
        /\ UNCHANGED <<env, rows, cache, restarts, raced>>
    BY <1>6 DEF Install, Busy
  <2>2. DOMAIN put' = Savers /\ put'[w] = NoRequest /\ \A v \in Savers \ {w} : put'[v] = put[v]
    BY <1>a, <2>1 DEF SettingsTypeOK
  <2>3. SettingsTypeOK'
    BY <1>a, <2>1, <2>2, Blank DEF SettingsTypeOK
  <2>4. CacheFollows'
    <3>1. \A v \in Savers : Setting(v)' = Setting(v)
      BY <2>1, <2>2, Blank DEF Setting, Next_
    <3>2. Setting(w) = {}
      BY <2>1 DEF Setting
    <3> QED
      BY <1>a, <2>1, <2>2, <3>1, <3>2, CacheKept
  <2>5. put[w].alone => put[w].before # OIDCFields /\ provider' = BuiltOf(OIDCFields)
    <3>1. OIDCFields = <<str("oidc_issuer"), str("oidc_client_id")>>
      BY DEF OIDCFields
    <3> QED
      BY <1>a, <2>1, <3>1 DEF ProviderInv, Installing, BusyAlone, BuiltOf
  <2>6. ProviderInv'
    BY <1>a, <2>1, <2>5, Leaves
  <2> QED
    BY <2>3, <2>4, <2>6 DEF SettingsInv
<1>7. ASSUME Restart PROVE SettingsInv'
  <2>1. \A w \in Savers : put'[w] = NoRequest
    BY <1>7 DEF Restart
  <2>2. Busy' = {} /\ \A w \in Savers : Setting(w)' = {}
    BY <2>1, Blank DEF Busy, Setting
  <2>3. SettingsTypeOK'
    BY <1>7, <1>a, <2>1, Blank DEF Restart, SettingsTypeOK
  <2>4. CacheFollows'
    BY <1>7, <2>2 DEF Restart, CacheFollows
  <2>5. Built' = BuiltOf(OIDCFields')
    BY DEF Built, BuiltOf, OIDCEnabled, OIDCFields
  <2>6. ProviderInv'
    BY <1>7, <2>2, <2>5 DEF Restart, ProviderInv, LastChange, ProviderFollows, Installing, BusyAlone
  <2> QED
    BY <2>3, <2>4, <2>6 DEF SettingsInv
<1> QED
  BY <1>1, <1>2, <1>3, <1>4, <1>5, <1>6, <1>7 DEF SettingsNext

\* settings.go:85, oidc.go:35: with no request under way the cache holds the rows, but for
\* keys two writers have set at the same time, and sign-on works as configured, unless a
\* rebuilding has failed, was skipped by an error, or another request changed its fields.
THEOREM SettingsInEffectAlways == SettingsSpec => []SettingsInEffect
<1>1. SettingsInv => SettingsInEffect
  <2> SUFFICES ASSUME SettingsInv, Busy = {} PROVE SettingsInEffect
    BY DEF SettingsInEffect
  <2>1. \A w \in Savers : Setting(w) = {}
    BY DEF Busy, Setting
  <2>2. \A k \in Keys \ raced : cache[k] = rows[k]
    BY <2>1 DEF SettingsInv, CacheFollows
  <2>3. stale \/ provider = Built
    BY BuiltIs DEF SettingsInv, ProviderInv, ProviderFollows, BusyAlone
  <2> QED
    BY <2>2, <2>3 DEF SettingsInEffect
<1> QED
  BY SettingsStart, SettingsStep, <1>1, PTL DEF SettingsSpec

-----------------------------------------------------------------------------
(***************************************************************************)
(* Suggest mode.  A record either stands on the server as it was typed, or *)
(* has a request under way that will bring it there, or is needy: then it  *)
(* is still pending, and a timer or a flushAll will come for it.           *)
(***************************************************************************)
Record == [known : BOOLEAN, creating : BOOLEAN, dirty : BOOLEAN, empty : BOOLEAN, typed : Nat,
           stored : Nat, rows : Nat, orphans : Nat, excused : BOOLEAN]
ModeCall(n) == [rec : 1 .. n, post : BOOLEAN, value : Nat, flush : 0 .. MaxOffs]

ModeTyped(R, C) == R \in Seq(Record) /\ C \subseteq ModeCall(Len(R))

\* A flush would send it, and nothing excuses leaving it.
Needy(x) == x.dirty /\ ~x.creating /\ ~x.empty /\ ~x.excused

\* One POST at a time and none after a known row; the newest request of a clean record carries
\* what was typed; and without an excuse requests of a record do not overlap.
Followed(R, C, r) ==
  /\ R[r].rows = R[r].orphans + (IF R[r].known THEN 1 ELSE 0)
  /\ R[r].creating => ~R[r].known /\ \E c \in C : c.rec = r /\ c.post
  /\ \A c \in C : c.rec = r =>
       /\ IF c.post THEN R[r].creating ELSE R[r].known
       /\ c.value <= R[r].typed /\ (R[r].dirty => c.value < R[r].typed)
       /\ ~R[r].excused /\ ~R[r].dirty => c.value = R[r].typed
       /\ \A d \in C : d.rec = r /\ ((c.post /\ d.post) \/ ~R[r].excused) => c = d
  /\ ~R[r].excused /\ ~R[r].dirty /\ ~R[r].empty /\ (\A c \in C : c.rec # r) =>
       R[r].stored = R[r].typed /\ R[r].known

Flushing == \E n \in 1 .. MaxOffs : flushes[n] \in {"insert", "delete"}
IsPending(r) == \E k \in Kinds : pending[k] = r

Tracked(R, C)  == ModeTyped(R, C) /\ \A r \in DOMAIN R : Followed(R, C, r)
AllPending(R)  == \A r \in DOMAIN R : Needy(R[r]) => IsPending(r)
PointersOK(n) == /\ pending \in [Kinds -> 0 .. n]
                  /\ flushes \in [1 .. MaxOffs -> {"not begun", "insert", "delete", "done"}]

ModeInv ==
  /\ Tracked(records, calls) /\ PointersOK(Len(records)) /\ AllPending(records)
  /\ timer \/ Flushing \/ \A r \in DOMAIN records : ~Needy(records[r])

LEMMA AsSeq ==
  ASSUME NEW S, NEW R \in Seq(S), NEW f, DOMAIN f = DOMAIN R, f = [r \in DOMAIN R |-> f[r]],
         \A r \in DOMAIN R : f[r] \in S
  PROVE  f \in Seq(S) /\ Len(f) = Len(R)
<1>1. DOMAIN R = 1 .. Len(R) /\ Len(R) \in Nat
  OBVIOUS
<1>2. f \in [1 .. Len(R) -> S]
  BY <1>1
<1>. QED
  BY <1>1, <1>2

LEMMA SeqFacts ==
  ASSUME NEW S, NEW R \in Seq(S)
  PROVE  /\ Len(R) \in Nat /\ DOMAIN R = 1 .. Len(R)
         /\ \A r \in DOMAIN R : R[r] \in S /\ r # 0 /\ r \in 0 .. Len(R)
OBVIOUS

LEMMA FlushNumber ==
  ASSUME NEW n \in 1 .. MaxOffs
  PROVE  n \in 0 .. MaxOffs /\ n # 0
BY SuggestModeConstants

LEMMA PointersSet ==
  ASSUME NEW l \in Nat, PointersOK(l), pending' \in [Kinds -> 0 .. l],
         NEW n \in 1 .. MaxOffs, NEW f \in {"not begun", "insert", "delete", "done"},
         flushes' = [flushes EXCEPT ![n] = f]
  PROVE  PointersOK(l)' /\ (f \in {"insert", "delete"} => Flushing')
BY DEF Flushing, PointersOK

LEMMA SendKeeps ==
  ASSUME NEW R, NEW C, Tracked(R, C), NEW S \in SUBSET (0 .. Len(R)), NEW n \in 0 .. MaxOffs,
         flushRecord(R, C, S, n)
  PROVE  /\ Tracked(records', calls') /\ DOMAIN records' = DOMAIN R /\ Len(records') = Len(R)
         /\ \A r \in DOMAIN R : Needy(records'[r]) => Needy(R[r]) /\ r \notin S
<1>0. PICK R2, C2 : R2 = records' /\ C2 = calls' /\ R2 = Sent(R, C, S) /\ C2 = C \cup Requests(R, S, n)
  BY DEF flushRecord
<1>. DEFINE Going == Sending(R, S)
<1>1. /\ DOMAIN R = 1 .. Len(R) /\ Len(R) \in Nat /\ R \in Seq(Record) /\ DOMAIN R2 = DOMAIN R
      /\ \A r \in DOMAIN R : R[r] \in Record
      /\ C \subseteq ModeCall(Len(R))
  <2>1. R \in Seq(Record) /\ C \subseteq ModeCall(Len(R))
    BY DEF Tracked, ModeTyped
  <2>2. DOMAIN R2 = DOMAIN R
    BY <1>0 DEF Sent
  <2>3. DOMAIN R = 1 .. Len(R) /\ Len(R) \in Nat /\ \A r \in DOMAIN R : R[r] \in Record
    BY <2>1
  <2>. QED
    BY <2>1, <2>2, <2>3
<1>2. Going \subseteq DOMAIN R /\ \A r \in Going : R[r].dirty /\ ~R[r].creating /\ ~R[r].empty
  <2>1. \A r \in S \ {0} : r \in DOMAIN R
    BY <1>1
  <2>. QED
    BY <2>1 DEF Sending
<1>3. \A r \in DOMAIN R : r \notin Going => R2[r] = R[r]
  BY <1>0 DEF Sent
<1>4. ASSUME NEW r \in Going
      PROVE  /\ R2[r] \in Record /\ ~R2[r].dirty /\ (R2[r].creating <=> ~R[r].known)
             /\ R2[r].excused <=> R[r].excused \/ \E c \in C : c.rec = r
             /\ R2[r].known = R[r].known /\ R2[r].empty = R[r].empty /\ R2[r].typed = R[r].typed
             /\ R2[r].stored = R[r].stored /\ R2[r].rows = R[r].rows /\ R2[r].orphans = R[r].orphans
  <2>1. R2[r] = [R[r] EXCEPT !.dirty = FALSE, !.creating = ~R[r].known,
                             !.excused = @ \/ \E c \in C : c.rec = r]
    BY <1>0, <1>2 DEF Sent
  <2>2. R[r] \in Record
    BY <1>1, <1>2
  <2>. QED
    BY <2>1, <2>2 DEF Record
<1>5. \A r \in DOMAIN R : R2[r] \in Record
  BY <1>1, <1>3, <1>4
<1>6. R2 \in Seq(Record) /\ Len(R2) = Len(R)
  <2>1. R2 = [r \in DOMAIN R |-> R2[r]]
    BY <1>0 DEF Sent
  <2>. QED
    BY <1>1, <1>5, <2>1, AsSeq
<1>7. \A c \in C2 \ C : /\ c.rec \in Going /\ (c.post <=> ~R[c.rec].known) /\ c.value = R[c.rec].typed
                        /\ c \in ModeCall(Len(R))
  <2>1. ASSUME NEW r \in Going
        PROVE  [rec |-> r, post |-> ~R[r].known, value |-> R[r].typed, flush |-> n] \in ModeCall(Len(R))
    <3>1. r \in 1 .. Len(R) /\ R[r] \in Record
      BY <1>1, <1>2
    <3>. QED
      BY <3>1 DEF ModeCall, Record
  <2>2. ASSUME NEW c \in C2 \ C
        PROVE  /\ c.rec \in Going /\ (c.post <=> ~R[c.rec].known) /\ c.value = R[c.rec].typed
               /\ c \in ModeCall(Len(R))
    <3>1. PICK r \in Going : c = [rec |-> r, post |-> ~R[r].known, value |-> R[r].typed, flush |-> n]
      BY <1>0 DEF Requests
    <3>. QED
      BY <2>1, <3>1
  <2>. QED
    BY <2>2
<1>8. ASSUME NEW r \in Going
      PROVE  \E c \in C2 : /\ c.rec = r /\ (c.post <=> ~R[r].known) /\ c.value = R[r].typed
                           /\ \A d \in C2 : d.rec = r => d = c \/ d \in C
  <2>. DEFINE c == [rec |-> r, post |-> ~R[r].known, value |-> R[r].typed, flush |-> n]
  <2>1. c \in C2
    BY <1>0 DEF Requests
  <2>2. \A d \in C2 : d.rec = r => d = c \/ d \in C
    BY <1>0 DEF Requests
  <2>3. c.rec = r /\ (c.post <=> ~R[r].known) /\ c.value = R[r].typed
    OBVIOUS
  <2>. HIDE DEF c
  <2>. QED
    BY <2>1, <2>2, <2>3
<1>. HIDE DEF Going
<1>9. ASSUME NEW r \in DOMAIN R, r \notin Going
      PROVE  Followed(R2, C2, r) /\ (Needy(R2[r]) => Needy(R[r]) /\ r \notin S)
  <2>1. R2[r] = R[r] /\ Followed(R, C, r) /\ \A c \in C2 : c.rec = r => c \in C
    BY <1>3, <1>7, <1>9 DEF Tracked
  <2>2. C \subseteq C2
    BY <1>0
  <2>3. Followed(R2, C2, r)
    BY <2>1, <2>2 DEF Followed
  <2>4. Needy(R[r]) => r \notin S
    BY <1>1, <1>9 DEF Needy, Going, Sending
  <2>. QED
    BY <2>1, <2>3, <2>4
<1>10. ASSUME NEW r \in Going
       PROVE  Followed(R2, C2, r) /\ ~Needy(R2[r])
  <2>1. r \in DOMAIN R /\ Followed(R, C, r) /\ ~R[r].creating /\ R[r] \in Record
    BY <1>1, <1>2 DEF Tracked
  <2>2. PICK c \in C2 : /\ c.rec = r /\ (c.post <=> ~R[r].known) /\ c.value = R[r].typed
                        /\ \A d \in C2 : d.rec = r => d = c \/ d \in C
    BY <1>8
  <2>3. \A d \in C : d.rec = r => ~d.post
    BY <2>1 DEF Followed
  <2>4. \A d \in C : d.rec = r => d.value <= R[r].typed /\ R[r].known
    BY <2>1, <2>3 DEF Followed
  <2>5. R[r].typed \in Nat /\ R[r].known \in BOOLEAN
    BY <2>1 DEF Record
  <2>6. ASSUME NEW d \in C2, d.rec = r
        PROVE  /\ IF d.post THEN R2[r].creating ELSE R2[r].known
               /\ d.value <= R2[r].typed
               /\ ~R2[r].excused => d = c
               /\ d.post => d = c
    <3>1. CASE d = c
      BY <1>4, <2>2, <2>5, <3>1
    <3>2. CASE d \in C
      BY <1>4, <2>3, <2>4, <2>6, <3>2
    <3>. QED
      BY <2>2, <2>6, <3>1, <3>2
  <2>7. R2[r].rows = R2[r].orphans + (IF R2[r].known THEN 1 ELSE 0)
    BY <1>4, <2>1 DEF Followed
  <2>8. R2[r].creating => ~R2[r].known /\ \E d \in C2 : d.rec = r /\ d.post
    BY <1>4, <2>2
  <2>9. \A d \in C2 : d.rec = r => d.value = R2[r].typed \/ R2[r].excused
    BY <1>4, <2>2, <2>6
  <2>. QED
    BY <1>4, <2>2, <2>6, <2>7, <2>8, <2>9 DEF Followed, Needy
<1>. QED
  BY <1>0, <1>1, <1>6, <1>7, <1>9, <1>10 DEF Tracked, ModeTyped

\* A record that was changed in place.
LEMMA Changed ==
  ASSUME NEW R \in Seq(Record), NEW r \in DOMAIN R, NEW x \in Record,
         NEW R2, R2 = [R EXCEPT ![r] = x]
  PROVE  /\ R2 \in Seq(Record) /\ Len(R2) = Len(R) /\ DOMAIN R2 = DOMAIN R
         /\ R2[r] = x /\ \A q \in DOMAIN R : q # r => R2[q] = R[q]
OBVIOUS

LEMMA AnsweredKeeps ==
  ASSUME ModeInv, NEW c \in calls, NEW R2, R2 = [records EXCEPT ![c.rec] = AnsweredRecord(c)]
  PROVE  /\ Tracked(R2, calls \ {c}) /\ Len(R2) = Len(records) /\ DOMAIN R2 = DOMAIN records
         /\ \A r \in DOMAIN records : Needy(R2[r]) => Needy(records[r]) \/ (c.post /\ r = c.rec)
<1>. DEFINE r == c.rec
            C == calls \ {c}
            x == AnsweredRecord(c)
<1>1. /\ records \in Seq(Record) /\ calls \subseteq ModeCall(Len(records))
      /\ r \in DOMAIN records /\ records[r] \in Record /\ Followed(records, calls, r)
      /\ c.post \in BOOLEAN /\ c.value \in Nat
  <2>1. records \in Seq(Record) /\ c \in ModeCall(Len(records)) /\ calls \subseteq ModeCall(Len(records))
    BY DEF ModeInv, Tracked, ModeTyped
  <2>2. r \in DOMAIN records /\ c.post \in BOOLEAN /\ c.value \in Nat
    BY <2>1 DEF ModeCall
  <2>3. records[r] \in Record
    BY <2>1, <2>2
  <2>4. Followed(records, calls, r)
    BY <2>2 DEF ModeInv, Tracked
  <2>. QED
    BY <2>1, <2>2, <2>3, <2>4
<1>. DEFINE y == records[r]
<1>2. x \in Record
  <2>1. x = [known |-> TRUE, creating |-> y.creating /\ ~c.post, dirty |-> y.dirty, empty |-> y.empty,
             typed |-> y.typed, stored |-> c.value, rows |-> IF c.post THEN y.rows + 1 ELSE y.rows,
             orphans |-> y.orphans,
             excused |-> y.excused /\ (Others(c) # {} \/ c.value # y.typed)]
    <3>1. PICK z \in Record : z = y
      BY <1>1
    <3>2. x = [z EXCEPT !.known = TRUE, !.creating = @ /\ ~c.post,
                        !.stored = c.value, !.rows = IF c.post THEN @ + 1 ELSE @,
                        !.excused = @ /\ (Others(c) # {} \/ c.value # y.typed)]
      BY <3>1 DEF AnsweredRecord
    <3>. HIDE DEF x, y
    <3>. QED
      BY <3>1, <3>2 DEF Record
  <2>2. /\ y.dirty \in BOOLEAN /\ y.empty \in BOOLEAN /\ y.typed \in Nat /\ y.orphans \in Nat
        /\ (IF c.post THEN y.rows + 1 ELSE y.rows) \in Nat
    <3>1. y \in Record
      BY <1>1
    <3>. HIDE DEF y
    <3>2. y.rows \in Nat /\ y.typed \in Nat /\ y.orphans \in Nat /\ y.dirty \in BOOLEAN /\ y.empty \in BOOLEAN
      BY <3>1 DEF Record
    <3>. QED
      BY <3>2
  <2>. HIDE DEF x, y
  <2>. QED
    BY <1>1, <2>1, <2>2 DEF Record
<1>3. /\ x.known /\ (x.creating <=> records[r].creating /\ ~c.post) /\ x.stored = c.value
      /\ x.rows = IF c.post THEN records[r].rows + 1 ELSE records[r].rows
      /\ x.excused <=> records[r].excused /\ (Others(c) # {} \/ c.value # records[r].typed)
      /\ x.typed = records[r].typed /\ x.orphans = records[r].orphans
      /\ x.dirty = records[r].dirty /\ x.empty = records[r].empty
  BY <1>1 DEF Record, AnsweredRecord
<1>4. R2 = [records EXCEPT ![r] = x]
  OBVIOUS
<1>. HIDE DEF x
<1>5. /\ R2 \in Seq(Record) /\ Len(R2) = Len(records) /\ DOMAIN R2 = DOMAIN records
      /\ R2[r] = x /\ \A q \in DOMAIN records : q # r => R2[q] = records[q]
  BY <1>1, <1>2, <1>4, Changed
<1>6. ASSUME NEW q \in DOMAIN records, q # r
      PROVE  Followed(R2, C, q) /\ (Needy(R2[q]) => Needy(records[q]))
  <2>1. R2[q] = records[q] /\ Followed(records, calls, q)
    BY <1>5, <1>6 DEF ModeInv, Tracked
  <2>2. C \subseteq calls /\ \A d \in calls : d.rec = q => d \in C
    BY <1>6
  <2>. HIDE DEF r, C
  <2>3. Followed(R2, C, q)
    BY <2>1, <2>2 DEF Followed
  <2>. QED
    BY <2>1, <2>3
<1>7. /\ y.rows = y.orphans + (IF y.known THEN 1 ELSE 0)
      /\ y.creating => ~y.known
      /\ IF c.post THEN y.creating ELSE y.known
      /\ ~y.excused /\ ~y.dirty => c.value = y.typed
      /\ y.dirty => c.value < y.typed
      /\ y.typed \in Nat /\ y.orphans \in Nat
  BY <1>1 DEF Followed, Record
<1>8. \A d \in C : d.rec = r =>
        /\ IF d.post THEN y.creating ELSE y.known
        /\ d.value <= y.typed /\ (y.dirty => d.value < y.typed)
        /\ ~(c.post /\ d.post) /\ y.excused
  BY <1>1 DEF Followed
<1>9. ~x.creating /\ x.rows = x.orphans + 1
  BY <1>3, <1>7
<1>10. \A d \in C : d.rec = r =>
        /\ ~d.post /\ d.value <= x.typed /\ (x.dirty => d.value < x.typed) /\ x.excused
  BY <1>3, <1>7, <1>8 DEF Others
<1>11. ~x.excused /\ ~x.dirty => x.stored = x.typed
  BY <1>3, <1>7
<1>12. Followed(R2, C, r)
  BY <1>3, <1>5, <1>9, <1>10, <1>11 DEF Followed
<1>13. Needy(x) => Needy(y) \/ c.post
  BY <1>3, <1>7 DEF Needy
<1>. QED
  BY <1>1, <1>5, <1>6, <1>12, <1>13 DEF Tracked, ModeTyped

LEMMA FailedKeeps ==
  ASSUME ModeInv, NEW c \in calls, NEW done \in BOOLEAN,
         NEW R2, R2 = [records EXCEPT ![c.rec] = FailedRecord(c, done)]
  PROVE  /\ Tracked(R2, calls \ {c}) /\ Len(R2) = Len(records) /\ DOMAIN R2 = DOMAIN records
         /\ \A r \in DOMAIN records : Needy(R2[r]) => Needy(records[r])
<1>. DEFINE r == c.rec
            C == calls \ {c}
            x == FailedRecord(c, done)
            y == records[r]
<1>1. /\ records \in Seq(Record) /\ calls \subseteq ModeCall(Len(records))
      /\ r \in DOMAIN records /\ records[r] \in Record /\ Followed(records, calls, r)
      /\ c.post \in BOOLEAN /\ c.value \in Nat
  <2>1. records \in Seq(Record) /\ c \in ModeCall(Len(records)) /\ calls \subseteq ModeCall(Len(records))
    BY DEF ModeInv, Tracked, ModeTyped
  <2>2. r \in DOMAIN records /\ c.post \in BOOLEAN /\ c.value \in Nat
    BY <2>1 DEF ModeCall
  <2>3. records[r] \in Record
    BY <2>1, <2>2
  <2>4. Followed(records, calls, r)
    BY <2>2 DEF ModeInv, Tracked
  <2>. QED
    BY <2>1, <2>2, <2>3, <2>4
<1>2. /\ x.known = y.known /\ (x.creating <=> y.creating /\ ~c.post)
      /\ x.stored = (IF done /\ ~c.post THEN c.value ELSE y.stored)
      /\ x.rows = (IF done /\ c.post THEN y.rows + 1 ELSE y.rows)
      /\ x.orphans = (IF done /\ c.post THEN y.orphans + 1 ELSE y.orphans)
      /\ x.excused /\ x.typed = y.typed /\ x.dirty = y.dirty /\ x.empty = y.empty
      /\ x \in Record
  <2>1. PICK z \in Record : z = y
    BY <1>1
  <2>2. x = [z EXCEPT !.creating = @ /\ ~c.post, !.excused = TRUE,
                      !.stored = IF done /\ ~c.post THEN c.value ELSE @,
                      !.rows = IF done /\ c.post THEN @ + 1 ELSE @,
                      !.orphans = IF done /\ c.post THEN @ + 1 ELSE @]
    BY <2>1 DEF FailedRecord
  <2>. HIDE DEF x, y
  <2>3. x = [known |-> z.known, creating |-> z.creating /\ ~c.post, dirty |-> z.dirty, empty |-> z.empty,
             typed |-> z.typed, stored |-> IF done /\ ~c.post THEN c.value ELSE z.stored,
             rows |-> IF done /\ c.post THEN z.rows + 1 ELSE z.rows,
             orphans |-> IF done /\ c.post THEN z.orphans + 1 ELSE z.orphans, excused |-> TRUE]
    BY <2>1, <2>2 DEF Record
  <2>4. /\ z.rows \in Nat /\ z.typed \in Nat /\ z.orphans \in Nat /\ z.stored \in Nat
        /\ z.dirty \in BOOLEAN /\ z.empty \in BOOLEAN /\ z.known \in BOOLEAN
    BY <2>1 DEF Record
  <2>5. /\ (IF done /\ ~c.post THEN c.value ELSE z.stored) \in Nat
        /\ (IF done /\ c.post THEN z.rows + 1 ELSE z.rows) \in Nat
        /\ (IF done /\ c.post THEN z.orphans + 1 ELSE z.orphans) \in Nat
    BY <1>1, <2>4
  <2>6. x \in Record
    BY <2>3, <2>4, <2>5 DEF Record
  <2>. QED
    BY <2>1, <2>3, <2>6
<1>3. R2 = [records EXCEPT ![r] = x]
  OBVIOUS
<1>. HIDE DEF x
<1>4. /\ R2 \in Seq(Record) /\ Len(R2) = Len(records) /\ DOMAIN R2 = DOMAIN records
      /\ R2[r] = x /\ \A q \in DOMAIN records : q # r => R2[q] = records[q]
  BY <1>1, <1>2, <1>3, Changed
<1>5. ASSUME NEW q \in DOMAIN records, q # r
      PROVE  Followed(R2, C, q) /\ (Needy(R2[q]) => Needy(records[q]))
  <2>1. R2[q] = records[q] /\ Followed(records, calls, q)
    BY <1>4, <1>5 DEF ModeInv, Tracked
  <2>2. C \subseteq calls /\ \A d \in calls : d.rec = q => d \in C
    BY <1>5
  <2>. HIDE DEF r, C
  <2>3. Followed(R2, C, q)
    BY <2>1, <2>2 DEF Followed
  <2>. QED
    BY <2>1, <2>3
<1>6. /\ y.rows = y.orphans + (IF y.known THEN 1 ELSE 0)
      /\ y.creating => ~y.known /\ \E d \in calls : d.rec = r /\ d.post
      /\ IF c.post THEN y.creating ELSE y.known
      /\ y.rows \in Nat /\ y.orphans \in Nat /\ y.typed \in Nat
  <2>1. PICK z \in Record : z = y
    BY <1>1
  <2>2. z.rows \in Nat /\ z.orphans \in Nat /\ z.typed \in Nat
    BY DEF Record
  <2>. QED
    BY <1>1, <2>1, <2>2 DEF Followed
<1>7. \A d \in C : d.rec = r =>
        /\ IF d.post THEN y.creating ELSE y.known
        /\ d.value <= y.typed /\ (y.dirty => d.value < y.typed)
        /\ \A e \in C : e.rec = r /\ d.post /\ e.post => d = e
        /\ ~(c.post /\ d.post)
  BY <1>1 DEF Followed
<1>8. x.rows = x.orphans + (IF x.known THEN 1 ELSE 0)
  BY <1>2, <1>6
<1>9. x.creating => ~x.known /\ \E d \in C : d.rec = r /\ d.post
  BY <1>2, <1>6
<1>10. \A d \in C : d.rec = r =>
        /\ IF d.post THEN x.creating ELSE x.known
        /\ d.value <= x.typed /\ (x.dirty => d.value < x.typed)
        /\ \A e \in C : e.rec = r /\ d.post /\ e.post => d = e
  BY <1>2, <1>7
<1>11. Followed(R2, C, r) /\ ~Needy(R2[r])
  BY <1>2, <1>4, <1>8, <1>9, <1>10 DEF Followed, Needy
<1>. QED
  BY <1>1, <1>4, <1>5, <1>11 DEF Tracked, ModeTyped

\* flushAll lets go of both records: what it leaves unsent is excused.
LEMMA FinishKeeps ==
  ASSUME NEW R, NEW C, Tracked(R, C), PointersOK(Len(R)), AllPending(R), NEW n \in 1 .. MaxOffs,
         Finish(R, C, n)
  PROVE  ModeInv'
<1>1. /\ R \in Seq(Record) /\ C \subseteq ModeCall(Len(R)) /\ Len(R) \in Nat
      /\ \A r \in DOMAIN R : R[r] \in Record /\ r # 0
  <2>1. R \in Seq(Record) /\ C \subseteq ModeCall(Len(R))
    BY DEF Tracked, ModeTyped
  <2>. QED
    BY <2>1, SeqFacts
<1>2. /\ records' = [r \in DOMAIN R |-> IF \E k \in Kinds : r \in Sending(R, {pending[k]})
                                        THEN [R[r] EXCEPT !.excused = TRUE] ELSE R[r]]
      /\ calls' = C /\ pending' = [k \in Kinds |-> 0] /\ flushes' = [flushes EXCEPT ![n] = "done"]
  BY DEF Finish
<1>3. ASSUME NEW r \in DOMAIN R
      PROVE  records'[r] \in Record /\ Followed(records', C, r) /\ ~Needy(records'[r])
  <2>0. Followed(R, C, r) /\ R[r] \in Record /\ r # 0 /\ (Needy(R[r]) => IsPending(r))
    BY <1>1 DEF Tracked, AllPending
  <2>1. CASE \E k \in Kinds : r \in Sending(R, {pending[k]})
    <3>1. PICK z \in Record : z = R[r]
      BY <2>0
    <3>2. records'[r] = [z EXCEPT !.excused = TRUE]
      BY <1>2, <2>1, <3>1
    <3>3. PICK x : x = records'[r]
      OBVIOUS
    <3>4. /\ x \in Record /\ x.excused /\ x.known = z.known /\ x.creating = z.creating /\ x.dirty = z.dirty
          /\ x.typed = z.typed /\ x.rows = z.rows /\ x.orphans = z.orphans
      BY <3>2, <3>3 DEF Record
    <3>5. Followed(records', C, r)
      BY <2>0, <3>1, <3>3, <3>4 DEF Followed
    <3>6. ~Needy(x)
      BY <3>4 DEF Needy
    <3>. QED
      BY <3>3, <3>4, <3>5, <3>6
  <2>2. CASE ~\E k \in Kinds : r \in Sending(R, {pending[k]})
    <3>1. records'[r] = R[r]
      BY <1>2, <2>2
    <3>2. ASSUME Needy(R[r]) PROVE FALSE
      <4>1. PICK k \in Kinds : pending[k] = r
        BY <2>0, <3>2 DEF IsPending
      <4>2. r \in Sending(R, {pending[k]})
        BY <2>0, <3>2, <4>1 DEF Needy, Sending
      <4>. QED
        BY <2>2, <4>2
    <3>3. Followed(records', C, r)
      BY <2>0, <3>1 DEF Followed
    <3>. QED
      BY <2>0, <3>1, <3>2, <3>3
  <2>. QED
    BY <2>1, <2>2
<1>4. records' \in Seq(Record) /\ Len(records') = Len(R) /\ DOMAIN records' = DOMAIN R
  <2>1. records' = [r \in DOMAIN R |-> records'[r]] /\ DOMAIN records' = DOMAIN R
    BY <1>2
  <2>. QED
    BY <1>1, <1>3, <2>1, AsSeq
<1>5. PointersOK(Len(R))'
  <2>1. 0 \in 0 .. Len(R)
    BY <1>1
  <2>2. pending' \in [Kinds -> 0 .. Len(R)]
    BY <1>2, <2>1
  <2>. QED
    BY <1>1, <1>2, <2>2, PointersSet
<1>. QED
  BY <1>1, <1>2, <1>3, <1>4, <1>5 DEF ModeInv, Tracked, ModeTyped, AllPending

\* What a flush of pending records comes to, once somebody is bound to come again.
LEMMA FlushKeeps ==
  ASSUME NEW R, NEW C, Tracked(R, C), NEW S \in SUBSET (0 .. Len(R)), NEW n \in 0 .. MaxOffs,
         AllPending(R), flushRecord(R, C, S, n), UNCHANGED pending, PointersOK(Len(R))',
         timer' \/ Flushing' \/ \A r \in DOMAIN R : Needy(R[r]) => r \in S
  PROVE  ModeInv'
<1>1. /\ Tracked(records', calls') /\ DOMAIN records' = DOMAIN R /\ Len(records') = Len(R)
      /\ \A r \in DOMAIN R : Needy(records'[r]) => Needy(R[r]) /\ r \notin S
  BY SendKeeps
<1>2. AllPending(records)'
  BY <1>1 DEF AllPending, IsPending
<1>. QED
  BY <1>1, <1>2 DEF ModeInv

LEMMA FlushDeleteKeeps ==
  ASSUME NEW R, NEW C, Tracked(R, C), PointersOK(Len(R)), AllPending(R), NEW n \in 1 .. MaxOffs,
         FlushDelete(R, C, n)
  PROVE  ModeInv'
<1>1. CASE flushRecord(R, C, {pending["delete"]}, n) /\ flushes' = [flushes EXCEPT ![n] = "delete"]
           /\ UNCHANGED pending
  <2>1. n \in 0 .. MaxOffs
    BY FlushNumber
  <2>2. {pending["delete"]} \in SUBSET (0 .. Len(R)) /\ pending \in [Kinds -> 0 .. Len(R)]
    BY DEF Kinds, PointersOK
  <2>3. Len(R) \in Nat
    BY SeqFacts DEF Tracked, ModeTyped
  <2>4. PointersOK(Len(R))' /\ Flushing'
    BY <1>1, <2>2, <2>3, PointersSet
  <2>. QED
    BY <1>1, <2>1, <2>2, <2>4, FlushKeeps
<1>. QED
  BY <1>1, FinishKeeps DEF FlushDelete

LEMMA ReturnedKeeps ==
  ASSUME ModeInv, NEW R, NEW C, Tracked(R, C), Len(R) = Len(records), DOMAIN R = DOMAIN records,
         \A r \in DOMAIN records : Needy(R[r]) => Needy(records[r]),
         NEW n \in 0 .. MaxOffs, Returned(R, C, n), UNCHANGED timer
  PROVE  ModeInv'
<1>1. AllPending(R) /\ PointersOK(Len(R)) /\ (timer \/ Flushing \/ \A r \in DOMAIN R : ~Needy(R[r]))
  BY DEF ModeInv, AllPending
<1>2. CASE records' = R /\ calls' = C /\ UNCHANGED <<pending, flushes>>
  <2>1. PointersOK(Len(R))' /\ AllPending(records)' /\ (Flushing' <=> Flushing)
    BY <1>1, <1>2 DEF PointersOK, AllPending, IsPending, Flushing
  <2>. QED
    BY <1>1, <1>2, <2>1 DEF ModeInv
<1>3. CASE n # 0 /\ (FlushDelete(R, C, n) \/ Finish(R, C, n))
  <2>1. n \in 1 .. MaxOffs
    BY <1>3
  <2>. QED
    BY <1>1, <1>3, <2>1, FlushDeleteKeeps, FinishKeeps
<1>. QED
  BY <1>2, <1>3 DEF Returned

LEMMA ModeStart == SuggestModeInit => ModeInv
<1>. SUFFICES ASSUME SuggestModeInit PROVE ModeInv
  OBVIOUS
<1>1. records = <<>> /\ calls = {}
  BY DEF SuggestModeInit
<1>2. records \in Seq(Record) /\ Len(records) = 0 /\ DOMAIN records = {}
  BY <1>1
<1>3. Tracked(records, calls) /\ AllPending(records)
  BY <1>1, <1>2 DEF Tracked, ModeTyped, AllPending
<1>4. PointersOK(0)
  <2>1. pending = [k \in Kinds |-> 0] /\ flushes = [n \in 1 .. MaxOffs |-> "not begun"]
    BY DEF SuggestModeInit
  <2>2. 0 \in 0 .. 0
    OBVIOUS
  <2>3. pending \in [Kinds -> 0 .. 0]
    BY <2>1, <2>2
  <2>4. flushes \in [1 .. MaxOffs -> {"not begun", "insert", "delete", "done"}]
    BY <2>1
  <2>. QED
    BY <2>3, <2>4 DEF PointersOK
<1>. QED
  BY <1>2, <1>3, <1>4 DEF ModeInv

\* One record changes without a request.
LEMMA Touched ==
  ASSUME ModeInv, NEW r \in DOMAIN records, NEW x \in Record, records' = [records EXCEPT ![r] = x],
         UNCHANGED <<pending, calls, flushes>>, Followed(records', calls, r),
         Needy(x) => IsPending(r) /\ timer', timer => timer'
  PROVE  ModeInv'
<1>1. records \in Seq(Record) /\ calls \subseteq ModeCall(Len(records))
  BY DEF ModeInv, Tracked, ModeTyped
<1>2. PICK R2 : R2 = records'
  OBVIOUS
<1>3. /\ R2 \in Seq(Record) /\ Len(R2) = Len(records) /\ DOMAIN R2 = DOMAIN records
      /\ R2[r] = x /\ \A q \in DOMAIN records : q # r => R2[q] = records[q]
  BY <1>1, <1>2, Changed
<1>4. ASSUME NEW q \in DOMAIN records
      PROVE  Followed(R2, calls, q) /\ (Needy(R2[q]) => Needy(records[q]) \/ q = r)
  <2>1. CASE q = r
    BY <1>2, <2>1
  <2>2. CASE q # r
    <3>1. R2[q] = records[q] /\ Followed(records, calls, q)
      BY <1>3, <2>2 DEF ModeInv, Tracked
    <3>2. Followed(R2, calls, q)
      BY <3>1 DEF Followed
    <3>. QED
      BY <3>1, <3>2
  <2>. QED
    BY <2>1, <2>2
<1>5. (Flushing' <=> Flushing) /\ \A q : IsPending(q)' <=> IsPending(q)
  BY DEF Flushing, IsPending
<1>6. Tracked(records', calls')
  BY <1>1, <1>2, <1>3, <1>4 DEF Tracked, ModeTyped
<1>7. PointersOK(Len(records))'
  BY <1>2, <1>3 DEF ModeInv, PointersOK
<1>8. AllPending(records)'
  BY <1>2, <1>3, <1>4, <1>5 DEF ModeInv, AllPending
<1>9. timer' \/ Flushing' \/ \A q \in DOMAIN records' : ~Needy(records'[q])
  BY <1>2, <1>3, <1>4, <1>5 DEF ModeInv
<1>. QED
  BY <1>6, <1>7, <1>8, <1>9 DEF ModeInv

LEMMA ExtendKeeps ==
  ASSUME ModeInv, NEW k \in Kinds, Extend(k)
  PROVE  ModeInv'
<1>. DEFINE r == pending[k]
<1>1. /\ records \in Seq(Record) /\ calls \subseteq ModeCall(Len(records))
      /\ r \in 0 .. Len(records) /\ r # 0
  BY DEF ModeInv, Tracked, ModeTyped, PointersOK, Extend
<1>2. r \in DOMAIN records
  BY <1>1
<1>3. PICK z \in Record : z = records[r]
  BY <1>1, <1>2
<1>. DEFINE x == [z EXCEPT !.typed = z.typed + 1, !.dirty = TRUE, !.empty = FALSE]
<1>4. /\ x \in Record /\ x.typed = z.typed + 1 /\ x.dirty /\ x.known = z.known /\ x.rows = z.rows
      /\ x.orphans = z.orphans /\ x.creating = z.creating /\ x.excused = z.excused
      /\ z.typed \in Nat
  <2>1. z.typed \in Nat /\ z.typed + 1 \in Nat
    <3>1. z.typed \in Nat
      BY DEF Record
    <3>. QED
      BY <3>1
  <2>. QED
    BY <2>1 DEF Record
<1>5. records' = [records EXCEPT ![r] = x]
  BY <1>1, <1>2, <1>3 DEF Extend, Record
<1>. HIDE DEF x
<1>6. records'[r] = x
  BY <1>1, <1>2, <1>5
<1>7. Followed(records, calls, r)
  BY <1>2 DEF ModeInv, Tracked
<1>8. \A d \in calls : d.value \in Nat
  BY <1>1 DEF ModeCall
<1>9. \A d \in calls : d.rec = r => d.value <= x.typed /\ d.value < x.typed
  BY <1>3, <1>4, <1>7, <1>8 DEF Followed
<1>10. Followed(records', calls, r)
  BY <1>3, <1>4, <1>6, <1>7, <1>9 DEF Followed
<1>11. IsPending(r) /\ timer' /\ UNCHANGED <<pending, calls, flushes>>
  BY DEF IsPending, Extend
<1>. QED
  BY <1>2, <1>4, <1>5, <1>10, <1>11, Touched

LEMMA EmptiedKeeps ==
  ASSUME ModeInv, NEW r \in DOMAIN records, Emptied(r)
  PROVE  ModeInv'
<1>1. records \in Seq(Record)
  BY DEF ModeInv, Tracked, ModeTyped
<1>2. PICK z \in Record : z = records[r]
  BY <1>1
<1>. DEFINE x == [z EXCEPT !.empty = TRUE]
<1>3. /\ x \in Record /\ x.typed = z.typed /\ x.dirty = z.dirty /\ x.known = z.known /\ x.rows = z.rows
      /\ x.orphans = z.orphans /\ x.creating = z.creating /\ x.excused = z.excused /\ x.empty
  BY DEF Record
<1>4. records' = [records EXCEPT ![r] = x]
  BY <1>1, <1>2 DEF Emptied
<1>. HIDE DEF x
<1>5. records'[r] = x /\ Followed(records, calls, r)
  BY <1>1, <1>4 DEF ModeInv, Tracked
<1>6. Followed(records', calls, r) /\ ~Needy(x)
  BY <1>2, <1>3, <1>5 DEF Followed, Needy
<1>7. UNCHANGED <<timer, pending, calls, flushes>>
  BY DEF Emptied
<1>. QED
  BY <1>3, <1>4, <1>6, <1>7, Touched

\* A record is begun behind the others, and the one it takes the place of is sent.
LEMMA BeginKeeps ==
  ASSUME ModeInv, NEW k \in Kinds, Begin(k)
  PROVE  ModeInv'
<1>0. PICK n, A, S : n = Len(records) /\ A = Append(records, NewRecord) /\ S = {pending[k]}
  OBVIOUS
<1>1. /\ records \in Seq(Record) /\ calls \subseteq ModeCall(n) /\ n \in Nat /\ PointersOK(n)
      /\ DOMAIN records = 1 .. n
  BY <1>0, SeqFacts DEF ModeInv, Tracked, ModeTyped
<1>2. NewRecord \in Record
  BY DEF NewRecord, Record
<1>3. /\ A \in Seq(Record) /\ Len(A) = n + 1 /\ A[n + 1] = NewRecord /\ DOMAIN A = 1 .. n + 1
      /\ \A r \in 1 .. n : A[r] = records[r]
  BY <1>0, <1>1, <1>2
<1>4. \A c \in calls : c \in ModeCall(n + 1) /\ c.rec # n + 1 /\ c.rec \in 1 .. n
  <2>1. 1 .. n \subseteq 1 .. n + 1 /\ n + 1 \notin 1 .. n
    BY <1>1
  <2>. QED
    BY <1>1, <2>1 DEF ModeCall
<1>5. ASSUME NEW r \in 1 .. n + 1
      PROVE  Followed(A, calls, r)
  <2>1. CASE r \in 1 .. n
    <3>1. Followed(records, calls, r) /\ A[r] = records[r]
      BY <1>1, <1>3, <2>1 DEF ModeInv, Tracked
    <3>. QED
      BY <3>1 DEF Followed
  <2>2. CASE r = n + 1
    <3>1. A[r] = NewRecord /\ \A c \in calls : c.rec # r
      BY <1>3, <1>4, <2>2
    <3>. QED
      BY <3>1 DEF Followed, NewRecord
  <2>. QED
    BY <1>1, <2>1, <2>2
<1>6. Tracked(A, calls)
  BY <1>3, <1>4, <1>5 DEF Tracked, ModeTyped
<1>7. pending[k] \in 0 .. n /\ S \in SUBSET (0 .. Len(A)) /\ 0 \in 0 .. MaxOffs
  <2>1. pending[k] \in 0 .. n
    BY <1>1 DEF PointersOK
  <2>2. 0 .. n \subseteq 0 .. n + 1
    BY <1>1
  <2>3. 0 \in 0 .. MaxOffs
    BY SuggestModeConstants
  <2>. QED
    BY <1>0, <1>3, <2>1, <2>2, <2>3
<1>8. flushRecord(A, calls, S, 0)
  BY <1>0 DEF Begin
<1>9. /\ Tracked(records', calls') /\ DOMAIN records' = 1 .. n + 1 /\ Len(records') = n + 1
      /\ \A r \in 1 .. n + 1 : Needy(records'[r]) => Needy(A[r]) /\ r \notin S
  BY <1>3, <1>6, <1>7, <1>8, SendKeeps
<1>10. pending' = [pending EXCEPT ![k] = n + 1] /\ timer' /\ UNCHANGED flushes
  BY <1>9 DEF Begin
<1>11. PointersOK(n + 1)'
  <2>1. 0 .. n \subseteq 0 .. n + 1 /\ n + 1 \in 0 .. n + 1
    BY <1>1
  <2>2. pending' \in [Kinds -> 0 .. n + 1]
    BY <1>1, <1>10, <2>1 DEF PointersOK
  <2>. QED
    BY <1>1, <1>10, <2>2 DEF PointersOK
<1>12. ASSUME NEW r \in 1 .. n + 1, Needy(records'[r])
       PROVE  \E q \in Kinds : pending'[q] = r
  <2>1. CASE r = n + 1
    BY <1>1, <1>10, <2>1 DEF PointersOK
  <2>2. CASE r \in 1 .. n
    <3>1. Needy(records[r]) /\ r # pending[k]
      BY <1>0, <1>3, <1>9, <1>12, <2>2
    <3>2. PICK q \in Kinds : pending[q] = r
      BY <1>1, <2>2, <3>1 DEF ModeInv, AllPending, IsPending
    <3>3. pending'[q] = r
      BY <1>1, <1>10, <3>1, <3>2 DEF PointersOK
    <3>. QED
      BY <3>3
  <2>. QED
    BY <1>1, <2>1, <2>2
<1>13. AllPending(records)'
  BY <1>9, <1>12 DEF AllPending, IsPending
<1>. QED
  BY <1>9, <1>10, <1>11, <1>13 DEF ModeInv

LEMMA TimerKeeps ==
  ASSUME ModeInv, Timer
  PROVE  ModeInv'
<1>. DEFINE S == {pending[k] : k \in Kinds}
<1>1. Tracked(records, calls) /\ AllPending(records) /\ PointersOK(Len(records))
  BY DEF ModeInv
<1>2. S \in SUBSET (0 .. Len(records)) /\ 0 \in 0 .. MaxOffs
  <2>1. S \in SUBSET (0 .. Len(records))
    BY <1>1 DEF PointersOK
  <2>2. 0 \in 0 .. MaxOffs
    BY SuggestModeConstants
  <2>. QED
    BY <2>1, <2>2
<1>3. flushRecord(records, calls, S, 0) /\ UNCHANGED <<pending, flushes>>
  BY DEF Timer
<1>4. \A r \in DOMAIN records : Needy(records[r]) => r \in S
  BY <1>1 DEF AllPending, IsPending
<1>5. PointersOK(Len(records)) => /\ pending' \in [Kinds -> 0 .. Len(records)]
                                  /\ flushes' \in [1 .. MaxOffs -> {"not begun", "insert", "delete", "done"}]
  BY <1>3 DEF PointersOK
<1>. HIDE DEF S
<1>6. PICK R, C : R = records /\ C = calls
  OBVIOUS
<1>7. PointersOK(Len(R))'
  BY <1>1, <1>5, <1>6 DEF PointersOK
<1>. QED
  BY <1>1, <1>2, <1>3, <1>4, <1>6, <1>7, FlushKeeps

LEMMA FlushAllKeeps ==
  ASSUME ModeInv, NEW n \in 1 .. MaxOffs, flushAll(n)
  PROVE  ModeInv'
<1>1. PICK R, C, l : R = records /\ C = calls /\ l = Len(records)
  OBVIOUS
<1>2. Tracked(R, C) /\ AllPending(R) /\ PointersOK(l) /\ l = Len(R)
  BY <1>1 DEF ModeInv
<1>3. CASE flushRecord(R, C, {pending["insert"]}, n) /\ flushes' = [flushes EXCEPT ![n] = "insert"]
           /\ UNCHANGED pending
  <2>1. n \in 0 .. MaxOffs
    BY FlushNumber
  <2>2. {pending["insert"]} \in SUBSET (0 .. l) /\ pending \in [Kinds -> 0 .. l]
    BY <1>2 DEF Kinds, PointersOK
  <2>3. l \in Nat
    BY <1>2, SeqFacts DEF Tracked, ModeTyped
  <2>4. PointersOK(l)' /\ Flushing'
    BY <1>2, <1>3, <2>2, <2>3, PointersSet
  <2>. QED
    BY <1>2, <1>3, <2>1, <2>2, <2>4, FlushKeeps
<1>4. CASE FlushDelete(R, C, n)
  BY <1>2, <1>4, FlushDeleteKeeps
<1>. QED
  BY <1>1, <1>3, <1>4 DEF flushAll

LEMMA CallKeeps ==
  ASSUME ModeInv, NEW c \in calls, Answered(c) \/ Failed(c)
  PROVE  ModeInv'
<1>. DEFINE C == calls \ {c}
<1>1. c.flush \in 0 .. MaxOffs /\ UNCHANGED timer /\ c.rec \in DOMAIN records /\ c.rec # 0
  BY SeqFacts DEF ModeInv, Tracked, ModeTyped, ModeCall, Answered, Failed
<1>2. CASE Answered(c)
  <2>1. PICK R : R = [records EXCEPT ![c.rec] = AnsweredRecord(c)]
    OBVIOUS
  <2>2. /\ Tracked(R, C) /\ Len(R) = Len(records) /\ DOMAIN R = DOMAIN records
        /\ \A r \in DOMAIN records : Needy(R[r]) => Needy(records[r]) \/ (c.post /\ r = c.rec)
    BY <2>1, AnsweredKeeps
  <2>3. CASE flushRecord(R, C, Again(c), c.flush) /\ UNCHANGED <<pending, flushes>>
    <3>1. Again(c) \in SUBSET (0 .. Len(R))
      BY <1>1, <2>2, SeqFacts DEF Again, Tracked, ModeTyped
    <3>2. /\ Tracked(records', calls') /\ DOMAIN records' = DOMAIN R /\ Len(records') = Len(R)
          /\ \A r \in DOMAIN R : Needy(records'[r]) => Needy(R[r]) /\ r \notin Again(c)
      BY <1>1, <2>2, <2>3, <3>1, SendKeeps
    <3>3. \A r \in DOMAIN records : Needy(records'[r]) => Needy(records[r])
      BY <2>2, <3>2 DEF Again
    <3>4. AllPending(records)'
      BY <2>2, <2>3, <3>2, <3>3 DEF ModeInv, AllPending, IsPending
    <3>5. PICK l : l = Len(records)
      OBVIOUS
    <3>6. PointersOK(l)' /\ (Flushing' <=> Flushing)
      BY <2>3, <3>5 DEF ModeInv, PointersOK, Flushing
    <3>7. timer' \/ Flushing' \/ \A r \in DOMAIN records' : ~Needy(records'[r])
      BY <1>1, <2>2, <3>2, <3>3, <3>6 DEF ModeInv
    <3>. QED
      BY <2>2, <3>2, <3>4, <3>5, <3>6, <3>7 DEF ModeInv
  <2>4. CASE Sending(R, Again(c)) = {} /\ Returned(R, C, c.flush)
    <3>1. ~(c.post /\ Needy(R[c.rec]))
      BY <1>1, <2>4 DEF Again, Sending, Needy
    <3>2. \A r \in DOMAIN records : Needy(R[r]) => Needy(records[r])
      BY <2>2, <3>1
    <3>. QED
      BY <1>1, <2>2, <2>4, <3>2, ReturnedKeeps
  <2>. QED
    BY <1>2, <2>1, <2>3, <2>4 DEF Answered
<1>3. CASE Failed(c)
  <2>1. PICK done \in BOOLEAN : Returned([records EXCEPT ![c.rec] = FailedRecord(c, done)], C, c.flush)
    BY <1>3 DEF Failed
  <2>2. PICK R : R = [records EXCEPT ![c.rec] = FailedRecord(c, done)]
    OBVIOUS
  <2>3. /\ Tracked(R, C) /\ Len(R) = Len(records) /\ DOMAIN R = DOMAIN records
        /\ \A r \in DOMAIN records : Needy(R[r]) => Needy(records[r])
    BY <2>2, FailedKeeps
  <2>. QED
    BY <1>1, <2>1, <2>2, <2>3, ReturnedKeeps
<1>. QED
  BY <1>2, <1>3

LEMMA StillKeeps ==
  ASSUME ModeInv, UNCHANGED <<timer, pending, records, calls, flushes>>
  PROVE  ModeInv'
<1>1. PICK l : l = Len(records)
  OBVIOUS
<1>2. Tracked(records', calls')
  BY DEF ModeInv
<1>3. PointersOK(l)' /\ (Flushing' <=> Flushing)
  BY <1>1 DEF ModeInv, PointersOK, Flushing
<1>4. AllPending(records)'
  BY DEF ModeInv, AllPending, IsPending
<1>5. timer' \/ Flushing' \/ \A r \in DOMAIN records' : ~Needy(records'[r])
  BY <1>3 DEF ModeInv
<1>. QED
  BY <1>1, <1>2, <1>3, <1>4, <1>5 DEF ModeInv

LEMMA ModeStep == ModeInv /\ [SuggestModeNext]_suggestModeVars => ModeInv'
<1>. SUFFICES ASSUME ModeInv, [SuggestModeNext]_suggestModeVars PROVE ModeInv'
  OBVIOUS
<1>1. CASE \E k \in Kinds : Extend(k) \/ Begin(k)
  BY <1>1, ExtendKeeps, BeginKeeps
<1>2. CASE \E r \in DOMAIN records : Emptied(r)
  BY <1>2, EmptiedKeeps
<1>3. CASE Timer
  BY <1>3, TimerKeeps
<1>4. CASE setEnabled
  BY <1>4, StillKeeps DEF setEnabled
<1>5. CASE \E n \in 1 .. MaxOffs : flushAll(n)
  BY <1>5, FlushAllKeeps
<1>6. CASE \E c \in calls : Answered(c) \/ Failed(c)
  BY <1>6, CallKeeps
<1>7. CASE UNCHANGED suggestModeVars
  BY <1>7, StillKeeps DEF suggestModeVars
<1>. QED
  BY <1>1, <1>2, <1>3, <1>4, <1>5, <1>6, <1>7 DEF SuggestModeNext

LEMMA RecordedFollows == ModeInv => TypingIsRecorded
<1>. SUFFICES ASSUME ModeInv, NEW r \in DOMAIN records
              PROVE  /\ records[r].rows <= 1 + records[r].orphans
                     /\ Quiet => \/ /\ records[r].stored = records[r].typed
                                    /\ records[r].rows = 1 + records[r].orphans
                                 \/ records[r].empty \/ records[r].excused
  BY DEF TypingIsRecorded
<1>1. PICK x \in Record : x = records[r]
  BY DEF ModeInv, Tracked, ModeTyped
<1>2. x.rows = x.orphans + (IF x.known THEN 1 ELSE 0) /\ x.orphans \in Nat
  <2>1. Followed(records, calls, r)
    BY DEF ModeInv, Tracked
  <2>. QED
    BY <1>1, <2>1 DEF Followed, Record
<1>3. x.rows <= 1 + x.orphans /\ (x.known => x.rows = 1 + x.orphans)
  BY <1>2
<1>4. ASSUME Quiet, ~x.empty, ~x.excused
      PROVE  x.stored = x.typed /\ x.known
  <2>1. Followed(records, calls, r) /\ calls = {} /\ ~timer /\ ~Flushing
    BY <1>4 DEF ModeInv, Tracked, Quiet, Flushing
  <2>2. ~Needy(x)
    BY <1>1, <2>1 DEF ModeInv
  <2>3. ~x.creating
    BY <1>1, <2>1 DEF Followed
  <2>4. ~x.dirty
    BY <1>4, <2>2, <2>3 DEF Needy
  <2>. QED
    BY <1>1, <1>4, <2>1, <2>4 DEF Followed
<1>. QED
  BY <1>1, <1>3, <1>4

\* No flush and no answer, in any order, loses what was typed in suggest mode without a named
\* cause, nor makes a second row of one record (suggestMode.ts:71 and :83).
THEOREM TypingIsRecordedAlways == SuggestModeSpec => []TypingIsRecorded
BY ModeStart, ModeStep, RecordedFollows, PTL DEF SuggestModeSpec

-----------------------------------------------------------------------------
(***************************************************************************)
(* The limiter.  The windows of a key lie further apart than a period, the *)
(* one in the map is the last, and none admits more than the limit: an     *)
(* interval as long as the period meets two of them at most.               *)
(***************************************************************************)
Request == [key : Clients, at : Nat, window : Nat, number : Nat]

In(k, w) == {e \in log : e.key = k /\ e.window = w}

LimiterTyped ==
  /\ time \in Nat /\ time <= MaxTime /\ IsFiniteSet(log) /\ log \subseteq Request
  /\ DOMAIN windows \subseteq Clients
  /\ \A k \in DOMAIN windows : windows[k] \in [count : 1 .. Limit, reset : Nat]

Numbered(e) == /\ e.at <= time /\ e.at <= e.window /\ e.window <= e.at + Period
               /\ e.number < Cardinality(Of(e.key))

Apart == \A e, f \in log : e.key = f.key /\ e.window < f.window => e.window + Period < f.window

WindowIsLast ==
  \A e \in log : IF e.key \in DOMAIN windows THEN e.window <= windows[e.key].reset ELSE e.window < time

WindowCounts ==
  /\ \A k \in Clients, w \in Nat : Cardinality(In(k, w)) <= Limit
  /\ \A k \in DOMAIN windows : /\ Cardinality(In(k, windows[k].reset)) = windows[k].count
                               /\ Period <= windows[k].reset /\ windows[k].reset <= time + Period

RefusedIsFull ==
  \A k \in refused : k \in DOMAIN windows /\ time <= windows[k].reset /\ windows[k].count >= Limit

LimiterInv ==
  /\ LimiterTyped /\ \A e \in log : Numbered(e)
  /\ Apart /\ WindowIsLast /\ WindowCounts /\ RefusedIsFull

LEMMA LimiterStart == LimiterInit => LimiterInv
<1>. SUFFICES ASSUME LimiterInit PROVE LimiterInv
  OBVIOUS
<1>1. time = 0 /\ DOMAIN windows = {} /\ log = {} /\ refused = {}
  BY DEF LimiterInit
<1>2. \A k, w : Cardinality(In(k, w)) = 0
  <2>1. \A k, w : In(k, w) = {}
    BY <1>1 DEF In
  <2>. QED
    BY <2>1, FS_EmptySet
<1>3. Limit \in Nat /\ MaxTime \in Nat
  BY LimiterConstants
<1>4. LimiterTyped
  BY <1>1, <1>3, FS_EmptySet DEF LimiterTyped
<1>5. WindowCounts
  BY <1>1, <1>2, <1>3 DEF WindowCounts
<1>. QED
  BY <1>1, <1>4, <1>5 DEF LimiterInv, Apart, WindowIsLast, RefusedIsFull

\* A request is a new element of the log, of its key and of its window.
LEMMA AdmitCounts ==
  ASSUME LimiterInv, NEW k \in Clients, NEW w \in [count : 1 .. Limit, reset : Nat], Admit(k, w)
  PROVE  \E e \in Request :
           /\ e.key = k /\ e.at = time /\ e.window = w.reset /\ log' = log \cup {e}
           /\ IsFiniteSet(log') /\ e.number = Cardinality(Of(k))
           /\ Cardinality(Of(k)') = Cardinality(Of(k)) + 1 /\ Cardinality(Of(k)) \in Nat
           /\ Cardinality(In(k, w.reset)') = Cardinality(In(k, w.reset)) + 1
           /\ \A q : q # k => Of(q)' = Of(q)
           /\ \A q, v : q # k \/ v # w.reset => In(q, v)' = In(q, v)
<1>. DEFINE e == [key |-> k, at |-> time, window |-> w.reset, number |-> Cardinality(Of(k))]
<1>1. IsFiniteSet(log) /\ log \subseteq Request /\ \A f \in log : f.number < Cardinality(Of(f.key))
  BY DEF LimiterInv, LimiterTyped, Numbered
<1>2. IsFiniteSet(Of(k)) /\ IsFiniteSet(In(k, w.reset))
  BY <1>1, FS_Subset DEF Of, In
<1>3. Cardinality(Of(k)) \in Nat /\ Cardinality(In(k, w.reset)) \in Nat
  BY <1>2, FS_CardinalityType
<1>4. e \in Request /\ e.key = k /\ e.at = time /\ e.window = w.reset /\ e.number = Cardinality(Of(k))
  BY <1>3 DEF Request, LimiterInv, LimiterTyped
<1>5. log' = log \cup {e}
  BY DEF Admit
<1>. HIDE DEF e
<1>6. e \notin log
  BY <1>1, <1>3, <1>4
<1>7. Of(k)' = Of(k) \cup {e} /\ In(k, w.reset)' = In(k, w.reset) \cup {e}
  BY <1>4, <1>5 DEF Of, In
<1>8. e \notin Of(k) /\ e \notin In(k, w.reset)
  BY <1>6 DEF Of, In
<1>9. /\ Cardinality(Of(k) \cup {e}) = Cardinality(Of(k)) + 1
      /\ Cardinality(In(k, w.reset) \cup {e}) = Cardinality(In(k, w.reset)) + 1
      /\ IsFiniteSet(log \cup {e})
  BY <1>1, <1>2, <1>8, FS_AddElement
<1>10. /\ \A q : q # k => Of(q)' = Of(q)
       /\ \A q, v : q # k \/ v # w.reset => In(q, v)' = In(q, v)
  BY <1>4, <1>5 DEF Of, In
<1>. QED
  BY <1>3, <1>4, <1>5, <1>7, <1>9, <1>10

LEMMA WindowAdded ==
  ASSUME NEW f, NEW k, NEW w, NEW g, g = [q \in DOMAIN f \cup {k} |-> IF q = k THEN w ELSE f[q]]
  PROVE  /\ DOMAIN g = DOMAIN f \cup {k} /\ g[k] = w
         /\ \A q \in DOMAIN f : q # k => g[q] = f[q]
OBVIOUS

LEMMA AdmitKeeps ==
  ASSUME LimiterInv, NEW k \in Clients, NEW w \in [count : 1 .. Limit, reset : Nat], Admit(k, w),
         UNCHANGED time,
         time <= w.reset, Period <= w.reset, w.reset <= time + Period,
         Cardinality(In(k, w.reset)) + 1 = w.count,
         \A e \in log : e.key = k => e.window = w.reset \/ e.window + Period < w.reset
  PROVE  LimiterInv'
<1>1. PICK e \in Request :
           /\ e.key = k /\ e.at = time /\ e.window = w.reset /\ log' = log \cup {e}
           /\ IsFiniteSet(log') /\ e.number = Cardinality(Of(k))
           /\ Cardinality(Of(k)') = Cardinality(Of(k)) + 1 /\ Cardinality(Of(k)) \in Nat
           /\ Cardinality(In(k, w.reset)') = Cardinality(In(k, w.reset)) + 1
           /\ \A q : q # k => Of(q)' = Of(q)
           /\ \A q, v : q # k \/ v # w.reset => In(q, v)' = In(q, v)
  BY AdmitCounts
<1>2. PICK W : /\ W = windows' /\ DOMAIN W = DOMAIN windows \cup {k} /\ W[k] = w
               /\ \A q \in DOMAIN windows : q # k => W[q] = windows[q]
  BY WindowAdded DEF Admit
<1>3. w.count \in 1 .. Limit /\ w.reset \in Nat /\ Period \in Nat /\ Limit \in Nat /\ time \in Nat
  BY LimiterConstants DEF LimiterInv, LimiterTyped
<1>4. log \subseteq Request /\ \A f \in log : f.window \in Nat /\ f.number \in Nat /\ f.at \in Nat
  BY DEF LimiterInv, LimiterTyped, Request
<1>5. LimiterTyped'
  BY <1>1, <1>2 DEF LimiterInv, LimiterTyped
<1>6. ASSUME NEW f \in log' PROVE Numbered(f)'
  <2>1. CASE f = e
    BY <1>1, <1>3, <2>1 DEF Numbered
  <2>2. CASE f \in log
    <3>1. Numbered(f) /\ f.number \in Nat
      BY <1>4, <2>2 DEF LimiterInv
    <3>2. Cardinality(Of(f.key)') = Cardinality(Of(f.key)) \/ (f.key = k /\ f.number < Cardinality(Of(k)'))
      BY <1>1, <3>1 DEF Numbered
    <3>3. f.number < Cardinality(Of(f.key)')
      BY <3>1, <3>2 DEF Numbered
    <3>. QED
      BY <3>1, <3>3 DEF Numbered
  <2>. QED
    BY <1>1, <2>1, <2>2
<1>7. Apart'
  <2>1. \A f \in log : f.key = k => f.window = w.reset \/ f.window + Period < w.reset
    OBVIOUS
  <2>2. ASSUME NEW f \in log', NEW g \in log', f.key = g.key, f.window < g.window
        PROVE  f.window + Period < g.window
    <3>1. CASE f \in log /\ g \in log
      BY <2>2, <3>1 DEF LimiterInv, Apart
    <3>2. CASE f = e
      BY <1>1, <1>3, <1>4, <2>1, <2>2, <3>2
    <3>3. CASE f \in log /\ g = e
      BY <1>1, <1>3, <1>4, <2>1, <2>2, <3>3
    <3>. QED
      BY <1>1, <3>1, <3>2, <3>3
  <2>. QED
    BY <2>2 DEF Apart
<1>8. WindowIsLast'
  <2>1. ASSUME NEW f \in log'
        PROVE  IF f.key \in DOMAIN W THEN f.window <= W[f.key].reset ELSE f.window < time
    <3>1. CASE f.key = k
      BY <1>1, <1>2, <1>3, <1>4, <3>1
    <3>2. CASE f.key # k
      BY <1>1, <1>2, <3>2 DEF LimiterInv, WindowIsLast
    <3>. QED
      BY <3>1, <3>2
  <2>. QED
    BY <1>2, <2>1 DEF WindowIsLast
<1>9. WindowCounts'
  <2>1. ASSUME NEW q \in Clients, NEW v \in Nat PROVE Cardinality(In(q, v)') <= Limit
    <3>1. CASE q = k /\ v = w.reset
      BY <1>1, <1>3, <3>1
    <3>2. CASE q # k \/ v # w.reset
      BY <1>1, <3>2 DEF LimiterInv, WindowCounts
    <3>. QED
      BY <3>1, <3>2
  <2>2. ASSUME NEW q \in DOMAIN W
        PROVE  /\ Cardinality(In(q, W[q].reset)') = W[q].count
               /\ Period <= W[q].reset /\ W[q].reset <= time + Period
    <3>1. CASE q = k
      BY <1>1, <1>2, <3>1
    <3>2. CASE q # k
      BY <1>1, <1>2, <3>2 DEF LimiterInv, WindowCounts
    <3>. QED
      BY <3>1, <3>2
  <2>. QED
    BY <1>2, <2>1, <2>2 DEF WindowCounts
<1>10. RefusedIsFull'
  BY DEF Admit, RefusedIsFull
<1>. QED
  BY <1>5, <1>6, <1>7, <1>8, <1>9, <1>10 DEF LimiterInv
LEMMA AllowKeeps ==
  ASSUME LimiterInv, NEW k \in Clients, Allow(k)
  PROVE  LimiterInv'
<1>1. /\ time \in Nat /\ Limit \in Nat \ {0} /\ Period \in Nat \ {0} /\ log \subseteq Request
      /\ \A q \in DOMAIN windows : windows[q] \in [count : 1 .. Limit, reset : Nat]
      /\ UNCHANGED time
  BY LimiterConstants DEF LimiterInv, LimiterTyped, Allow
<1>2. \A e \in log : e.window \in Nat /\ e.key \in Clients
  BY <1>1 DEF Request
<1>3. CASE Expired(k) /\ Admit(k, [count |-> 1, reset |-> time + Period])
  <2>1. PICK w : w = [count |-> 1, reset |-> time + Period]
    OBVIOUS
  <2>2. w \in [count : 1 .. Limit, reset : Nat] /\ w.reset = time + Period /\ w.count = 1
    BY <1>1, <2>1
  <2>3. \A e \in log : e.key = k => e.window < time
    BY <1>1, <1>2, <1>3 DEF LimiterInv, WindowIsLast, Expired
  <2>4. \A e \in log : e.key = k => e.window + Period < w.reset
    BY <1>1, <1>2, <2>2, <2>3
  <2>5. In(k, w.reset) = {}
    <3>1. \A e \in log : ~(e.key = k /\ e.window = w.reset)
      BY <1>1, <1>2, <2>2, <2>4
    <3>. QED
      BY <3>1 DEF In
  <2>6. Cardinality(In(k, w.reset)) + 1 = w.count
    BY <2>2, <2>5, FS_EmptySet
  <2>7. time <= w.reset /\ Period <= w.reset /\ w.reset <= time + Period
    BY <1>1, <2>2
  <2>. QED
    BY <1>1, <1>3, <2>1, <2>2, <2>4, <2>6, <2>7, AdmitKeeps
<1>4. CASE /\ ~Expired(k) /\ windows[k].count < Limit
           /\ Admit(k, [windows[k] EXCEPT !.count = @ + 1])
  <2>1. k \in DOMAIN windows /\ ~(time > windows[k].reset)
    BY <1>4 DEF Expired
  <2>2. PICK w : w = [windows[k] EXCEPT !.count = windows[k].count + 1]
    OBVIOUS
  <2>3. w \in [count : 1 .. Limit, reset : Nat] /\ w.reset = windows[k].reset /\ w.count = windows[k].count + 1
    BY <1>1, <1>4, <2>1, <2>2
  <2>4. Cardinality(In(k, w.reset)) + 1 = w.count
    BY <2>1, <2>3 DEF LimiterInv, WindowCounts
  <2>5. time <= w.reset /\ Period <= w.reset /\ w.reset <= time + Period
    BY <1>1, <2>1, <2>3 DEF LimiterInv, WindowCounts
  <2>6. ASSUME NEW e \in log, e.key = k
        PROVE  e.window = w.reset \/ e.window + Period < w.reset
    <3>1. e.window <= w.reset /\ e.window \in Nat /\ w.reset \in Nat
      BY <1>2, <2>1, <2>3, <2>6 DEF LimiterInv, WindowIsLast
    <3>2. PICK f \in log : f.key = k /\ f.window = w.reset
      <4>1. In(k, w.reset) # {}
        <5>1. windows[k].count >= 1 /\ Cardinality(In(k, w.reset)) = windows[k].count
          BY <1>1, <2>1, <2>3 DEF LimiterInv, WindowCounts
        <5>. QED
          BY <5>1, FS_EmptySet
      <4>. QED
        BY <4>1 DEF In
    <3>. QED
      BY <2>6, <3>1, <3>2 DEF LimiterInv, Apart
  <2>7. Admit(k, w)
    BY <1>4, <2>2
  <2>. QED
    BY <1>1, <2>3, <2>4, <2>5, <2>6, <2>7, AdmitKeeps
<1>5. CASE /\ ~Expired(k) /\ windows[k].count >= Limit /\ refused' = {k} /\ UNCHANGED <<windows, log>>
  <2>1. k \in DOMAIN windows /\ time <= windows[k].reset
    BY <1>1, <1>5 DEF Expired
  <2>2. RefusedIsFull'
    BY <1>1, <1>5, <2>1 DEF RefusedIsFull
  <2>. QED
    BY <1>1, <1>5, <2>2 DEF LimiterInv, LimiterTyped, Numbered, Of, Apart, WindowIsLast, WindowCounts, In
<1>. QED
  BY <1>3, <1>4, <1>5 DEF Allow

\* The collector drops windows that are over: what they have admitted lies before now.
LEMMA CollectorKeeps ==
  ASSUME LimiterInv, gc
  PROVE  LimiterInv'
<1>1. UNCHANGED <<time, log>> /\ refused' = {}
  BY DEF gc
<1>2. /\ DOMAIN windows' \subseteq DOMAIN windows
      /\ \A k \in DOMAIN windows' : windows'[k] = windows[k]
      /\ \A k \in DOMAIN windows : k \notin DOMAIN windows' => time > windows[k].reset
  BY DEF gc, Restrict, Expired
<1>3. /\ time \in Nat /\ \A e \in log : e.window \in Nat
      /\ \A k \in DOMAIN windows : windows[k].reset \in Nat
  BY DEF LimiterInv, LimiterTyped, Request
<1>4. LimiterTyped'
  BY <1>1, <1>2 DEF LimiterInv, LimiterTyped
<1>5. \A e \in log' : Numbered(e)'
  BY <1>1 DEF LimiterInv, Numbered, Of
<1>6. WindowIsLast'
  BY <1>1, <1>2, <1>3 DEF LimiterInv, WindowIsLast
<1>7. WindowCounts'
  BY <1>1, <1>2 DEF LimiterInv, WindowCounts, In
<1>. QED
  BY <1>1, <1>4, <1>5, <1>6, <1>7 DEF LimiterInv, Apart, RefusedIsFull

LEMMA TickKeeps ==
  ASSUME LimiterInv, Tick
  PROVE  LimiterInv'
<1>1. /\ time' = time + 1 /\ time' <= MaxTime /\ refused' = {} /\ UNCHANGED <<windows, log>>
      /\ time \in Nat /\ Period \in Nat
  BY LimiterConstants DEF Tick, LimiterInv, LimiterTyped
<1>2. /\ \A e \in log : e.at \in Nat /\ e.window \in Nat
      /\ \A k \in DOMAIN windows : windows[k].reset \in Nat
  BY DEF LimiterInv, LimiterTyped, Request
<1>3. LimiterTyped'
  BY <1>1 DEF LimiterInv, LimiterTyped
<1>4. ASSUME NEW e \in log PROVE Numbered(e)'
  <2>1. Of(e.key)' = Of(e.key)
    BY <1>1 DEF Of
  <2>2. e.at <= time + 1
    BY <1>1, <1>2 DEF LimiterInv, Numbered
  <2>. QED
    BY <1>1, <2>1, <2>2 DEF LimiterInv, Numbered
<1>5. WindowIsLast'
  BY <1>1, <1>2 DEF LimiterInv, WindowIsLast
<1>6. WindowCounts'
  BY <1>1, <1>2 DEF LimiterInv, WindowCounts, In
<1>. QED
  BY <1>1, <1>3, <1>4, <1>5, <1>6 DEF LimiterInv, Apart, RefusedIsFull

LEMMA LimiterStep == LimiterInv /\ [LimiterNext]_limiterVars => LimiterInv'
<1>1. CASE LimiterInv /\ UNCHANGED limiterVars
  BY <1>1 DEF limiterVars, LimiterInv, LimiterTyped, Numbered, Of, Apart, WindowIsLast, WindowCounts, In, RefusedIsFull
<1>. QED
  BY <1>1, AllowKeeps, CollectorKeeps, TickKeeps DEF LimiterNext

\* An interval as long as the period meets two windows at most.
LEMMA TwoWindows ==
  ASSUME LimiterInv, NEW k \in Clients, NEW t \in Times
  PROVE  \E v, w \in Nat : Admitted(k, t, t + Period) \subseteq In(k, v) \cup In(k, w)
<1>. DEFINE A == Admitted(k, t, t + Period)
<1>1. Period \in Nat /\ t \in Nat
  BY LimiterConstants DEF Times
<1>2. A \subseteq log /\ \A e \in A : /\ e.key = k /\ e.window \in Nat
                                   /\ t <= e.window /\ e.window <= t + Period + Period
  <2>1. ASSUME NEW e \in A
        PROVE  e \in log /\ e.key = k /\ e.at \in Nat /\ e.window \in Nat /\ t <= e.at /\ e.at <= t + Period
    BY DEF Admitted, Of, LimiterInv, LimiterTyped, Request
  <2>2. ASSUME NEW e \in A
        PROVE  e.at <= e.window /\ e.window <= e.at + Period
    BY <2>1, <2>2 DEF LimiterInv, Numbered
  <2>. QED
    BY <1>1, <2>1, <2>2
<1>. HIDE DEF A
<1>3. CASE A = {}
  BY <1>3 DEF A
<1>4. CASE \E e \in A : \A f \in A : f.window = e.window
  <2>1. PICK e \in A : \A f \in A : f.window = e.window
    BY <1>4
  <2>2. A \subseteq In(k, e.window) \cup In(k, e.window)
    BY <1>2, <2>1 DEF In
  <2>. QED
    BY <1>2, <2>2 DEF A
<1>5. CASE \E e, f \in A : e.window # f.window
  <2>1. PICK e, f \in A : e.window < f.window
    BY <1>2, <1>5
  <2>2. e.window + Period < f.window
    BY <1>2, <2>1 DEF LimiterInv, Apart
  <2>3. ASSUME NEW g \in A, g.window # e.window, g.window # f.window
        PROVE  FALSE
    <3>1. CASE g.window < e.window
      <4>1. g.window + Period < e.window
        BY <1>2, <3>1 DEF LimiterInv, Apart
      <4>. QED
        BY <1>1, <1>2, <2>2, <4>1
    <3>2. CASE e.window < g.window /\ g.window < f.window
      <4>1. e.window + Period < g.window /\ g.window + Period < f.window
        BY <1>2, <3>2 DEF LimiterInv, Apart
      <4>. QED
        BY <1>1, <1>2, <4>1
    <3>3. CASE f.window < g.window
      <4>1. f.window + Period < g.window
        BY <1>2, <3>3 DEF LimiterInv, Apart
      <4>. QED
        BY <1>1, <1>2, <2>2, <4>1
    <3>. QED
      BY <1>2, <2>3, <3>1, <3>2, <3>3
  <2>4. A \subseteq In(k, e.window) \cup In(k, f.window)
    BY <1>2, <2>3 DEF In
  <2>. QED
    BY <1>2, <2>4 DEF A
<1>. QED
  BY <1>3, <1>4, <1>5

LEMMA LimitFollows == LimiterInv => LimitKept
<1>. SUFFICES ASSUME LimiterInv, NEW k \in Clients
              PROVE  /\ \A t \in Times : Cardinality(Admitted(k, t, t + Period)) <= 2 * Limit
                     /\ k \in refused => \E t \in Times : /\ t + Period >= time
                                                      /\ Cardinality(Admitted(k, t, time)) >= Limit
  BY DEF LimitKept
<1>0. IsFiniteSet(log) /\ \A q, w : IsFiniteSet(In(q, w)) /\ Cardinality(In(q, w)) \in Nat
  <2>1. IsFiniteSet(log)
    BY DEF LimiterInv, LimiterTyped
  <2>2. \A q, w : In(q, w) \in SUBSET log
    BY DEF In
  <2>. QED
    BY <2>1, <2>2, FS_Subset, FS_CardinalityType
<1>1. ASSUME NEW t \in Times
      PROVE  Cardinality(Admitted(k, t, t + Period)) <= 2 * Limit
  <2>. DEFINE A == Admitted(k, t, t + Period)
  <2>1. PICK v, w \in Nat : A \subseteq In(k, v) \cup In(k, w)
    BY TwoWindows
  <2>. HIDE DEF A
  <2>2. Cardinality(In(k, v)) <= Limit /\ Cardinality(In(k, w)) <= Limit
    BY DEF LimiterInv, WindowCounts
  <2>. DEFINE I == In(k, v)
              J == In(k, w)
  <2>3. /\ IsFiniteSet(I) /\ IsFiniteSet(J) /\ IsFiniteSet(I \cap J) /\ Cardinality(I \cap J) \in Nat
        /\ Cardinality(I) \in Nat /\ Cardinality(J) \in Nat
    BY <1>0, FS_Intersection, FS_CardinalityType
  <2>. HIDE DEF I, J
  <2>4. IsFiniteSet(I \cup J) /\ Cardinality(I \cup J) = Cardinality(I) + Cardinality(J) - Cardinality(I \cap J)
    BY <2>3, FS_Union
  <2>5. IsFiniteSet(A) /\ Cardinality(A) <= Cardinality(I \cup J)
    BY <2>1, <2>4, FS_Subset DEF I, J
  <2>6. Cardinality(A) \in Nat
    BY <2>5, FS_CardinalityType
  <2>7. Cardinality(A) <= 2 * Limit
    BY <2>2, <2>3, <2>4, <2>5, <2>6, LimiterConstants DEF I, J
  <2>. QED
    BY <2>7 DEF A
<1>2. ASSUME k \in refused
      PROVE  \E t \in Times : t + Period >= time /\ Cardinality(Admitted(k, t, time)) >= Limit
  <2>1. /\ k \in DOMAIN windows /\ time <= windows[k].reset /\ windows[k].count >= Limit
        /\ Cardinality(In(k, windows[k].reset)) = windows[k].count
        /\ Period <= windows[k].reset /\ windows[k].reset <= time + Period
        /\ time \in Nat /\ time <= MaxTime /\ windows[k].reset \in Nat
    BY <1>2 DEF LimiterInv, LimiterTyped, RefusedIsFull, WindowCounts
  <2>2. PICK r \in Nat : r = windows[k].reset
    BY <2>1
  <2>. DEFINE t == r - Period
  <2>3. t \in Times /\ t + Period = r
    BY <2>1, <2>2, LimiterConstants DEF Times
  <2>. HIDE DEF t
  <2>4. In(k, r) \in SUBSET Admitted(k, t, time)
    <3>1. ASSUME NEW e \in In(k, r)
          PROVE  e \in Of(k) /\ t <= e.at /\ e.at <= time
      <4>1. e \in log /\ e.key = k /\ e.window = r /\ Numbered(e) /\ e \in Request
        BY DEF In, LimiterInv, LimiterTyped
      <4>2. e.at <= time /\ r <= e.at + Period /\ e.at \in Nat
        BY <4>1 DEF Numbered, Request
      <4>. QED
        BY <2>2, <2>3, <4>1, <4>2, LimiterConstants DEF Of, Times
    <3>. QED
      BY <3>1 DEF Admitted
  <2>5. IsFiniteSet(Admitted(k, t, time))
    <3>1. Admitted(k, t, time) \in SUBSET log
      BY DEF Admitted, Of
    <3>. QED
      BY <1>0, <3>1, FS_Subset
  <2>6. Cardinality(In(k, r)) <= Cardinality(Admitted(k, t, time)) /\ Cardinality(Admitted(k, t, time)) \in Nat
    BY <2>4, <2>5, FS_Subset, FS_CardinalityType
  <2>7. Cardinality(Admitted(k, t, time)) >= Limit /\ t + Period >= time
    BY <1>0, <2>1, <2>2, <2>3, <2>6, LimiterConstants
  <2>. QED
    BY <2>3, <2>7
<1>. QED
  BY <1>1, <1>2

\* No interval as long as the period admits more than twice the limit, and nobody is refused
\* who has not used it up, for any keys, limit, period and calls of the collector
\* (ratelimit.go:26, :33 and :50).
THEOREM LimitKeptAlways == LimiterSpec => []LimitKept
BY LimiterStart, LimiterStep, LimitFollows, PTL DEF LimiterSpec
==============================================================================
