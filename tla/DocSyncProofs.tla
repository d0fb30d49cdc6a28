---------------------------- MODULE DocSyncProofs ----------------------------
(***************************************************************************)
(* The live document of a file, for any number of tabs, edits, restarts    *)
(* and failures.  Three arguments: a file is seeded a second time only     *)
(* when nothing is stored of its document and the document is gone, so     *)
(* never before a drop; the document of the sidecar that runs contains     *)
(* what is stored, and so does the one store it has under way; the mirror  *)
(* is what is stored, or is about to be written.                           *)
(***************************************************************************)
EXTENDS DocSync, FiniteSetTheorems, TLAPS

\* A PUT carries a document, and the incarnations to come have none.
Puts ==
  \A g \in Sidecars :
    /\ put[g] # NoPut => put[g].pc # "none" /\ put[g].state # NoDoc
    /\ g > sidecar => put[g] = NoPut

\* Whatever a document shows of the initial text was seeded.
Within(doc) == \A i \in Nat : <<"seed", i>> \in doc => i \in 1 .. seeds

AllWithin ==
  /\ Within(mem) /\ Within(yjs) /\ Within(mirror)
  /\ \A t \in Tabs : Within(replica[t])
  /\ \A g \in Sidecars : Within(put[g].state)

\* Before the first seed there is nothing; after it, and as long as nothing is dropped, the
\* file is in memory or stored, so that nobody seeds it again.
NothingYet ==
  seeds = 0 => /\ mem = NoDoc /\ yjs = NoDoc
               /\ \A t \in Tabs : replica[t] = {}
               /\ \A g \in Sidecars : put[g] = NoPut

SeededOnce ==
  drops = 0 => /\ seeds <= 1
               /\ row /\ seeds > 0 => mem # NoDoc \/ yjs # NoDoc
               /\ row /\ load = "content" => seeds = 0

Seeding == AllWithin /\ NothingYet /\ SeededOnce

\* As long as no PUT has outlived its sidecar, memory and store only grow.
Kept ==
  ~stray =>
    /\ \A g \in Sidecars : g # sidecar => put[g] = NoPut
    /\ mem # NoDoc => yjs \subseteq mem
    /\ put[sidecar].state \subseteq mem
    /\ put[sidecar].pc = "state" => yjs \subseteq put[sidecar].state
    /\ load = "content" => yjs = NoDoc

Mirrored ==
  row /\ ~stray =>
    /\ put[sidecar].pc = "content" => put[sidecar].state = yjs
    /\ yjs # NoDoc /\ failures = 0 /\ put[sidecar].pc # "content" => mirror = yjs

IInv == TypeOK /\ Puts /\ Seeding /\ Kept /\ Mirrored

LEMMA Blank == NoPut.pc = "none" /\ NoPut.state = NoDoc
BY DEF NoPut

PutRecord == [pc : {"none", "state", "content"}, state : SUBSET Updates]

LEMMA Members ==
  /\ NoPut \in PutRecord
  /\ \A e \in Edits : <<"edit", e>> \in Updates
  /\ \A n \in Nat : <<"seed", n>> \in Updates
BY DEF PutRecord, NoPut, NoDoc, Updates, Seeds

\* What the end of a PUT does to the PUTs under way.
LEMMA Ends ==
  ASSUME TypeOK, NEW g \in Sidecars, Over(g)
  PROVE  /\ put' \in [Sidecars -> PutRecord] /\ put'[g] = NoPut
         /\ \A h \in Sidecars : h # g => put'[h] = put[h]
<1>1. put \in [Sidecars -> PutRecord]
  BY DEF TypeOK, PutRecord
<1> QED
  BY <1>1, Members DEF Over

LEMMA Start == Init => IInv
<1> SUFFICES ASSUME Init PROVE IInv
  OBVIOUS
<1>1. TypeOK
  <2>1. NoPut \in [pc : {"none", "state", "content"}, state : SUBSET Updates]
    BY DEF NoPut, NoDoc
  <2>2. put \in [Sidecars -> [pc : {"none", "state", "content"}, state : SUBSET Updates]]
    BY <2>1 DEF Init
  <2>3. sidecar \in Sidecars /\ put[sidecar] = NoPut
    BY DocSyncConstants DEF Init, Sidecars
  <2> QED
    BY <2>2, <2>3 DEF Init, TypeOK, NoDoc
<1>2. \A g \in Sidecars : put[g] = NoPut
  BY DEF Init
<1>3. Puts /\ Kept
  BY <1>2, DocSyncConstants, Blank DEF Init, Puts, Kept, Sidecars, NoDoc
<1>4. Seeding
  BY <1>2, Blank DEF Init, Seeding, AllWithin, NothingYet, SeededOnce, Within, NoDoc
<1>5. Mirrored
  <2>1. put[sidecar] = NoPut /\ yjs = NoDoc
    BY <1>2, DocSyncConstants DEF Init, Sidecars
  <2> QED
    BY <2>1, Blank DEF Mirrored
<1> QED
  BY <1>1, <1>3, <1>4, <1>5 DEF IInv

LEMMA Step == IInv /\ [Next]_vars => IInv'
<1> SUFFICES ASSUME IInv, [Next]_vars PROVE IInv'
  OBVIOUS
<1> USE DEF IInv, NoDoc
<1>1. CASE UNCHANGED vars
  BY <1>1 DEF vars, stored, clients, history, TypeOK, Puts, Seeding, AllWithin, NothingYet,
              SeededOnce, Within, Kept, Mirrored
<1>2. ASSUME NEW t \in Tabs, Connect(t) PROVE IInv'
  <2>1. TypeOK'
    BY <1>2, Blank DEF Connect, stored, clients, history, TypeOK
  <2>2. Puts'
    BY <1>2, Blank DEF Connect, stored, clients, history, TypeOK, Puts
  <2>3. Seeding'
    BY <1>2, Blank DEF Connect, stored, clients, history, TypeOK, Puts, Seeding, AllWithin, NothingYet, SeededOnce, Within
  <2>4. Kept'
    BY <1>2, Blank DEF Connect, stored, clients, history, TypeOK, Puts, Kept
  <2>5. Mirrored'
    BY <1>2, Blank DEF Connect, stored, clients, history, TypeOK, Puts, Kept, Mirrored
  <2> QED
    BY <2>1, <2>2, <2>3, <2>4, <2>5
<1>3. ASSUME NEW t \in Tabs, Disconnect(t) PROVE IInv'
  <2>1. TypeOK'
    BY <1>3, Blank DEF Disconnect, stored, clients, history, TypeOK
  <2>2. Puts'
    BY <1>3, Blank DEF Disconnect, stored, clients, history, TypeOK, Puts
  <2>3. Seeding'
    BY <1>3, Blank DEF Disconnect, stored, clients, history, TypeOK, Puts, Seeding, AllWithin, NothingYet, SeededOnce, Within
  <2>4. Kept'
    BY <1>3, Blank DEF Disconnect, stored, clients, history, TypeOK, Puts, Kept
  <2>5. Mirrored'
    BY <1>3, Blank DEF Disconnect, stored, clients, history, TypeOK, Puts, Kept, Mirrored
  <2> QED
    BY <2>1, <2>2, <2>3, <2>4, <2>5
<1>4. ASSUME NEW t \in Tabs, CloseTab(t) PROVE IInv'
  <2>1. TypeOK'
    BY <1>4, Blank DEF CloseTab, stored, clients, history, TypeOK
  <2>2. Puts'
    BY <1>4, Blank DEF CloseTab, stored, clients, history, TypeOK, Puts
  <2>3. Seeding'
    BY <1>4, Blank DEF CloseTab, stored, clients, history, TypeOK, Puts, Seeding, AllWithin, NothingYet, SeededOnce, Within
  <2>4. Kept'
    BY <1>4, Blank DEF CloseTab, stored, clients, history, TypeOK, Puts, Kept
  <2>5. Mirrored'
    BY <1>4, Blank DEF CloseTab, stored, clients, history, TypeOK, Puts, Kept, Mirrored
  <2> QED
    BY <2>1, <2>2, <2>3, <2>4, <2>5
<1>5. ASSUME NEW t \in Tabs, Receive(t) PROVE IInv'
  <2>1. TypeOK'
    BY <1>5, Blank DEF Receive, stored, clients, history, TypeOK
  <2>2. Puts'
    BY <1>5, Blank DEF Receive, stored, clients, history, TypeOK, Puts
  <2>3. Seeding'
    BY <1>5, Blank DEF Receive, stored, clients, history, TypeOK, Puts, Seeding, AllWithin, NothingYet, SeededOnce, Within
  <2>4. Kept'
    BY <1>5, Blank DEF Receive, stored, clients, history, TypeOK, Puts, Kept
  <2>5. Mirrored'
    BY <1>5, Blank DEF Receive, stored, clients, history, TypeOK, Puts, Kept, Mirrored
  <2> QED
    BY <2>1, <2>2, <2>3, <2>4, <2>5
<1>6. ASSUME NEW t \in Tabs, NEW e \in Edits, Type(t, e) PROVE IInv'
  <2>1. TypeOK'
    BY <1>6, Members DEF Type, stored, clients, history, TypeOK
  <2>2. Puts'
    BY <1>6, Blank DEF Type, stored, clients, history, TypeOK, Puts
  <2>3. Seeding'
    BY <1>6, Blank DEF Type, stored, clients, history, TypeOK, Puts, Seeding, AllWithin, NothingYet, SeededOnce, Within
  <2>4. Kept'
    BY <1>6, Blank DEF Type, stored, clients, history, TypeOK, Puts, Kept
  <2>5. Mirrored'
    BY <1>6, Blank DEF Type, stored, clients, history, TypeOK, Puts, Kept, Mirrored
  <2> QED
    BY <2>1, <2>2, <2>3, <2>4, <2>5
<1>7. ASSUME NEW t \in Tabs, Send(t) PROVE IInv'
  <2>1. TypeOK'
    BY <1>7, Blank DEF Send, Changed, stored, clients, history, TypeOK
  <2>2. Puts'
    BY <1>7, Blank DEF Send, Changed, stored, clients, history, TypeOK, Puts
  <2>3. Seeding'
    BY <1>7, Blank DEF Send, Changed, stored, clients, history, TypeOK, Puts, Seeding, AllWithin, NothingYet, SeededOnce, Within
  <2>4. Kept'
    BY <1>7, Blank DEF Send, Changed, stored, clients, history, TypeOK, Puts, Kept
  <2>5. Mirrored'
    BY <1>7, Blank DEF Send, Changed, stored, clients, history, TypeOK, Puts, Kept, Mirrored
  <2> QED
    BY <2>1, <2>2, <2>3, <2>4, <2>5
<1>8. ASSUME NEW e \in Edits, withDoc(e) PROVE IInv'
  <2>1. TypeOK'
    BY <1>8, Members DEF withDoc, Changed, stored, clients, history, TypeOK
  <2>2. Puts'
    BY <1>8, Blank DEF withDoc, Changed, stored, clients, history, TypeOK, Puts
  <2>3. Seeding'
    BY <1>8, Blank DEF withDoc, Changed, stored, clients, history, TypeOK, Puts, Seeding, AllWithin, NothingYet, SeededOnce, Within
  <2>4. Kept'
    BY <1>8, Blank DEF withDoc, Changed, stored, clients, history, TypeOK, Puts, Kept
  <2>5. Mirrored'
    BY <1>8, Blank DEF withDoc, Changed, stored, clients, history, TypeOK, Puts, Kept, Mirrored
  <2> QED
    BY <2>1, <2>2, <2>3, <2>4, <2>5
<1>9. ASSUME onLoadDocument PROVE IInv'
  <2>1. TypeOK'
    BY <1>9, Blank DEF onLoadDocument, stored, clients, history, TypeOK
  <2>2. Puts'
    BY <1>9, Blank DEF onLoadDocument, stored, clients, history, TypeOK, Puts
  <2>3. Seeding'
    BY <1>9, Blank DEF onLoadDocument, stored, clients, history, TypeOK, Puts, Seeding, AllWithin, NothingYet, SeededOnce, Within
  <2>4. Kept'
    BY <1>9, Blank DEF onLoadDocument, stored, clients, history, TypeOK, Puts, Kept
  <2>5. Mirrored'
    BY <1>9, Blank DEF onLoadDocument, stored, clients, history, TypeOK, Puts, Kept, Mirrored
  <2> QED
    BY <2>1, <2>2, <2>3, <2>4, <2>5
<1>10. ASSUME GetState PROVE IInv'
  <2>1. TypeOK'
    BY <1>10, Blank DEF GetState, stored, clients, history, TypeOK
  <2>2. Puts'
    BY <1>10, Blank DEF GetState, stored, clients, history, TypeOK, Puts
  <2>3. Seeding'
    BY <1>10, Blank DEF GetState, stored, clients, history, TypeOK, Puts, Seeding, AllWithin, NothingYet, SeededOnce, Within
  <2>4. Kept'
    BY <1>10, Blank DEF GetState, stored, clients, history, TypeOK, Puts, Kept
  <2>5. Mirrored'
    BY <1>10, Blank DEF GetState, stored, clients, history, TypeOK, Puts, Kept, Mirrored
  <2> QED
    BY <2>1, <2>2, <2>3, <2>4, <2>5
<1>11. ASSUME GetContent PROVE IInv'
  <2>1. TypeOK'
    <3>1. seeds + 1 \in Nat
      BY DEF TypeOK
    <3>2. mem' \subseteq Updates
      BY <1>11, <3>1, Members DEF GetContent, TypeOK
    <3> QED
      BY <1>11, <3>1, <3>2 DEF GetContent, stored, clients, history, TypeOK
  <2>2. Puts'
    BY <1>11, Blank DEF GetContent, stored, clients, history, TypeOK, Puts
  <2>3. Seeding'
    <3>1. CASE ~row
      BY <1>11, <3>1 DEF GetContent, stored, clients, Seeding, AllWithin, NothingYet, SeededOnce, Within
    <3>2. CASE row
      <4>1. /\ seeds' = seeds + 1 /\ mem' = {<<"seed", seeds + 1>>} /\ load' = "no"
            /\ seeds \in Nat /\ load = "content"
            /\ UNCHANGED <<row, yjs, mirror, put, replica, drops>>
        BY <1>11, <3>2 DEF GetContent, stored, clients, TypeOK
      <4>2. AllWithin'
        BY <4>1 DEF Seeding, AllWithin, Within
      <4>3. NothingYet' /\ SeededOnce'
        BY <3>2, <4>1 DEF Seeding, NothingYet, SeededOnce
      <4> QED
        BY <4>2, <4>3 DEF Seeding
    <3> QED
      BY <3>1, <3>2
  <2>4. Kept'
    BY <1>11, Blank DEF GetContent, stored, clients, history, TypeOK, Puts, Kept
  <2>5. Mirrored'
    BY <1>11, Blank DEF GetContent, stored, clients, history, TypeOK, Puts, Kept, Mirrored
  <2> QED
    BY <2>1, <2>2, <2>3, <2>4, <2>5
<1>12. ASSUME onStoreDocument PROVE IInv'
  <2>1. TypeOK'
    BY <1>12, Blank DEF onStoreDocument, stored, clients, history, TypeOK
  <2>2. Puts'
    <3>1. /\ put'[sidecar].pc = "state" /\ put'[sidecar].state # NoDoc
          /\ \A g \in Sidecars : g # sidecar => put'[g] = put[g]
          /\ sidecar' = sidecar /\ sidecar \in Sidecars
      BY <1>12 DEF onStoreDocument, TypeOK
    <3>2. sidecar \in Nat
      BY <3>1, DocSyncConstants DEF Sidecars
    <3>3. \A g \in Sidecars : g > sidecar => g # sidecar
      BY <3>2, DocSyncConstants DEF Sidecars
    <3>4. NoPut.pc = "none"
      BY DEF NoPut
    <3> QED
      BY <3>1, <3>3, <3>4 DEF Puts
  <2>3. Seeding'
    BY <1>12, Blank DEF onStoreDocument, stored, clients, history, TypeOK, Puts, Seeding, AllWithin, NothingYet, SeededOnce, Within
  <2>4. Kept'
    BY <1>12, Blank DEF onStoreDocument, stored, clients, history, TypeOK, Puts, Kept
  <2>5. Mirrored'
    BY <1>12, Blank DEF onStoreDocument, stored, clients, history, TypeOK, Puts, Kept, Mirrored
  <2> QED
    BY <2>1, <2>2, <2>3, <2>4, <2>5
<1>13. ASSUME NEW g \in Sidecars, UpsertYjsState(g) PROVE IInv'
  <2>1. TypeOK'
    BY <1>13, Blank DEF UpsertYjsState, Goto, stored, clients, history, TypeOK
  <2>2. Puts'
    BY <1>13, Blank DEF UpsertYjsState, Goto, stored, clients, history, TypeOK, Puts
  <2>3. Seeding'
    BY <1>13, Blank DEF UpsertYjsState, Goto, stored, clients, history, TypeOK, Puts, Seeding, AllWithin, NothingYet, SeededOnce, Within
  <2>4. Kept'
    BY <1>13, Blank DEF UpsertYjsState, Goto, stored, clients, history, TypeOK, Puts, Kept
  <2>5. Mirrored'
    BY <1>13, Blank DEF UpsertYjsState, Goto, stored, clients, history, TypeOK, Puts, Kept, Mirrored
  <2> QED
    BY <2>1, <2>2, <2>3, <2>4, <2>5
<1>14. ASSUME NEW g \in Sidecars, UpsertFileContent(g) PROVE IInv'
  <2>1. TypeOK'
    <3>1. mirror' \subseteq Updates
      BY <1>14 DEF UpsertFileContent, TypeOK
    <3> QED
      BY <1>14, <3>1, Ends DEF UpsertFileContent, clients, history, TypeOK, PutRecord
  <2>2. Puts'
    BY <1>14, Blank DEF UpsertFileContent, Over, stored, clients, history, TypeOK, Puts
  <2>3. Seeding'
    BY <1>14, Blank DEF UpsertFileContent, Over, stored, clients, history, TypeOK, Puts, Seeding, AllWithin, NothingYet, SeededOnce, Within
  <2>4. Kept'
    BY <1>14, Blank DEF UpsertFileContent, Over, stored, clients, history, TypeOK, Puts, Kept
  <2>5. Mirrored'
    <3>1. UNCHANGED <<row, yjs, failures, stray>> /\ mirror' = put[g].state /\ put[g].pc = "content"
      BY <1>14 DEF UpsertFileContent, history
    <3>2. ASSUME row, ~stray PROVE g = sidecar /\ mirror' = yjs
      BY <3>1, <3>2, Blank DEF Kept, Mirrored
    <3> QED
      BY <1>14, <3>1, <3>2, Blank DEF UpsertFileContent, Over, Mirrored, TypeOK
  <2> QED
    BY <2>1, <2>2, <2>3, <2>4, <2>5
<1>15. ASSUME NEW g \in Sidecars, PutRefused(g) PROVE IInv'
  <2>1. TypeOK'
    BY <1>15, Ends DEF PutRefused, stored, clients, history, TypeOK, PutRecord
  <2>2. Puts'
    BY <1>15, Blank DEF PutRefused, Over, stored, clients, history, TypeOK, Puts
  <2>3. Seeding'
    BY <1>15, Blank DEF PutRefused, Over, stored, clients, history, TypeOK, Puts, Seeding, AllWithin, NothingYet, SeededOnce, Within
  <2>4. Kept'
    BY <1>15, Blank DEF PutRefused, Over, stored, clients, history, TypeOK, Puts, Kept
  <2>5. Mirrored'
    BY <1>15, Blank DEF PutRefused, Over, stored, clients, history, TypeOK, Puts, Kept, Mirrored
  <2> QED
    BY <2>1, <2>2, <2>3, <2>4, <2>5
<1>16. ASSUME NEW g \in Sidecars, PutFails(g) PROVE IInv'
  <2>1. TypeOK'
    BY <1>16, Ends DEF PutFails, stored, clients, history, TypeOK, PutRecord
  <2>2. Puts'
    BY <1>16, Blank DEF PutFails, Over, stored, clients, history, TypeOK, Puts
  <2>3. Seeding'
    BY <1>16, Blank DEF PutFails, Over, stored, clients, history, TypeOK, Puts, Seeding, AllWithin, NothingYet, SeededOnce, Within
  <2>4. Kept'
    BY <1>16, Blank DEF PutFails, Over, stored, clients, history, TypeOK, Puts, Kept
  <2>5. Mirrored'
    BY <1>16, Blank DEF PutFails, Over, stored, clients, history, TypeOK, Puts, Kept, Mirrored
  <2> QED
    BY <2>1, <2>2, <2>3, <2>4, <2>5
<1>17. ASSUME NEW g \in Sidecars, PutCancelled(g) PROVE IInv'
  <2>1. TypeOK'
    BY <1>17, Ends DEF PutCancelled, stored, clients, history, TypeOK, PutRecord
  <2>2. Puts'
    BY <1>17, Blank DEF PutCancelled, Over, stored, clients, history, TypeOK, Puts
  <2>3. Seeding'
    BY <1>17, Blank DEF PutCancelled, Over, stored, clients, history, TypeOK, Puts, Seeding, AllWithin, NothingYet, SeededOnce, Within
  <2>4. Kept'
    BY <1>17, Blank DEF PutCancelled, Over, stored, clients, history, TypeOK, Puts, Kept
  <2>5. Mirrored'
    BY <1>17, Blank DEF PutCancelled, Over, stored, clients, history, TypeOK, Puts, Kept, Mirrored
  <2> QED
    BY <2>1, <2>2, <2>3, <2>4, <2>5
<1>18. ASSUME Unload PROVE IInv'
  <2>1. TypeOK'
    BY <1>18, Blank DEF Unload, Dropped, stored, clients, history, TypeOK
  <2>2. Puts'
    BY <1>18, Blank DEF Unload, Dropped, stored, clients, history, TypeOK, Puts
  <2>3. Seeding'
    BY <1>18, Blank DEF Unload, Dropped, stored, clients, history, TypeOK, Puts, Seeding, AllWithin, NothingYet, SeededOnce, Within
  <2>4. Kept'
    BY <1>18, Blank DEF Unload, Dropped, stored, clients, history, TypeOK, Puts, Kept
  <2>5. Mirrored'
    BY <1>18, Blank DEF Unload, Dropped, stored, clients, history, TypeOK, Puts, Kept, Mirrored
  <2> QED
    BY <2>1, <2>2, <2>3, <2>4, <2>5
<1>19. ASSUME Crash PROVE IInv'
  <2>1. TypeOK'
    <3>1. sidecar \in Sidecars /\ sidecar' \in Sidecars /\ sidecar' > sidecar
      BY <1>19, DocSyncConstants DEF Crash, TypeOK, Sidecars
    <3>2. put[sidecar'] = NoPut
      BY <3>1 DEF Puts
    <3>3. drops' \in Nat /\ stray' \in BOOLEAN
      BY <1>19 DEF Crash, Dropped, TypeOK
    <3> QED
      BY <1>19, <3>1, <3>2, <3>3 DEF Crash, stored, TypeOK
  <2>2. Puts'
    BY <1>19, DocSyncConstants DEF Crash, TypeOK, Sidecars, Puts
  <2>3. Seeding'
    BY <1>19, Blank DEF Crash, Dropped, stored, clients, history, TypeOK, Puts, Seeding, AllWithin, NothingYet, SeededOnce, Within
  <2>4. Kept'
    <3> SUFFICES ASSUME ~stray' PROVE Kept'
      BY DEF Kept
    <3>1. ~stray /\ put[sidecar] = NoPut
      BY <1>19 DEF Crash, TypeOK
    <3>2. \A g \in Sidecars : put[g] = NoPut
      BY <3>1 DEF Kept
    <3> QED
      BY <1>19, <2>1, <3>2, Blank DEF Crash, TypeOK, Kept
  <2>5. Mirrored'
    <3> SUFFICES ASSUME ~stray' PROVE Mirrored'
      BY DEF Mirrored
    <3>1. ~stray /\ put[sidecar] = NoPut /\ sidecar' = sidecar + 1
      BY <1>19 DEF Crash
    <3>2. sidecar' \in Sidecars /\ sidecar' # sidecar
      BY <2>1, <3>1 DEF TypeOK, Sidecars
    <3>3. put[sidecar'] = NoPut
      BY <3>1, <3>2 DEF Kept
    <3> QED
      BY <1>19, <3>1, <3>3, Blank DEF Crash, stored, Mirrored
  <2> QED
    BY <2>1, <2>2, <2>3, <2>4, <2>5
<1>20. ASSUME DeleteFile PROVE IInv'
  <2>1. TypeOK'
    BY <1>20, Blank DEF DeleteFile, stored, clients, history, TypeOK
  <2>2. Puts'
    BY <1>20, Blank DEF DeleteFile, stored, clients, history, TypeOK, Puts
  <2>3. Seeding'
    BY <1>20, Blank DEF DeleteFile, stored, clients, history, TypeOK, Puts, Seeding, AllWithin, NothingYet, SeededOnce, Within
  <2>4. Kept'
    BY <1>20, Blank DEF DeleteFile, stored, clients, history, TypeOK, Puts, Kept
  <2>5. Mirrored'
    BY <1>20, Blank DEF DeleteFile, stored, clients, history, TypeOK, Puts, Kept, Mirrored
  <2> QED
    BY <2>1, <2>2, <2>3, <2>4, <2>5
<1> QED
  BY <1>1, <1>2, <1>3, <1>4, <1>5, <1>6, <1>7, <1>8, <1>9, <1>10, <1>11, <1>12, <1>13, <1>14, <1>15, <1>16, <1>17, <1>18, <1>19, <1>20 DEF Next
THEOREM DocSyncInvariant == Spec => []IInv
BY Start, Step, PTL DEF Spec

\* Documents are sets of updates, and only a document in memory has connections, a timer
\* and a store (server.ts:65-120).
THEOREM DocSyncTypeCorrect == Spec => []TypeOK
BY DocSyncInvariant, PTL DEF IInv

\* Nobody sees the initial text twice as long as no document has left the memory before its
\* first store (server.ts:70).
THEOREM ContentOnceAlways == Spec => []ContentOnce
<1>1. IInv => ContentOnce
  <2> SUFFICES ASSUME IInv, drops = 0, NEW doc \in Documents
               PROVE  Cardinality(SeedsIn(doc)) <= 1
    BY DEF ContentOnce
  <2>1. Within(doc)
    BY DEF Documents, IInv, Seeding, AllWithin
  <2>2. seeds \in Nat /\ seeds <= 1
    BY DEF IInv, TypeOK, Seeding, SeededOnce
  <2>3. ASSUME NEW u \in SeedsIn(doc) PROVE u = <<"seed", 1>>
    <3>1. PICK i \in Nat : u = <<"seed", i>>
      BY DEF SeedsIn, Seeds
    <3>2. i \in 1 .. seeds
      BY <2>1, <3>1 DEF Within, SeedsIn
    <3> QED
      BY <2>2, <3>1, <3>2
  <2>4. SeedsIn(doc) = {} \/ SeedsIn(doc) = {<<"seed", 1>>}
    BY <2>3
  <2>5. Cardinality({}) = 0 /\ Cardinality({<<"seed", 1>>}) = 1
    BY FS_EmptySet, FS_Singleton
  <2> QED
    BY <2>4, <2>5
<1> QED
  BY DocSyncInvariant, <1>1, PTL

\* Between two stores the mirror shows the stored document, unless a store has failed or a
\* PUT has outlived its sidecar (collab_handlers.go:161).
THEOREM MirrorFollowsStateAlways == Spec => []MirrorFollowsState
<1>1. IInv => MirrorFollowsState
  BY DEF IInv, TypeOK, Mirrored, MirrorFollowsState
<1> QED
  BY DocSyncInvariant, <1>1, PTL

\* What has been stored stays stored while the file exists, unless a PUT has outlived its
\* sidecar.
THEOREM StoredUpdatesStayAlways == Spec => StoredUpdatesStay
<1>1. IInv /\ [Next]_vars => (row' /\ ~stray' => yjs \subseteq yjs')
  <2> SUFFICES ASSUME IInv, [Next]_vars, row', ~stray' PROVE yjs \subseteq yjs'
    OBVIOUS
  <2>1. ASSUME NEW g \in Sidecars, UpsertYjsState(g) PROVE yjs \subseteq yjs'
    BY <2>1, Blank DEF UpsertYjsState, history, IInv, Kept
  <2>2. CASE UNCHANGED yjs
    BY <2>2
  <2>3. CASE DeleteFile
    BY <2>3 DEF DeleteFile
  <2> QED
    BY <2>1, <2>2, <2>3 DEF Next, vars, stored, Connect, Disconnect, CloseTab, Receive, Type, Send,
       withDoc, onLoadDocument, GetState, GetContent, onStoreDocument, UpsertFileContent,
       PutRefused, PutFails, PutCancelled, Unload, Crash
<1> QED
  BY DocSyncInvariant, <1>1, PTL DEF StoredUpdatesStay, Spec
=============================================================================
