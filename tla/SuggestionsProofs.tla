-------------------------- MODULE SuggestionsProofs --------------------------
(***************************************************************************)
(* What Suggestions guarantees for every set of requests, suggestions and  *)
(* users, and for every number of lost answers and cancelled requests.     *)
(*                                                                         *)
(* The argument is about ids.  The id of an Edit counts the calls for its  *)
(* suggestion that were given up before it, and a suggestion that was      *)
(* stranded is never claimed again: so ids never exceed lost[s], and the   *)
(* id lost[s] is in use only when the verdict in the row owes an edit.     *)
(*                                                                         *)
(* Two more results rest on it.  Positions says where anchors point and    *)
(* what offsets an Edit carries, and with it an Edit hits the anchored     *)
(* text.  And without losses a resolution implements the one step of       *)
(* SuggestionLedger: the sidecar's.                                        *)
(***************************************************************************)
EXTENDS Suggestions, FiniteSetTheorems, SequenceTheorems, TLAPS

\* The id the next Edit of s would get has been given to one already.
InUse(s) == lost[s] \in applied[s] \/ \E m \in calls : m.s = s /\ m.id = lost[s]

\* A suggestion being created has no row yet, and only one creator.
Creators ==
  \A r \in Requests : req[r].pc = "create" =>
    /\ status[req[r].s] = "none"
    /\ \A q \in Requests : req[q].pc = "create" /\ req[q].s = req[r].s => q = r

\* A suggestion is held by one request, whose verdict is in the row and owes
\* an edit; an Edit with the current id is known to exactly the "editing" ones.
ClaimsOf(s) ==
  \A r \in Holders(s) :
    /\ status[s] = req[r].verb /\ OwesEdit(s, req[r].verb) /\ stranded[s] = 0
    /\ InUse(s) <=> req[r].pc = "editing"
    /\ \A q \in Holders(s) : q = r

\* Every id is used by one call at a time and is executed at most once.
IdsOf(s) ==
  /\ applied[s] \subseteq 0 .. lost[s]
  /\ \A m \in calls : m.s = s => m.id \in 0 .. lost[s] /\ m.id \notin applied[s]
  /\ \A m, n \in calls : m.s = s /\ n.s = s /\ m.id = n.id => m = n

\* The current id is in use only by a verdict that owes an edit; a verdict that
\* nobody works on has used it, unless its request was cancelled.
UsesOf(s) ==
  /\ InUse(s) \/ stranded[s] > 0 => Owed(s)
  /\ Owed(s) /\ Holders(s) = {} /\ stranded[s] = 0 => lost[s] \in applied[s]

Claims == \A s \in Suggs : ClaimsOf(s)
Ids    == \A s \in Suggs : IdsOf(s)
Uses   == \A s \in Suggs : UsesOf(s)

IInv == TypeOK /\ Creators /\ Claims /\ Ids /\ Uses

-----------------------------------------------------------------------------
(* Types.                                                                   *)

LEMMA InsertAtType ==
  ASSUME NEW seq \in Seq(Nat), NEW k \in 1 .. Len(seq) + 1, NEW e \in Nat
  PROVE  InsertAt(seq, k, e) \in Seq(Nat) /\ Len(InsertAt(seq, k, e)) = Len(seq) + 1
<1>. DEFINE head == SubSeq(seq, 1, k - 1)
            tail == SubSeq(seq, k, Len(seq))
            item == <<e>>
<1>1. head \in Seq(Nat) /\ Len(head) = k - 1
  BY SubSeqProperties
<1>2. tail \in Seq(Nat) /\ Len(tail) = Len(seq) - k + 1
  BY SubSeqProperties
<1>3. item \in Seq(Nat) /\ Len(item) = 1
  OBVIOUS
<1>4. InsertAt(seq, k, e) = head \o item \o tail
  BY DEF InsertAt
<1>. HIDE DEF head, tail, item
<1>5. head \o item \in Seq(Nat) /\ Len(head \o item) = k
  <2>1. head \o item \in Seq(Nat) /\ Len(head \o item) = Len(head) + Len(item)
    BY <1>1, <1>3, ConcatProperties
  <2>2. k \in Int
    OBVIOUS
  <2>. QED
    BY <2>1, <2>2, <1>1, <1>3
<1>6. head \o item \o tail \in Seq(Nat) /\ Len(head \o item \o tail) = k + Len(tail)
  <2>. DEFINE front == head \o item
  <2>1. front \in Seq(Nat) /\ Len(front) = k
    BY <1>5
  <2>. HIDE DEF front
  <2>2. front \o tail \in Seq(Nat) /\ Len(front \o tail) = Len(front) + Len(tail)
    BY <1>2, <2>1, ConcatProperties
  <2>. QED
    BY <2>1, <2>2 DEF front
<1>. QED
  BY <1>2, <1>4, <1>6

LEMMA Counting ==
  ASSUME TypeOK
  PROVE  /\ Len(doc) \in Nat /\ NewChar \in Nat /\ Length \in Nat /\ DocVersion \in Nat
         /\ Text \subseteq Nat
         /\ \A c : Offset(c) \in Nat
<1>1. Len(doc) \in Nat /\ NewChar \in Nat
  BY DEF TypeOK, NewChar
<1>2. IsFiniteSet(1 .. Len(doc))
  BY <1>1, FS_Interval
<1>3. \A S \in SUBSET (1 .. Len(doc)) : Cardinality(S) \in Nat
  BY <1>2, FS_Subset, FS_CardinalityType
<1>4. Text \subseteq 1 .. Len(doc) /\ dead \subseteq 1 .. Len(doc)
  BY DEF Text, TypeOK
<1>5. \A c : Before(c) \subseteq 1 .. Len(doc)
  BY <1>4 DEF Before
<1>. QED
  BY <1>1, <1>3, <1>4, <1>5 DEF Length, DocVersion, Offset

LEMMA AnchorTypes ==
  ASSUME TypeOK, NEW r \in Requests, NEW s \in Suggs, computeSuggestionAnchors(r, s)
  PROVE  snap' \in [Requests -> Anchors]
<1>1. PICK from \in 0 .. Length, to \in 0 .. Length :
        \E start \in RelStart(from), end \in IF KindOf[s] = "insert" THEN {NoEnd} ELSE RelEnd(to) :
          snap' = [snap EXCEPT ![r] = [start |-> start, end |-> end, rev |-> anchors[s].rev + 1]]
  BY DEF computeSuggestionAnchors
<1>2. RelStart(from) \subseteq Nat /\ RelEnd(to) \subseteq Nat
  BY Counting DEF RelStart, RelEnd
<1>3. anchors[s].rev + 1 \in Nat
  BY DEF TypeOK, Anchors
<1>. QED
  BY <1>1, <1>2, <1>3 DEF TypeOK, Anchors

\* A request that is not idle works on a suggestion; past the read it has a verdict.
LEMMA ActiveRequest ==
  ASSUME TypeOK, NEW r \in Requests
  PROVE  /\ req[r].pc # "idle" => req[r].s \in Suggs
         /\ req[r].pc \in {"read", "claimed", "editing", "rollback"} => req[r].verb \in {"accepted", "rejected"}
<1>1. req[r] \in Request
  BY DEF TypeOK
<1>2. CASE req[r] = Idle
  BY <1>2 DEF Idle
<1>3. CASE req[r] # Idle
  BY <1>1, <1>3 DEF Request
<1>. QED
  BY <1>2, <1>3

LEMMA GotoType ==
  ASSUME TypeOK, NEW r \in Requests, NEW pc \in {"claimed", "editing", "rollback"}, Goto(r, pc),
         req[r].pc \in {"read", "claimed", "editing", "rollback"}
  PROVE  req' \in [Requests -> Request]
<1>1. req[r].s \in Suggs /\ req[r].verb \in {"accepted", "rejected"}
  BY ActiveRequest
<1>2. [pc |-> pc, s |-> req[r].s, verb |-> req[r].verb] \in Request
  BY <1>1 DEF Request
<1>. QED
  BY <1>2 DEF Goto, TypeOK

LEMMA FinishType ==
  ASSUME TypeOK, NEW r \in Requests, Finish(r)
  PROVE  req' \in [Requests -> Request] /\ snap' \in [Requests -> Anchors]
BY DEF TypeOK, Finish, Idle, NoAnchors, NoEnd, Request, Anchors

LEMMA TypeInit == Init => TypeOK
<1>. SUFFICES ASSUME Init PROVE TypeOK
  OBVIOUS
<1>1. doc \in Seq(Nat)
  BY SuggestionConstants, IsASeq DEF Init
<1>. QED
  BY <1>1 DEF Init, TypeOK, NoAnchors, NoEnd, Anchors, Idle, Request

LEMMA TypeStep == TypeOK /\ [Next]_vars => TypeOK'
<1>. SUFFICES ASSUME TypeOK, [Next]_vars PROVE TypeOK'
  OBVIOUS
<1>. USE DEF docVars, rowVars, ghosts
<1>1. CASE UserInserts
  <2>1. PICK k \in 1 .. NewChar : doc' = InsertAt(doc, k, NewChar)
    BY <1>1 DEF UserInserts
  <2>2. doc' \in Seq(Nat) /\ Len(doc') = Len(doc) + 1
    BY <2>1, InsertAtType, Counting DEF NewChar, TypeOK
  <2>3. dead \subseteq 1 .. Len(doc')
    BY <2>2, Counting DEF TypeOK
  <2>. QED
    BY <1>1, <2>2, <2>3 DEF UserInserts, TypeOK
<1>2. CASE UserDeletes
  BY <1>2 DEF UserDeletes, TypeOK, Text
<1>3. ASSUME NEW r \in Requests, NEW s \in Suggs,
             handleCreateSuggestion(r, s) \/ handleUpdateSuggestion(r, s)
      PROVE  TypeOK'
  <2>1. snap' \in [Requests -> Anchors]
    BY <1>3, AnchorTypes DEF handleCreateSuggestion, handleUpdateSuggestion
  <2>2. req' \in [Requests -> Request]
    <3>1. \A pc \in {"create", "update"} : [pc |-> pc, s |-> s, verb |-> "none"] \in Request
      BY DEF Request
    <3>. QED
      BY <1>3, <3>1 DEF handleCreateSuggestion, handleUpdateSuggestion, TypeOK
  <2>. QED
    BY <1>3, <2>1, <2>2 DEF handleCreateSuggestion, handleUpdateSuggestion, TypeOK
<1>4. ASSUME NEW r \in Requests, NEW s \in Suggs, NEW u \in Users,
             NEW verb \in {"accepted", "rejected"}, handleResolveSuggestion(r, s, u, verb)
      PROVE  TypeOK'
  BY <1>4 DEF handleResolveSuggestion, TypeOK, Request
<1>5. ASSUME NEW r \in Requests, CreateSuggestion(r)
      PROVE  TypeOK'
  <2>1. req[r].s \in Suggs
    BY <1>5, ActiveRequest DEF CreateSuggestion
  <2>. QED
    BY <1>5, <2>1, FinishType DEF CreateSuggestion, TypeOK
<1>6. ASSUME NEW r \in Requests, UpdateSuggestionAnchors(r)
      PROVE  TypeOK'
  <2>1. req[r].s \in Suggs
    BY <1>6, ActiveRequest DEF UpdateSuggestionAnchors
  <2>. QED
    BY <1>6, <2>1, FinishType DEF UpdateSuggestionAnchors, TypeOK
<1>7. ASSUME NEW r \in Requests, ResolveSuggestion(r)
      PROVE  TypeOK'
  <2>1. req[r].s \in Suggs /\ req[r].verb \in {"accepted", "rejected"}
    BY <1>7, ActiveRequest DEF ResolveSuggestion
  <2>2. req' \in [Requests -> Request] /\ snap' \in [Requests -> Anchors]
    <3>1. CASE Goto(r, "claimed") /\ UNCHANGED snap
      BY <1>7, <3>1, GotoType DEF ResolveSuggestion, TypeOK
    <3>2. CASE Finish(r)
      BY <3>2, FinishType
    <3>. QED
      BY <1>7, <3>1, <3>2 DEF ResolveSuggestion
  <2>. QED
    BY <1>7, <2>1, <2>2 DEF ResolveSuggestion, TypeOK
<1>8. ASSUME NEW r \in Requests, applySuggestion(r)
      PROVE  TypeOK'
  <2>. DEFINE s == req[r].s
              from == AbsStart(snap[r].start)
              to == IF snap[r].end = NoEnd THEN from ELSE AbsEnd(snap[r].end)
              m == [id |-> lost[s] + stranded[s], s |-> s,
                    from |-> from, to |-> to, puts |-> PutsText(s, req[r].verb),
                    sg |-> snap[r], ver |-> DocVersion]
  <2>1. s \in Suggs
    BY <1>8, ActiveRequest DEF applySuggestion
  <2>2. from \in Nat /\ to \in Nat
    BY Counting DEF AbsStart, AbsEnd
  <2>3. m \in Call
    <3>1. lost[s] + stranded[s] \in Nat
      BY <2>1 DEF TypeOK
    <3>2. snap[r] \in Anchors /\ PutsText(s, req[r].verb) \in BOOLEAN
      BY DEF TypeOK, PutsText
    <3>. QED
      BY <2>1, <2>2, <3>1, <3>2, Counting DEF Call
  <2>4. req' \in [Requests -> Request]
    BY <1>8, GotoType DEF applySuggestion
  <2>5. calls' \subseteq Call
    BY <1>8, <2>3 DEF applySuggestion, TypeOK
  <2>. QED
    BY <1>8, <2>4, <2>5 DEF applySuggestion, TypeOK
<1>9. ASSUME NEW r \in Requests, AbsPosFails(r) \/ EditFails(r) \/ EditUnanswered(r)
      PROVE  TypeOK'
  <2>1. req' \in [Requests -> Request]
    BY <1>9, GotoType DEF AbsPosFails, EditFails, EditUnanswered
  <2>2. lost' \in [Suggs -> Nat] /\ calls' \subseteq Call
    <3>1. req[r].s \in Suggs
      BY <1>9, ActiveRequest DEF AbsPosFails, EditFails, EditUnanswered
    <3>2. CASE AbsPosFails(r)
      BY <3>2 DEF AbsPosFails, TypeOK
    <3>3. CASE EditFails(r)
      BY <3>3 DEF EditFails, TypeOK
    <3>4. CASE EditUnanswered(r)
      BY <3>1, <3>4 DEF EditUnanswered, TypeOK
    <3>. QED
      BY <1>9, <3>2, <3>3, <3>4
  <2>. QED
    BY <1>9, <2>1, <2>2 DEF AbsPosFails, EditFails, EditUnanswered, TypeOK
<1>10. ASSUME NEW r \in Requests, EditAnswered(r) \/ Abandoned(r)
       PROVE  TypeOK'
  BY <1>10, FinishType DEF EditAnswered, Abandoned, TypeOK
<1>11. ASSUME NEW r \in Requests, Rollback(r)
       PROVE  TypeOK'
  <2>1. req[r].s \in Suggs
    BY <1>11, ActiveRequest DEF Rollback
  <2>. QED
    BY <1>11, <2>1, FinishType DEF Rollback, TypeOK
<1>12. ASSUME NEW r \in Requests, Cancelled(r)
       PROVE  TypeOK'
  <2>1. req[r].s \in Suggs
    BY <1>12, ActiveRequest DEF Cancelled
  <2>. QED
    BY <1>12, <2>1, FinishType DEF Cancelled, TypeOK
<1>13. ASSUME NEW m \in calls, SidecarEdit(m)
       PROVE  TypeOK'
  <2>1. dead' \subseteq 1 .. Len(doc)
    BY <1>13 DEF SidecarEdit, TypeOK, Text
  <2>2. doc' \in Seq(Nat) /\ Len(doc') >= Len(doc)
    <3>1. CASE UNCHANGED doc
      BY <3>1, Counting DEF TypeOK
    <3>2. ASSUME NEW k \in 1 .. NewChar, doc' = InsertAt(doc, k, NewChar)
          PROVE  doc' \in Seq(Nat) /\ Len(doc') >= Len(doc)
      BY <3>2, InsertAtType, Counting DEF NewChar, TypeOK
    <3>. QED
      BY <1>13, <3>1, <3>2 DEF SidecarEdit, Slots
  <2>3. dead' \subseteq 1 .. Len(doc')
    BY <2>1, <2>2, Counting
  <2>4. applied' \in [Suggs -> SUBSET Nat]
    BY <1>13 DEF SidecarEdit, TypeOK, Call
  <2>. QED
    BY <1>13, <2>2, <2>3, <2>4 DEF SidecarEdit, TypeOK
<1>14. ASSUME NEW m \in calls, CallDropped(m)
       PROVE  TypeOK'
  BY <1>14 DEF CallDropped, TypeOK
<1>15. CASE UNCHANGED vars
  BY <1>15 DEF vars, TypeOK
<1>. QED
  BY <1>1, <1>2, <1>3, <1>4, <1>5, <1>6, <1>7, <1>8, <1>9, <1>10, <1>11, <1>12, <1>13, <1>14, <1>15
  DEF Next, ServerStep

\* Every variable keeps its type, in particular every anchor names a character
\* and every offset sent to the sidecar is a natural number.
THEOREM TypeCorrect == Spec => []TypeOK
BY TypeInit, TypeStep, PTL DEF Spec

-----------------------------------------------------------------------------
(* The inductive invariant.                                                 *)

\* What a step that moves one request leaves of the others.
LEMMA MovedByGoto ==
  ASSUME TypeOK, NEW r \in Requests, NEW pc, Goto(r, pc)
  PROVE  /\ req'[r].pc = pc /\ req'[r].s = req[r].s /\ req'[r].verb = req[r].verb
         /\ \A q \in Requests : q # r => req'[q] = req[q]
BY DEF Goto, TypeOK

LEMMA MovedByFinish ==
  ASSUME TypeOK, NEW r \in Requests, Finish(r)
  PROVE  req'[r].pc = "idle" /\ \A q \in Requests : q # r => req'[q] = req[q]
BY DEF Finish, Idle, TypeOK

\* The invariant is about these variables only.
LEMMA Unmoved ==
  ASSUME IInv, UNCHANGED <<req, status, calls, applied, lost, stranded>>
  PROVE  Creators' /\ Claims' /\ Ids' /\ Uses'
<1>1. \A s : Holders(s)' = Holders(s) /\ (InUse(s)' <=> InUse(s)) /\ (Owed(s)' <=> Owed(s))
  BY DEF Holders, InUse, Owed, Resolved
<1>2. Creators' /\ Ids'
  BY DEF IInv, Creators, Ids, IdsOf
<1>3. Claims' /\ Uses'
  BY <1>1 DEF IInv, Claims, ClaimsOf, Uses, UsesOf
<1>. QED
  BY <1>2, <1>3

\* A request that claims nothing can start and stop without touching it.
LEMMA Bystander ==
  ASSUME IInv, NEW r \in Requests,
         UNCHANGED <<status, calls, applied, lost, stranded>>,
         \A q \in Requests : q # r => req'[q] = req[q],
         req[r].pc \notin {"claimed", "editing", "rollback"},
         req'[r].pc \notin {"claimed", "editing", "rollback"},
         req'[r].pc = "create" =>
           /\ status[req'[r].s] = "none"
           /\ \A q \in Requests : ~(req[q].pc = "create" /\ req[q].s = req'[r].s)
  PROVE  Creators' /\ Claims' /\ Ids' /\ Uses'
<1>1. \A s : Holders(s)' = Holders(s) /\ (InUse(s)' <=> InUse(s)) /\ (Owed(s)' <=> Owed(s))
  BY DEF Holders, InUse, Owed, Resolved
<1>2. Creators' /\ Ids'
  BY DEF IInv, Creators, Ids, IdsOf
<1>3. Claims'
  BY <1>1 DEF IInv, Claims, ClaimsOf, Holders
<1>4. Uses'
  BY <1>1 DEF IInv, Uses, UsesOf
<1>. QED
  BY <1>2, <1>3, <1>4

\* A step about one suggestion keeps the invariant if it does so for that one.
LEMMA OneSuggestion ==
  ASSUME IInv, NEW s \in Suggs,
         \A t \in Suggs : t # s =>
           /\ status'[t] = status[t] /\ applied'[t] = applied[t]
           /\ lost'[t] = lost[t] /\ stranded'[t] = stranded[t]
           /\ Holders(t)' = Holders(t)
           /\ \A q \in Holders(t) : req'[q] = req[q],
         \A m \in Call : m.s # s => (m \in calls' <=> m \in calls),
         calls' \subseteq Call,
         \A q \in Requests : req'[q].pc = "create" =>
           req'[q] = req[q] /\ req[q].s \in Suggs /\ (req[q].s = s => status'[s] = status[s]),
         ClaimsOf(s)', IdsOf(s)', UsesOf(s)'
  PROVE  Creators' /\ Claims' /\ Ids' /\ Uses'
<1>1. Creators'
  <2>. SUFFICES ASSUME NEW q \in Requests, req'[q].pc = "create"
                PROVE  /\ status'[req'[q].s] = "none"
                       /\ \A p \in Requests : req'[p].pc = "create" /\ req'[p].s = req'[q].s => p = q
    BY DEF Creators
  <2>. QED
    BY DEF IInv, Creators
<1>2. ASSUME NEW t \in Suggs, t # s
      PROVE  (InUse(t)' <=> InUse(t)) /\ (Owed(t)' <=> Owed(t))
  BY <1>2 DEF InUse, Owed, Resolved, IInv, TypeOK
<1>3. ASSUME NEW t \in Suggs PROVE ClaimsOf(t)' /\ UsesOf(t)'
  <2>1. CASE t = s
    BY <2>1
  <2>2. CASE t # s
    BY <1>2, <2>2 DEF ClaimsOf, UsesOf, IInv, Claims, Uses
  <2>. QED
    BY <2>1, <2>2
<1>4. ASSUME NEW t \in Suggs PROVE IdsOf(t)'
  <2>1. CASE t = s
    BY <2>1
  <2>2. CASE t # s
    BY <2>2 DEF IdsOf, IInv, Ids, TypeOK
  <2>. QED
    BY <2>1, <2>2
<1>. QED
  BY <1>1, <1>3, <1>4 DEF Claims, Ids, Uses

\* The requests that work on other suggestions do not see what r does to its own.
LEMMA OthersHold ==
  ASSUME NEW r \in Requests, NEW s,
         req[r].s = s \/ req[r].pc \notin {"claimed", "editing", "rollback"},
         req'[r].s = s \/ req'[r].pc \notin {"claimed", "editing", "rollback"},
         \A q \in Requests : q # r => req'[q] = req[q]
  PROVE  \A t : t # s => /\ Holders(t)' = Holders(t)
                         /\ \A q \in Holders(t) : req'[q] = req[q]
BY DEF Holders

LEMMA InvInit == Init => IInv
<1>. SUFFICES ASSUME Init PROVE IInv
  OBVIOUS
<1>1. TypeOK
  BY TypeInit
<1>2. \A r \in Requests : req[r].pc = "idle"
  BY DEF Init, Idle
<1>3. Creators /\ Claims
  BY <1>2 DEF Creators, Claims, ClaimsOf, Holders
<1>4. Ids
  BY DEF Init, Ids, IdsOf
<1>5. Uses
  BY DEF Init, Uses, UsesOf, InUse, Owed, Resolved
<1>. QED
  BY <1>1, <1>3, <1>4, <1>5 DEF IInv

LEMMA InvStarts ==
  ASSUME IInv, NEW r \in Requests, NEW s \in Suggs,
         \/ handleCreateSuggestion(r, s) \/ handleUpdateSuggestion(r, s)
         \/ \E u \in Users, verb \in {"accepted", "rejected"} : handleResolveSuggestion(r, s, u, verb)
  PROVE  Creators' /\ Claims' /\ Ids' /\ Uses'
<1>1. PICK verb \in {"none", "accepted", "rejected"}, pc \in {"create", "update", "read"} :
        req' = [req EXCEPT ![r] = [pc |-> pc, s |-> s, verb |-> verb]]
  BY DEF handleCreateSuggestion, handleUpdateSuggestion, handleResolveSuggestion
<1>2. /\ req'[r].pc = pc /\ req'[r].s = s
      /\ \A q \in Requests : q # r => req'[q] = req[q]
  BY <1>1 DEF IInv, TypeOK
<1>3. /\ req[r].pc = "idle"
      /\ UNCHANGED <<status, calls, applied, lost, stranded>>
  BY DEF handleCreateSuggestion, handleUpdateSuggestion, handleResolveSuggestion, rowVars, ghosts
<1>4. pc = "create" => /\ status[s] = "none"
                       /\ \A q \in Requests : ~(req[q].pc = "create" /\ req[q].s = s)
  <2>1. CASE handleCreateSuggestion(r, s)
    BY <2>1 DEF handleCreateSuggestion
  <2>2. CASE handleUpdateSuggestion(r, s)
    <3>1. req'[r].pc = "update"
      BY <2>2 DEF handleUpdateSuggestion, IInv, TypeOK
    <3>. QED
      BY <3>1, <1>2
  <2>3. ASSUME NEW u \in Users, NEW v \in {"accepted", "rejected"}, handleResolveSuggestion(r, s, u, v)
        PROVE  pc # "create"
    <3>1. req'[r].pc = "read"
      BY <2>3 DEF handleResolveSuggestion, IInv, TypeOK
    <3>. QED
      BY <3>1, <1>2
  <2>. QED
    BY <2>1, <2>2, <2>3
<1>. QED
  BY <1>2, <1>3, <1>4, Bystander

\* What holds of the suggestion a request works on.
LEMMA InvOf ==
  ASSUME IInv, NEW s \in Suggs
  PROVE  /\ TypeOK /\ Creators /\ ClaimsOf(s) /\ IdsOf(s) /\ UsesOf(s)
         /\ lost[s] \in Nat /\ stranded[s] \in Nat /\ applied[s] \subseteq Nat
BY DEF IInv, Claims, Ids, Uses, TypeOK

LEMMA InvCreate ==
  ASSUME IInv, NEW r \in Requests, NEW s \in Suggs, req[r].s = s, CreateSuggestion(r)
  PROVE  Creators' /\ Claims' /\ Ids' /\ Uses'
<1>1. /\ req[r].pc = "create" /\ status[s] = "none"
      /\ status' = [status EXCEPT ![s] = "open"]
      /\ UNCHANGED <<calls, applied, lost, stranded>>
  BY InvOf DEF CreateSuggestion, Creators, ghosts
<1>2. req'[r].pc = "idle" /\ \A q \in Requests : q # r => req'[q] = req[q]
  BY InvOf, MovedByFinish DEF CreateSuggestion
<1>3. status'[s] = "open" /\ \A t \in Suggs : t # s => status'[t] = status[t]
  BY <1>1, InvOf DEF TypeOK
<1>4. Holders(s) = {} /\ Holders(s)' = {}
  <2>1. \A q \in Holders(s) : req[q].verb \in {"accepted", "rejected"}
    BY InvOf, ActiveRequest DEF Holders
  <2>2. Holders(s) = {}
    BY <2>1, <1>1, InvOf DEF ClaimsOf
  <2>. QED
    BY <2>2, <1>2 DEF Holders
<1>5. ClaimsOf(s)' /\ IdsOf(s)'
  BY <1>1, <1>4, InvOf DEF ClaimsOf, IdsOf
<1>6. UsesOf(s)'
  BY <1>1, <1>3, InvOf DEF UsesOf, InUse, Owed, Resolved
<1>7. \A q \in Requests : req'[q].pc = "create" => req'[q] = req[q] /\ req[q].s \in Suggs /\ req[q].s # s
  BY <1>1, <1>2, InvOf, ActiveRequest DEF Creators
<1>8. \A t : t # s => Holders(t)' = Holders(t) /\ \A q \in Holders(t) : req'[q] = req[q]
  BY <1>1, <1>2, OthersHold
<1>9. calls' \subseteq Call
  BY <1>1, InvOf DEF TypeOK
<1>. QED
  BY <1>1, <1>3, <1>5, <1>6, <1>7, <1>8, <1>9, OneSuggestion

LEMMA InvResolve ==
  ASSUME IInv, NEW r \in Requests, NEW s \in Suggs, req[r].s = s, ResolveSuggestion(r)
  PROVE  Creators' /\ Claims' /\ Ids' /\ Uses'
<1>. DEFINE verb == req[r].verb
<1>1. /\ req[r].pc = "read" /\ verb \in {"accepted", "rejected"}
      /\ UNCHANGED <<calls, applied, lost, stranded>>
      /\ \A q \in Requests : q # r => req'[q] = req[q]
  BY InvOf, ActiveRequest, MovedByGoto, MovedByFinish DEF ResolveSuggestion, ghosts
<1>2. CASE status[s] # "open"
  <2>1. UNCHANGED status /\ req'[r].pc = "idle"
    BY <1>2, InvOf, MovedByFinish DEF ResolveSuggestion
  <2>. QED
    BY <1>1, <2>1, Bystander
<1>3. CASE status[s] = "open"
  <2>1. status'[s] = verb /\ \A t \in Suggs : t # s => status'[t] = status[t]
    BY <1>3, InvOf DEF ResolveSuggestion, TypeOK
  <2>2. Holders(s) = {}
    <3>1. \A q \in Holders(s) : req[q].verb \in {"accepted", "rejected"}
      BY InvOf, ActiveRequest DEF Holders
    <3>. QED
      BY <3>1, <1>3, InvOf DEF ClaimsOf
  <2>3. ~InUse(s) /\ stranded[s] = 0
    BY <1>3, InvOf DEF UsesOf, Owed, Resolved
  <2>4. ~InUse(s)' /\ stranded'[s] = 0 /\ IdsOf(s)'
    BY <2>3, <1>1, InvOf DEF InUse, IdsOf
  <2>5. IF OwesEdit(s, verb)
        THEN req'[r].pc = "claimed" /\ req'[r].s = s /\ req'[r].verb = verb
        ELSE req'[r].pc = "idle"
    BY <1>3, InvOf, MovedByGoto, MovedByFinish DEF ResolveSuggestion
  <2>6. Holders(s)' = IF OwesEdit(s, verb) THEN {r} ELSE {}
    BY <2>2, <2>5, <1>1 DEF Holders
  <2>7. ClaimsOf(s)'
    BY <2>1, <2>4, <2>5, <2>6 DEF ClaimsOf
  <2>8. UsesOf(s)'
    BY <2>1, <2>4, <2>6, <1>1 DEF UsesOf, Owed, Resolved
  <2>9. \A q \in Requests : req'[q].pc = "create" => req'[q] = req[q] /\ req[q].s \in Suggs /\ req[q].s # s
    BY <1>1, <1>3, <2>5, InvOf, ActiveRequest DEF Creators
  <2>10. \A t : t # s => Holders(t)' = Holders(t) /\ \A q \in Holders(t) : req'[q] = req[q]
    BY <1>1, <2>5, OthersHold
  <2>11. calls' \subseteq Call
    BY <1>1, InvOf DEF TypeOK
  <2>. QED
    BY <1>1, <2>1, <2>4, <2>7, <2>8, <2>9, <2>10, <2>11, OneSuggestion
<1>. QED
  BY <1>2, <1>3

\* The request that holds s is its only holder.
LEMMA SoleHolder ==
  ASSUME IInv, NEW r \in Requests, NEW s \in Suggs, req[r].s = s,
         req[r].pc \in {"claimed", "editing", "rollback"}
  PROVE  /\ Holders(s) = {r} /\ status[s] = req[r].verb /\ req[r].verb \in {"accepted", "rejected"}
         /\ Owed(s) /\ stranded[s] = 0
         /\ InUse(s) <=> req[r].pc = "editing"
         /\ \A q \in Requests : req[q].pc = "create" => req[q].s \in Suggs /\ req[q].s # s
<1>1. r \in Holders(s)
  BY DEF Holders
<1>2. req[r].verb \in {"accepted", "rejected"}
  BY InvOf, ActiveRequest
<1>3. /\ Holders(s) = {r} /\ status[s] = req[r].verb /\ stranded[s] = 0
      /\ OwesEdit(s, req[r].verb) /\ (InUse(s) <=> req[r].pc = "editing")
  BY <1>1, InvOf DEF ClaimsOf
<1>4. \A q \in Requests : req[q].pc = "create" => req[q].s \in Suggs /\ req[q].s # s
  BY <1>2, <1>3, InvOf, ActiveRequest DEF Creators
<1>. QED
  BY <1>2, <1>3, <1>4 DEF Owed, Resolved

\* A step of the request that holds s keeps the invariant if it keeps these parts.
LEMMA HolderStep ==
  ASSUME IInv, NEW r \in Requests, NEW s \in Suggs, req[r].s = s,
         req[r].pc \in {"claimed", "editing", "rollback"},
         req'[r].pc = "idle" \/ (/\ req'[r].pc \in {"claimed", "editing", "rollback"}
                                 /\ req'[r].s = s /\ req'[r].verb = req[r].verb),
         \A q \in Requests : q # r => req'[q] = req[q],
         calls' \subseteq Call,
         \A m \in Call : m.s # s => (m \in calls' <=> m \in calls),
         \A t \in Suggs : t # s =>
           /\ status'[t] = status[t] /\ applied'[t] = applied[t]
           /\ lost'[t] = lost[t] /\ stranded'[t] = stranded[t],
         IdsOf(s)',
         req'[r].pc # "idle" => status'[s] = status[s] /\ stranded'[s] = 0,
         req'[r].pc # "idle" => (InUse(s)' <=> req'[r].pc = "editing"),
         req'[r].pc = "idle" => UsesOf(s)'
  PROVE  Creators' /\ Claims' /\ Ids' /\ Uses'
<1>1. Holders(s)' = IF req'[r].pc = "idle" THEN {} ELSE {r}
  BY SoleHolder DEF Holders
<1>2. ClaimsOf(s)'
  BY <1>1, SoleHolder DEF ClaimsOf, Owed
<1>3. UsesOf(s)'
  <2>1. req'[r].pc # "idle" => Owed(s)' /\ stranded'[s] = 0
    BY SoleHolder DEF Owed, Resolved
  <2>. QED
    BY <1>1, <2>1 DEF UsesOf
<1>4. \A q \in Requests : req'[q].pc = "create" => req'[q] = req[q] /\ req[q].s \in Suggs /\ req[q].s # s
  BY SoleHolder
<1>5. \A t : t # s => Holders(t)' = Holders(t) /\ \A q \in Holders(t) : req'[q] = req[q]
  BY OthersHold
<1>. QED
  BY <1>2, <1>3, <1>4, <1>5, OneSuggestion

LEMMA InvApply ==
  ASSUME IInv, NEW r \in Requests, NEW s \in Suggs, req[r].s = s,
         applySuggestion(r) \/ AbsPosFails(r)
  PROVE  Creators' /\ Claims' /\ Ids' /\ Uses'
<1>1. /\ req[r].pc = "claimed" /\ UNCHANGED <<status, applied, lost, stranded>>
      /\ \A q \in Requests : q # r => req'[q] = req[q]
      /\ req'[r].pc \in {"rollback", "editing"} /\ req'[r].s = s /\ req'[r].verb = req[r].verb
      /\ req'[r].pc = "rollback" => UNCHANGED calls
  BY InvOf, MovedByGoto DEF applySuggestion, AbsPosFails, rowVars, ghosts
<1>2. ~InUse(s) /\ stranded[s] = 0
  BY <1>1, SoleHolder
<1>3. CASE req'[r].pc = "rollback"
  <2>1. ~InUse(s)' /\ IdsOf(s)' /\ calls' \subseteq Call
    BY <1>1, <1>2, <1>3, InvOf DEF InUse, IdsOf, TypeOK
  <2>. QED
    BY <1>1, <1>2, <1>3, <2>1, HolderStep
<1>4. CASE req'[r].pc = "editing"
  <2>1. PICK m : calls' = calls \cup {m} /\ m.s = s /\ m.id = lost[s] + stranded[s]
    <3>1. applySuggestion(r) /\ ~Goto(r, "rollback")
      BY <1>4, InvOf, MovedByGoto DEF AbsPosFails
    <3>. DEFINE from == AbsStart(snap[r].start)
                to == IF snap[r].end = NoEnd THEN from ELSE AbsEnd(snap[r].end)
                m == [id |-> lost[s] + stranded[s], s |-> s,
                      from |-> from, to |-> to, puts |-> PutsText(s, req[r].verb),
                      sg |-> snap[r], ver |-> DocVersion]
    <3>2. calls' = calls \cup {m}
      BY <3>1 DEF applySuggestion
    <3>3. m.s = s /\ m.id = lost[s] + stranded[s]
      OBVIOUS
    <3>. HIDE DEF m
    <3>. QED
      BY <3>2, <3>3
  <2>2. m.id = lost[s]
    BY <1>2, <2>1, InvOf
  <2>3. calls' \subseteq Call
    <3>1. Next
      BY DEF Next, ServerStep
    <3>2. TypeOK'
      BY <3>1, TypeStep, InvOf
    <3>. QED
      BY <3>2 DEF TypeOK
  <2>4. InUse(s)'
    BY <1>1, <2>1, <2>2 DEF InUse
  <2>5. IdsOf(s)'
    BY <1>1, <1>2, <2>1, <2>2, InvOf DEF InUse, IdsOf
  <2>6. \A n \in Call : n.s # s => (n \in calls' <=> n \in calls)
    BY <2>1
  <2>. QED
    BY <1>1, <1>2, <1>4, <2>3, <2>4, <2>5, <2>6, HolderStep
<1>. QED
  BY <1>1, <1>3, <1>4

LEMMA InvAnswered ==
  ASSUME IInv, NEW r \in Requests, NEW s \in Suggs, req[r].s = s, EditAnswered(r)
  PROVE  Creators' /\ Claims' /\ Ids' /\ Uses'
<1>1. /\ req[r].pc = "editing" /\ UNCHANGED <<status, calls, applied, lost, stranded>>
      /\ \A q \in Requests : q # r => req'[q] = req[q]
      /\ req'[r].pc = "idle"
  BY InvOf, MovedByFinish DEF EditAnswered, rowVars, ghosts
<1>2. InUse(s) /\ stranded[s] = 0 /\ Owed(s)
  BY <1>1, SoleHolder
<1>3. lost[s] \in applied[s]
  BY <1>2, InvOf DEF EditAnswered, Awaited, InUse
<1>4. UsesOf(s)'
  BY <1>1, <1>2, <1>3 DEF UsesOf, Owed, Resolved
<1>5. IdsOf(s)' /\ calls' \subseteq Call
  BY <1>1, InvOf DEF IdsOf, TypeOK
<1>. QED
  BY <1>1, <1>4, <1>5, HolderStep

LEMMA InvFails ==
  ASSUME IInv, NEW r \in Requests, NEW s \in Suggs, req[r].s = s, EditFails(r)
  PROVE  Creators' /\ Claims' /\ Ids' /\ Uses'
<1>1. /\ req[r].pc = "editing" /\ UNCHANGED <<status, applied, lost, stranded>>
      /\ calls' = calls \ Awaited(s) /\ Awaited(s) # {}
      /\ \A q \in Requests : q # r => req'[q] = req[q]
      /\ req'[r].pc = "rollback" /\ req'[r].s = s /\ req'[r].verb = req[r].verb
  BY InvOf, MovedByGoto DEF EditFails, rowVars, ghosts
<1>2. stranded[s] = 0
  BY <1>1, SoleHolder
<1>3. Awaited(s) = {m \in calls : m.s = s /\ m.id = lost[s]}
  BY <1>2, InvOf DEF Awaited
<1>4. ~InUse(s)' /\ IdsOf(s)' /\ calls' \subseteq Call
  BY <1>1, <1>3, InvOf DEF InUse, IdsOf, TypeOK
<1>5. \A m \in Call : m.s # s => (m \in calls' <=> m \in calls)
  BY <1>1, <1>3
<1>. QED
  BY <1>1, <1>2, <1>4, <1>5, HolderStep

LEMMA InvUnanswered ==
  ASSUME IInv, NEW r \in Requests, NEW s \in Suggs, req[r].s = s, EditUnanswered(r)
  PROVE  Creators' /\ Claims' /\ Ids' /\ Uses'
<1>1. /\ req[r].pc = "editing" /\ UNCHANGED <<status, calls, applied, stranded>>
      /\ lost' = [lost EXCEPT ![s] = @ + 1]
      /\ \A q \in Requests : q # r => req'[q] = req[q]
      /\ req'[r].pc = "rollback" /\ req'[r].s = s /\ req'[r].verb = req[r].verb
  BY InvOf, MovedByGoto DEF EditUnanswered, rowVars, ghosts
<1>2. lost'[s] = lost[s] + 1 /\ \A t \in Suggs : t # s => lost'[t] = lost[t]
  BY <1>1, InvOf DEF TypeOK
<1>3. ~InUse(s)' /\ IdsOf(s)' /\ calls' \subseteq Call
  BY <1>1, <1>2, InvOf DEF InUse, IdsOf, TypeOK
<1>4. stranded[s] = 0
  BY <1>1, SoleHolder
<1>. QED
  BY <1>1, <1>2, <1>3, <1>4, HolderStep

LEMMA InvRollback ==
  ASSUME IInv, NEW r \in Requests, NEW s \in Suggs, req[r].s = s, Rollback(r)
  PROVE  Creators' /\ Claims' /\ Ids' /\ Uses'
<1>1. /\ req[r].pc = "rollback" /\ UNCHANGED <<calls, applied, lost, stranded>>
      /\ status' = [status EXCEPT ![s] = "open"]
      /\ \A q \in Requests : q # r => req'[q] = req[q]
      /\ req'[r].pc = "idle"
  BY InvOf, MovedByFinish DEF Rollback, ghosts
<1>2. status'[s] = "open" /\ \A t \in Suggs : t # s => status'[t] = status[t]
  BY <1>1, InvOf DEF TypeOK
<1>3. ~InUse(s) /\ stranded[s] = 0
  BY <1>1, SoleHolder
<1>4. UsesOf(s)'
  BY <1>1, <1>2, <1>3 DEF UsesOf, InUse, Owed, Resolved
<1>5. IdsOf(s)' /\ calls' \subseteq Call
  BY <1>1, InvOf DEF IdsOf, TypeOK
<1>. QED
  BY <1>1, <1>2, <1>4, <1>5, HolderStep

LEMMA InvCancelled ==
  ASSUME IInv, NEW r \in Requests, NEW s \in Suggs, req[r].s = s, Cancelled(r)
  PROVE  Creators' /\ Claims' /\ Ids' /\ Uses'
<1>1. /\ req[r].pc \in {"claimed", "editing", "rollback"}
      /\ UNCHANGED <<status, calls, applied, lost>>
      /\ stranded' = [stranded EXCEPT ![s] = @ + 1]
      /\ \A q \in Requests : q # r => req'[q] = req[q]
      /\ req'[r].pc = "idle"
  BY InvOf, MovedByFinish DEF Cancelled, rowVars
<1>2. stranded'[s] > 0 /\ \A t \in Suggs : t # s => stranded'[t] = stranded[t]
  BY <1>1, InvOf DEF TypeOK
<1>3. Owed(s)
  BY <1>1, SoleHolder
<1>4. UsesOf(s)'
  BY <1>1, <1>2, <1>3 DEF UsesOf, Owed, Resolved
<1>5. IdsOf(s)' /\ calls' \subseteq Call
  BY <1>1, InvOf DEF IdsOf, TypeOK
<1>. QED
  BY <1>1, <1>2, <1>4, <1>5, HolderStep

\* Steps of the sidecar leave rows and requests alone.
LEMMA InvSidecar ==
  ASSUME IInv, NEW m \in calls, SidecarEdit(m) \/ CallDropped(m)
  PROVE  Creators' /\ Claims' /\ Ids' /\ Uses'
<1>. DEFINE s == m.s
<1>1. /\ s \in Suggs /\ m.id \in 0 .. lost[s] /\ m.id \notin applied[s]
      /\ calls' = calls \ {m} /\ calls' \subseteq Call
      /\ UNCHANGED <<status, req, lost, stranded>>
      /\ \A n \in calls : n.s = s /\ n.id = m.id => n = m
  <2>1. m \in Call /\ s \in Suggs
    BY DEF IInv, TypeOK, Call
  <2>2. IdsOf(s)
    BY <2>1 DEF IInv, Ids
  <2>. QED
    BY <2>1, <2>2 DEF SidecarEdit, CallDropped, IInv, TypeOK, IdsOf, rowVars, ghosts
<1>2. /\ \A t \in Suggs : t # s => applied'[t] = applied[t]
      /\ applied'[s] = applied[s] \cup {m.id} \/ (applied'[s] = applied[s] /\ m \notin Awaited(s))
  BY <1>1 DEF SidecarEdit, CallDropped, IInv, TypeOK, ghosts
<1>3. \A t : Holders(t)' = Holders(t) /\ (Owed(t)' <=> Owed(t))
  BY <1>1 DEF Holders, Owed, Resolved
<1>4. IdsOf(s)'
  BY <1>1, <1>2, InvOf DEF IdsOf
<1>5. (InUse(s)' <=> InUse(s)) \/ (stranded[s] > 0 /\ (InUse(s)' => InUse(s)))
  BY <1>1, <1>2, InvOf DEF InUse, Awaited
<1>6. ClaimsOf(s)'
  BY <1>1, <1>3, <1>5, InvOf DEF ClaimsOf
<1>7. UsesOf(s)'
  BY <1>1, <1>2, <1>3, <1>5, InvOf DEF UsesOf
<1>8. \A n \in Call : n.s # s => (n \in calls' <=> n \in calls)
  BY <1>1
<1>9. \A q \in Requests : req'[q].pc = "create" => req'[q] = req[q] /\ req[q].s \in Suggs
  BY <1>1, ActiveRequest, InvOf
<1>. QED
  BY <1>1, <1>2, <1>3, <1>4, <1>6, <1>7, <1>8, <1>9, OneSuggestion

LEMMA InvStep == IInv /\ [Next]_vars => IInv'
<1>. SUFFICES ASSUME IInv, [Next]_vars PROVE Creators' /\ Claims' /\ Ids' /\ Uses'
  BY TypeStep DEF IInv
<1>1. CASE UserInserts \/ UserDeletes \/ UNCHANGED vars
  BY <1>1, Unmoved DEF UserInserts, UserDeletes, vars, rowVars, ghosts
<1>2. ASSUME NEW r \in Requests, NEW s \in Suggs,
             \/ handleCreateSuggestion(r, s) \/ handleUpdateSuggestion(r, s)
             \/ \E u \in Users, verb \in {"accepted", "rejected"} : handleResolveSuggestion(r, s, u, verb)
      PROVE  Creators' /\ Claims' /\ Ids' /\ Uses'
  BY <1>2, InvStarts
<1>3. ASSUME NEW r \in Requests, UpdateSuggestionAnchors(r) \/ Abandoned(r)
      PROVE  Creators' /\ Claims' /\ Ids' /\ Uses'
  <2>1. /\ req[r].pc \in {"create", "update", "read"} /\ req'[r].pc = "idle"
        /\ UNCHANGED <<status, calls, applied, lost, stranded>>
        /\ \A q \in Requests : q # r => req'[q] = req[q]
    BY <1>3, MovedByFinish DEF UpdateSuggestionAnchors, Abandoned, IInv, rowVars, ghosts
  <2>. QED
    BY <2>1, Bystander
<1>4. ASSUME NEW r \in Requests, ServerStep(r) \/ Cancelled(r), ~UpdateSuggestionAnchors(r)
      PROVE  Creators' /\ Claims' /\ Ids' /\ Uses'
  <2>1. req[r].pc # "idle"
    BY <1>4 DEF ServerStep, CreateSuggestion, ResolveSuggestion, applySuggestion, AbsPosFails,
                EditAnswered, EditFails, EditUnanswered, Rollback, Cancelled
  <2>2. PICK s \in Suggs : req[r].s = s
    BY <2>1, ActiveRequest DEF IInv
  <2>. QED
    BY <1>4, <2>2, InvCreate, InvResolve, InvApply, InvAnswered, InvFails, InvUnanswered,
       InvRollback, InvCancelled DEF ServerStep
<1>5. ASSUME NEW m \in calls, SidecarEdit(m) \/ CallDropped(m)
      PROVE  Creators' /\ Claims' /\ Ids' /\ Uses'
  BY <1>5, InvSidecar
<1>. QED
  BY <1>1, <1>2, <1>3, <1>4, <1>5 DEF Next, ServerStep

THEOREM Invariant == Spec => []IInv
BY InvInit, InvStep, PTL DEF Spec

-----------------------------------------------------------------------------
(* The safety properties follow from the invariant.                         *)

\* Whatever the interleaving, two requests never hold the same suggestion, and
\* the row shows the holder's verdict: the status guard of ResolveSuggestion.
THEOREM OneHolderAlways == Spec => []OneHolder
<1>1. IInv => OneHolder
  BY DEF IInv, Claims, ClaimsOf, OneHolder
<1>. QED
  BY <1>1, Invariant, PTL

LEMMA CountUpTo ==
  ASSUME NEW n \in Nat, NEW S \in SUBSET (0 .. n)
  PROVE  Cardinality(S) <= n + 1 /\ (n \notin S => Cardinality(S) <= n)
<1>1. IsFiniteSet(0 .. n) /\ Cardinality(0 .. n) = n + 1
  <2>1. 0 \in Int /\ n \in Int /\ ~(0 > n)
    OBVIOUS
  <2>2. IsFiniteSet(0 .. n) /\ Cardinality(0 .. n) = IF 0 > n THEN 0 ELSE n - 0 + 1
    BY <2>1, FS_Interval
  <2>. QED
    BY <2>1, <2>2
<1>2. Cardinality(S) <= Cardinality(0 .. n) /\ (Cardinality(0 .. n) = Cardinality(S) => 0 .. n = S)
  BY <1>1, FS_Subset
<1>3. IsFiniteSet(S) /\ Cardinality(S) \in Nat
  BY <1>1, FS_Subset, FS_CardinalityType
<1>. QED
  BY <1>1, <1>2, <1>3

\* The Edits of a suggestion that were executed have different ids in 0 .. lost[s].
\* A suggestion reaches the text at most once more than answers of the sidecar
\* were lost: the compensation of handleResolveSuggestion adds no duplicates.
THEOREM AtMostOncePerLostAnswerAlways == Spec => []AtMostOncePerLostAnswer
<1>1. ASSUME IInv PROVE AtMostOncePerLostAnswer
  <2>. SUFFICES ASSUME NEW s \in Suggs PROVE TimesApplied(s) <= lost[s] + 1
    BY DEF AtMostOncePerLostAnswer
  <2>1. lost[s] \in Nat /\ applied[s] \subseteq 0 .. lost[s]
    BY <1>1, InvOf DEF IdsOf
  <2>. QED
    BY <2>1, CountUpTo DEF TimesApplied
<1>. QED
  BY <1>1, Invariant, PTL

\* Without a verdict that owes an edit, only unanswered Edits changed the text:
\* a rolled back or refused resolution leaves the document alone.
THEOREM UntouchedUnlessOwedAlways == Spec => []UntouchedUnlessOwed
<1>1. ASSUME IInv PROVE UntouchedUnlessOwed
  <2>. SUFFICES ASSUME NEW s \in Suggs, ~Owed(s) PROVE TimesApplied(s) <= lost[s]
    BY DEF UntouchedUnlessOwed
  <2>1. lost[s] \in Nat /\ applied[s] \subseteq 0 .. lost[s]
    BY <1>1, InvOf DEF IdsOf
  <2>2. lost[s] \notin applied[s]
    BY <1>1, InvOf DEF UsesOf, InUse
  <2>. QED
    BY <2>1, <2>2, CountUpTo DEF TimesApplied
<1>. QED
  BY <1>1, Invariant, PTL

\* When a handler has answered, the verdict it left in the row has been carried
\* out in the document.
THEOREM VerdictExecutedAlways == Spec => []VerdictExecuted
<1>1. IInv => VerdictExecuted
  BY DEF IInv, Uses, UsesOf, VerdictExecuted
<1>. QED
  BY <1>1, Invariant, PTL
-----------------------------------------------------------------------------
(* Positions.                                                               *)

Chars == 1 .. Len(doc)

\* Every character has one place in the document.
Placed ==
  /\ \A i \in Chars : doc[i] \in Chars
  /\ \A i, j \in Chars : doc[i] = doc[j] => i = j
  /\ \A c \in Chars : \E i \in Chars : doc[i] = c

\* Anchors name characters of the document.
Anchored(sg) == sg.start \in Chars \cup {0} /\ sg.end \in Chars \cup {0, NoEnd}

AllAnchored ==
  /\ \A s \in Suggs : Anchored(anchors[s])
  /\ \A r \in Requests : Anchored(snap[r])
  /\ \A m \in calls : Anchored(m.sg)

From(sg) == AbsStart(sg.start)
To(sg)   == IF sg.end = NoEnd THEN From(sg) ELSE AbsEnd(sg.end)

\* An Edit carries the offsets its anchors have in the text of its version.
UpToDate ==
  \A m \in calls : /\ m.ver <= DocVersion
                   /\ m.ver = DocVersion => m.from = From(m.sg) /\ m.to = To(m.sg) /\ m.from <= m.to

Positions == Placed /\ AllAnchored /\ UpToDate

LEMMA InsertAtElements ==
  ASSUME NEW seq \in Seq(Nat), NEW k \in 1 .. Len(seq) + 1, NEW e \in Nat
  PROVE  /\ \A i \in 1 .. k - 1 : InsertAt(seq, k, e)[i] = seq[i]
         /\ InsertAt(seq, k, e)[k] = e
         /\ \A i \in k .. Len(seq) : InsertAt(seq, k, e)[i + 1] = seq[i]
<1>. DEFINE head == SubSeq(seq, 1, k - 1)
            tail == SubSeq(seq, k, Len(seq))
            item == <<e>>
<1>0. Len(seq) \in Nat /\ k \in Nat /\ k >= 1 /\ k <= Len(seq) + 1
  OBVIOUS
<1>1. head \in Seq(Nat) /\ Len(head) = k - 1 /\ \A i \in 1 .. k - 1 : head[i] = seq[i]
  <2>1. \A i \in 1 .. k - 1 : seq[i] \in Nat
    OBVIOUS
  <2>. HIDE DEF head
  <2>2. /\ SubSeq(seq, 1, k - 1) \in Seq(Nat)
        /\ Len(SubSeq(seq, 1, k - 1)) = IF 1 <= k - 1 THEN k - 1 - 1 + 1 ELSE 0
        /\ \A i \in 1 .. k - 1 - 1 + 1 : SubSeq(seq, 1, k - 1)[i] = seq[1 + i - 1]
    BY <1>0, <2>1, SubSeqProperties
  <2>3. k - 1 - 1 + 1 = k - 1 /\ \A i \in 1 .. k - 1 : 1 + i - 1 = i
    BY <1>0
  <2>. QED
    BY <1>0, <2>2, <2>3 DEF head
<1>2. /\ tail \in Seq(Nat) /\ Len(tail) = Len(seq) - k + 1
      /\ \A i \in k .. Len(seq) : tail[i - k + 1] = seq[i]
  <2>1. \A i \in k .. Len(seq) : seq[i] \in Nat
    OBVIOUS
  <2>. HIDE DEF tail
  <2>2. /\ SubSeq(seq, k, Len(seq)) \in Seq(Nat)
        /\ Len(SubSeq(seq, k, Len(seq))) = IF k <= Len(seq) THEN Len(seq) - k + 1 ELSE 0
        /\ \A i \in 1 .. Len(seq) - k + 1 : SubSeq(seq, k, Len(seq))[i] = seq[k + i - 1]
    BY <1>0, <2>1, SubSeqProperties
  <2>3. ASSUME NEW i \in k .. Len(seq)
        PROVE  tail[i - k + 1] = seq[i]
    <3>1. i - k + 1 \in 1 .. Len(seq) - k + 1 /\ k + (i - k + 1) - 1 = i
      BY <1>0
    <3>. QED
      BY <2>2, <3>1 DEF tail
  <2>. QED
    BY <1>0, <2>2, <2>3 DEF tail
<1>3. item \in Seq(Nat) /\ Len(item) = 1 /\ item[1] = e
  OBVIOUS
<1>4. InsertAt(seq, k, e) = head \o item \o tail
  BY DEF InsertAt
<1>. HIDE DEF head, tail, item
<1>. DEFINE front == head \o item
<1>5. /\ front \in Seq(Nat) /\ Len(front) = k
      /\ \A i \in 1 .. k : front[i] = IF i <= k - 1 THEN seq[i] ELSE e
  <2>1. /\ front \in Seq(Nat) /\ Len(front) = Len(head) + Len(item)
        /\ \A i \in 1 .. Len(head) + Len(item) :
             front[i] = IF i <= Len(head) THEN head[i] ELSE item[i - Len(head)]
    BY <1>1, <1>3, ConcatProperties
  <2>2. Len(head) + Len(item) = k
    BY <1>0, <1>1, <1>3
  <2>. HIDE DEF front
  <2>3. ASSUME NEW i \in 1 .. k
        PROVE  front[i] = IF i <= k - 1 THEN seq[i] ELSE e
    <3>1. front[i] = IF i <= k - 1 THEN head[i] ELSE item[i - (k - 1)]
      BY <1>1, <2>1, <2>2
    <3>2. CASE i <= k - 1
      BY <1>0, <1>1, <3>1, <3>2
    <3>3. CASE ~(i <= k - 1)
      <4>1. i - (k - 1) = 1
        BY <1>0, <3>3
      <4>. QED
        BY <1>3, <3>1, <3>3, <4>1
    <3>. QED
      BY <3>2, <3>3
  <2>. QED
    BY <2>1, <2>2, <2>3
<1>. HIDE DEF front
<1>6. \A i \in 1 .. k + Len(tail) : (front \o tail)[i] = IF i <= k THEN front[i] ELSE tail[i - k]
  BY <1>2, <1>5, ConcatProperties
<1>7. InsertAt(seq, k, e) = front \o tail
  BY <1>4 DEF front
<1>8. k + Len(tail) = Len(seq) + 1
  BY <1>0, <1>2
<1>9. ASSUME NEW i \in 1 .. k - 1
      PROVE  InsertAt(seq, k, e)[i] = seq[i]
  <2>1. i \in 1 .. Len(seq) + 1 /\ i <= k /\ i \in 1 .. k /\ i <= k - 1
    BY <1>0
  <2>. QED
    BY <1>5, <1>6, <1>7, <1>8, <2>1
<1>10. InsertAt(seq, k, e)[k] = e
  <2>1. k \in 1 .. Len(seq) + 1 /\ k <= k /\ k \in 1 .. k /\ ~(k <= k - 1)
    BY <1>0
  <2>. QED
    BY <1>5, <1>6, <1>7, <1>8, <2>1
<1>11. ASSUME NEW i \in k .. Len(seq)
       PROVE  InsertAt(seq, k, e)[i + 1] = seq[i]
  <2>1. i + 1 \in 1 .. k + Len(tail)
    BY <1>0, <1>8
  <2>2. PICK j \in 1 .. k + Len(tail) : j = i + 1
    BY <2>1
  <2>3. ~(j <= k) /\ j - k = i - k + 1
    BY <1>0, <2>2
  <2>4. (front \o tail)[j] = tail[j - k]
    BY <1>6, <2>3
  <2>5. tail[i - k + 1] = seq[i]
    BY <1>2
  <2>. QED
    BY <1>7, <2>2, <2>3, <2>4, <2>5
<1>. QED
  BY <1>9, <1>10, <1>11

\* A new character in the k-th place.
LEMMA PlacedInsert ==
  ASSUME TypeOK, Placed, NEW k \in 1 .. NewChar, doc' = InsertAt(doc, k, NewChar)
  PROVE  /\ Placed' /\ Len(doc') = Len(doc) + 1 /\ Chars \subseteq Chars' /\ Len(doc) \in Nat
         /\ \A i \in 1 .. k - 1 : doc'[i] = doc[i]
         /\ doc'[k] = NewChar
         /\ \A i \in k .. Len(doc) : doc'[i + 1] = doc[i]
<1>. DEFINE n == Len(doc)
<1>1. n \in Nat /\ NewChar = n + 1 /\ k \in Nat /\ 1 <= k /\ k <= n + 1
  BY Counting DEF NewChar
<1>2. /\ Len(doc') = n + 1
      /\ \A i \in 1 .. k - 1 : doc'[i] = doc[i]
      /\ doc'[k] = n + 1
      /\ \A i \in k .. n : doc'[i + 1] = doc[i]
  BY <1>1, InsertAtType, InsertAtElements DEF TypeOK
<1>3. /\ \A i \in 1 .. n : doc[i] \in 1 .. n
      /\ \A i, j \in 1 .. n : doc[i] = doc[j] => i = j
      /\ \A c \in 1 .. n : \E i \in 1 .. n : doc[i] = c
  BY DEF Placed, Chars
<1>. HIDE DEF n
<1>4. \A i \in 1 .. n + 1 : i < k \/ i = k \/ (i > k /\ i - 1 \in k .. n /\ (i - 1) + 1 = i)
  BY <1>1
<1>5. ASSUME NEW i \in 1 .. n + 1
      PROVE  /\ i < k => i \in 1 .. n /\ doc'[i] = doc[i]
             /\ i > k => i - 1 \in 1 .. n /\ doc'[i] = doc[i - 1]
  BY <1>1, <1>2, <1>4
<1>6. ASSUME NEW i \in 1 .. n + 1
      PROVE  doc'[i] \in 1 .. n + 1 /\ (doc'[i] = n + 1 <=> i = k)
  <2>1. \A c \in 1 .. n : c \in 1 .. n + 1 /\ c # n + 1
    BY <1>1
  <2>2. CASE i = k
    BY <1>1, <1>2, <2>2
  <2>3. CASE i < k
    BY <1>1, <1>3, <1>5, <2>1, <2>3
  <2>4. CASE i > k
    <3>1. PICK j \in 1 .. n : doc'[i] = doc[j]
      BY <1>5, <2>4
    <3>2. i # k
      BY <1>1, <2>4
    <3>. QED
      BY <1>3, <2>1, <3>1, <3>2
  <2>. QED
    BY <1>1, <2>2, <2>3, <2>4
<1>7. ASSUME NEW i \in 1 .. n + 1, NEW j \in 1 .. n + 1, doc'[i] = doc'[j]
      PROVE  i = j
  <2>1. CASE i = k \/ j = k
    BY <1>6, <1>7, <2>1
  <2>2. CASE i < k /\ j < k
    BY <1>3, <1>5, <1>7, <2>2
  <2>3. CASE i > k /\ j > k
    BY <1>3, <1>5, <1>7, <2>3
  <2>4. CASE i < k /\ j > k
    <3>1. i = j - 1
      BY <1>3, <1>5, <1>7, <2>4
    <3>. QED
      BY <1>1, <2>4, <3>1
  <2>5. CASE i > k /\ j < k
    <3>1. j = i - 1
      BY <1>3, <1>5, <1>7, <2>5
    <3>. QED
      BY <1>1, <2>5, <3>1
  <2>. QED
    BY <1>4, <2>1, <2>2, <2>3, <2>4, <2>5
<1>8. ASSUME NEW c \in 1 .. n + 1
      PROVE  \E i \in 1 .. n + 1 : doc'[i] = c
  <2>1. CASE c = n + 1
    BY <1>1, <1>2, <2>1
  <2>2. CASE c # n + 1
    <3>1. PICK i \in 1 .. n : doc[i] = c
      BY <1>1, <1>3, <2>2
    <3>2. CASE i < k
      BY <1>1, <1>2, <3>1, <3>2
    <3>3. CASE i >= k
      <4>1. i \in k .. n /\ i + 1 \in 1 .. n + 1
        BY <1>1, <3>3
      <4>. QED
        BY <1>2, <3>1, <4>1
    <3>. QED
      BY <1>1, <3>2, <3>3
  <2>. QED
    BY <2>1, <2>2
<1>9. Placed'
  BY <1>2, <1>6, <1>7, <1>8 DEF Placed, Chars
<1>10. Chars \subseteq Chars'
  BY <1>1, <1>2 DEF Chars, n
<1>. QED
  BY <1>1, <1>2, <1>9, <1>10 DEF n

\* The document is totally ordered.
LEMMA Order ==
  ASSUME TypeOK, Placed, NEW c \in Chars, NEW d \in Chars
  PROVE  /\ c = d \/ Precedes(c, d) \/ Precedes(d, c)
         /\ Precedes(c, d) => c # d /\ ~Precedes(d, c)
<1>1. DOMAIN doc = Chars /\ Len(doc) \in Nat
  BY DEF TypeOK, Chars
<1>2. PICK i \in Chars, j \in Chars : doc[i] = c /\ doc[j] = d
  BY DEF Placed
<1>3. i \in Nat /\ j \in Nat
  BY <1>1 DEF Chars
<1>4. Precedes(c, d) <=> i < j
  BY <1>1, <1>2 DEF Precedes, Placed
<1>5. Precedes(d, c) <=> j < i
  BY <1>1, <1>2 DEF Precedes, Placed
<1>6. c = d <=> i = j
  BY <1>2 DEF Placed
<1>. QED
  BY <1>3, <1>4, <1>5, <1>6

LEMMA Transitive ==
  ASSUME TypeOK, Placed, NEW a, NEW b, NEW c, Precedes(a, b), Precedes(b, c)
  PROVE  Precedes(a, c)
<1>1. DOMAIN doc = Chars /\ Len(doc) \in Nat
  BY DEF TypeOK, Chars
<1>2. PICK i \in Chars, j \in Chars : i < j /\ doc[i] = a /\ doc[j] = b
  BY <1>1 DEF Precedes
<1>3. PICK l \in Chars, m \in Chars : l < m /\ doc[l] = b /\ doc[m] = c
  BY <1>1 DEF Precedes
<1>4. j = l
  BY <1>2, <1>3 DEF Placed
<1>5. i < m
  BY <1>1, <1>2, <1>3, <1>4 DEF Chars
<1>. QED
  BY <1>1, <1>2, <1>3, <1>5 DEF Precedes

LEMMA TextFinite ==
  ASSUME TypeOK
  PROVE  /\ Text \subseteq Chars /\ IsFiniteSet(Text) /\ Len(doc) \in Nat
         /\ \A S \in SUBSET Text : IsFiniteSet(S) /\ Cardinality(S) \in Nat
         /\ \A c : Before(c) \subseteq Text
<1>1. Len(doc) \in Nat
  BY Counting
<1>2. IsFiniteSet(1 .. Len(doc))
  BY <1>1, FS_Interval
<1>3. Text \subseteq Chars
  BY DEF Text, Chars
<1>4. \A S \in SUBSET Text : IsFiniteSet(S) /\ Cardinality(S) \in Nat
  BY <1>2, <1>3, FS_Subset, FS_CardinalityType DEF Chars
<1>. QED
  BY <1>1, <1>3, <1>4 DEF Before

\* Offsets grow along the document.
LEMMA OffsetGrows ==
  ASSUME TypeOK, Placed, NEW c \in Chars, NEW d \in Chars
  PROVE  /\ Precedes(c, d) /\ c \in Text => Offset(c) < Offset(d)
         /\ Precedes(c, d) \/ c = d => Offset(c) <= Offset(d)
         /\ Offset(c) <= Length /\ (c \in Text => Offset(c) < Length)
<1>1. /\ IsFiniteSet(Before(c)) /\ Offset(c) \in Nat
      /\ IsFiniteSet(Before(d)) /\ Offset(d) \in Nat
      /\ IsFiniteSet(Text) /\ Length \in Nat
      /\ Before(c) \subseteq Text /\ Before(d) \subseteq Text
  BY TextFinite DEF Offset, Length
<1>2. Precedes(c, d) => Before(c) \subseteq Before(d)
  BY Transitive DEF Before
<1>3. c \notin Before(c)
  BY Order DEF Before
<1>4. Precedes(c, d) \/ c = d => Offset(c) <= Offset(d)
  BY <1>1, <1>2, FS_Subset DEF Offset
<1>5. IsFiniteSet(Before(c) \cup {c}) /\ Cardinality(Before(c) \cup {c}) = Offset(c) + 1
  BY <1>1, <1>3, FS_AddElement DEF Offset
<1>6. ASSUME Precedes(c, d), c \in Text
      PROVE  Offset(c) < Offset(d)
  <2>1. Before(c) \cup {c} \subseteq Before(d)
    BY <1>2, <1>6 DEF Before
  <2>2. Cardinality(Before(c) \cup {c}) <= Offset(d)
    BY <1>1, <2>1, FS_Subset DEF Offset
  <2>. QED
    BY <1>1, <1>5, <2>2
<1>7. Offset(c) <= Length
  BY <1>1, FS_Subset DEF Offset, Length
<1>8. ASSUME c \in Text
      PROVE  Offset(c) < Length
  <2>1. Before(c) \cup {c} \subseteq Text
    BY <1>1, <1>8
  <2>2. Cardinality(Before(c) \cup {c}) <= Length
    BY <1>1, <2>1, FS_Subset DEF Length
  <2>. QED
    BY <1>1, <1>5, <2>2
<1>. QED
  BY <1>4, <1>6, <1>7, <1>8

\* The characters an Edit deletes in the text of its version are the anchored ones.
LEMMA DeletedRange ==
  ASSUME TypeOK, Placed, NEW sg, Anchored(sg), From(sg) <= To(sg)
  PROVE  {c \in Text : From(sg) <= Offset(c) /\ Offset(c) < To(sg)} = AnchoredText(sg)
<1>1. From(sg) \in Nat /\ To(sg) \in Nat
  BY Counting DEF From, To, AbsStart, AbsEnd
<1>2. 0 \notin Chars /\ NoEnd \notin Chars /\ NoEnd # 0
  BY TextFinite DEF Chars, NoEnd
<1>3. ASSUME NEW c \in Text
      PROVE  (From(sg) <= Offset(c) /\ Offset(c) < To(sg)) <=> c \in AnchoredText(sg)
  <2>1. c \in Chars /\ Offset(c) \in Nat /\ Offset(c) < Length /\ c \notin dead
    BY TextFinite, Counting, OffsetGrows DEF Text
  <2>2. CASE sg.start = 0
    BY <1>1, <2>1, <2>2, Counting DEF From, AbsStart, AnchoredText
  <2>3. CASE sg.end \in {0, NoEnd}
    <3>1. To(sg) = From(sg) \/ To(sg) = 0
      BY <1>2, <2>3 DEF To, AbsEnd
    <3>. QED
      BY <1>1, <2>1, <2>3, <3>1 DEF AnchoredText
  <2>4. CASE sg.start # 0 /\ sg.end \notin {0, NoEnd}
    <3>. DEFINE a == sg.start
                z == sg.end
    <3>1. a \in Chars /\ z \in Chars
      BY <2>4 DEF Anchored
    <3>2. From(sg) = Offset(a) /\ To(sg) = Offset(z) + (IF z \in dead THEN 0 ELSE 1)
      BY <2>4 DEF From, To, AbsStart, AbsEnd
    <3>. HIDE DEF a, z
    <3>3. Offset(a) \in Nat /\ Offset(z) \in Nat
      BY Counting
    <3>4. From(sg) <= Offset(c) <=> c = a \/ Precedes(a, c)
      <4>1. CASE c = a \/ Precedes(a, c)
        BY <2>1, <3>1, <3>2, <4>1, OffsetGrows
      <4>2. CASE ~(c = a \/ Precedes(a, c))
        <5>1. Precedes(c, a)
          BY <2>1, <3>1, <4>2, Order
        <5>2. Offset(c) < Offset(a)
          BY <2>1, <3>1, <5>1, OffsetGrows
        <5>. QED
          BY <2>1, <3>2, <3>3, <4>2, <5>2
      <4>. QED
        BY <4>1, <4>2
    <3>5. Offset(c) < To(sg) <=> c = z \/ Precedes(c, z)
      <4>1. CASE z \in dead
        <5>1. c # z
          BY <2>1, <4>1
        <5>2. CASE Precedes(c, z)
          BY <2>1, <3>1, <3>2, <3>3, <4>1, <5>2, OffsetGrows
        <5>3. CASE ~Precedes(c, z)
          <6>1. Precedes(z, c)
            BY <2>1, <3>1, <5>1, <5>3, Order
          <6>2. Offset(z) <= Offset(c)
            BY <2>1, <3>1, <6>1, OffsetGrows
          <6>. QED
            BY <2>1, <3>2, <3>3, <4>1, <5>1, <5>3, <6>2
        <5>. QED
          BY <5>2, <5>3
      <4>2. CASE z \notin dead
        <5>1. z \in Text
          BY <3>1, <4>2 DEF Text, Chars
        <5>2. CASE c = z \/ Precedes(c, z)
          <6>1. Offset(c) <= Offset(z)
            BY <2>1, <3>1, <5>2, OffsetGrows
          <6>. QED
            BY <2>1, <3>2, <3>3, <4>2, <5>2, <6>1
        <5>3. CASE ~(c = z \/ Precedes(c, z))
          <6>1. Precedes(z, c)
            BY <2>1, <3>1, <5>3, Order
          <6>2. Offset(z) < Offset(c)
            BY <2>1, <3>1, <5>1, <6>1, OffsetGrows
          <6>. QED
            BY <2>1, <3>2, <3>3, <4>2, <5>3, <6>2
        <5>. QED
          BY <5>2, <5>3
      <4>. QED
        BY <4>1, <4>2
    <3>. QED
      BY <2>4, <3>4, <3>5 DEF AnchoredText, a, z
  <2>. QED
    BY <2>2, <2>3, <2>4 DEF Anchored
<1>. QED
  BY <1>3 DEF AnchoredText

\* The characters that start before the anchors, and as many as From says.
LEMMA TextBeforeIs ==
  ASSUME TypeOK, Placed, NEW sg, Anchored(sg)
  PROVE  /\ TextBefore(sg) \subseteq Text /\ Cardinality(TextBefore(sg)) = From(sg) /\ From(sg) <= Length
         /\ \A d \in TextBefore(sg) : Offset(d) < From(sg)
<1>1. CASE sg.start = 0
  <2>1. TextBefore(sg) = Text /\ From(sg) = Length
    BY <1>1 DEF TextBefore, From, AbsStart
  <2>2. \A d \in Text : Offset(d) < Length
    BY TextFinite, OffsetGrows
  <2>. QED
    BY <2>1, <2>2, Counting DEF Length
<1>2. CASE sg.start # 0
  <2>1. sg.start \in Chars
    BY <1>2 DEF Anchored
  <2>2. TextBefore(sg) = Before(sg.start) /\ From(sg) = Offset(sg.start)
    BY <1>2 DEF TextBefore, From, AbsStart
  <2>3. \A d \in Before(sg.start) : d \in Text /\ d \in Chars /\ Precedes(d, sg.start)
    BY TextFinite DEF Before
  <2>4. \A d \in Before(sg.start) : Offset(d) < Offset(sg.start)
    BY <2>1, <2>3, OffsetGrows
  <2>5. Offset(sg.start) <= Length
    BY <2>1, OffsetGrows
  <2>. QED
    BY <2>2, <2>3, <2>4, <2>5 DEF Offset
<1>. QED
  BY <1>1, <1>2

\* What an Edit inserts ends up right behind the text that was before the anchors.
LEMMA WrittenAt ==
  ASSUME TypeOK, Placed, NEW sg, Anchored(sg), NEW gone \in SUBSET Chars, dead \subseteq gone,
         TextBefore(sg) \cap gone = {},
         NEW k \in Slots(From(sg), gone), doc' = InsertAt(doc, k, NewChar), dead' = gone
  PROVE  Before(Len(doc))' = TextBefore(sg)
<1>. DEFINE places == {i \in 1 .. k - 1 : doc[i] \notin gone}
            front  == {c \in Chars \ gone : \E i \in 1 .. k - 1 : doc[i] = c}
            goal   == TextBefore(sg)
<1>1. k \in 1 .. NewChar /\ Cardinality(places) = From(sg)
  BY DEF Slots
<1>2. /\ Len(doc) \in Nat /\ NewChar = Len(doc) + 1 /\ k \in Nat /\ k - 1 <= Len(doc)
      /\ \A i \in 1 .. k - 1 : i \in Chars /\ i \in Nat
  BY <1>1, Counting DEF NewChar, Chars
<1>3. /\ Placed' /\ Len(doc') = Len(doc) + 1
      /\ \A i \in 1 .. k - 1 : doc'[i] = doc[i]
      /\ doc'[k] = NewChar
  BY <1>1, PlacedInsert
<1>4. Before(Len(doc))' = front
  <2>1. DOMAIN doc' = 1 .. Len(doc)'
    BY <1>1, Counting, InsertAtType DEF NewChar, TypeOK
  <2>2. Text' = 1 .. NewChar \ gone /\ Len(doc)' = NewChar /\ NewChar \notin Chars
    BY <1>2, <1>3 DEF Text, Chars
  <2>3. \A j \in 1 .. NewChar : doc'[j] = NewChar <=> j = k
    <3>1. \A i, j \in 1 .. Len(doc') : doc'[i] = doc'[j] => i = j
      BY <1>3 DEF Placed, Chars
    <3>2. Len(doc') = NewChar
      BY <1>2, <1>3
    <3>. QED
      BY <1>1, <1>3, <3>1, <3>2
  <2>4. ASSUME NEW d
        PROVE  (\E i, j \in DOMAIN doc' : i < j /\ doc'[i] = d /\ doc'[j] = NewChar)
               <=> \E i \in 1 .. k - 1 : doc[i] = d
    <3>1. ASSUME NEW i \in DOMAIN doc', NEW j \in DOMAIN doc', i < j, doc'[i] = d, doc'[j] = NewChar
          PROVE  \E l \in 1 .. k - 1 : doc[l] = d
      <4>1. i \in 1 .. k - 1
        BY <1>2, <2>1, <2>2, <2>3, <3>1
      <4>. QED
        BY <1>3, <3>1, <4>1
    <3>2. ASSUME NEW i \in 1 .. k - 1, doc[i] = d
          PROVE  \E l, j \in DOMAIN doc' : l < j /\ doc'[l] = d /\ doc'[j] = NewChar
      <4>1. i \in DOMAIN doc' /\ k \in DOMAIN doc' /\ i < k
        BY <1>1, <1>2, <2>1, <2>2
      <4>. QED
        BY <1>3, <3>2, <4>1
    <3>. QED
      BY <3>1, <3>2
  <2>5. Before(Len(doc))' = {d \in Text' : \E i \in 1 .. k - 1 : doc[i] = d}
    <3>1. Before(Len(doc))' = {d \in Text' : \E i, j \in DOMAIN doc' : i < j /\ doc'[i] = d /\ doc'[j] = Len(doc)'}
      BY DEF Before, Precedes
    <3>2. Before(Len(doc))' = {d \in Text' : \E i, j \in DOMAIN doc' : i < j /\ doc'[i] = d /\ doc'[j] = NewChar}
      BY <2>2, <3>1
    <3>. QED
      BY <2>4, <3>2
  <2>6. \A i \in 1 .. k - 1 : doc[i] \in Chars /\ doc[i] \in 1 .. NewChar
    BY <1>2 DEF Placed, Chars
  <2>. QED
    BY <2>2, <2>5, <2>6
<1>5. IsFiniteSet(front) /\ Cardinality(front) = From(sg)
  <2>. DEFINE f == [i \in places |-> doc[i]]
  <2>1. IsFiniteSet(places)
    <3>1. IsFiniteSet(1 .. k - 1)
      BY <1>2, FS_Interval
    <3>. QED
      BY <3>1, FS_Subset
  <2>2. f \in [places -> front]
    BY <1>2 DEF Placed
  <2>3. \A i, j \in places : f[i] = f[j] => i = j
    BY <1>2 DEF Placed
  <2>4. \A c \in front : \E i \in places : f[i] = c
    OBVIOUS
  <2>. HIDE DEF f, places, front
  <2>5. f \in Injection(places, front)
    BY <2>2, <2>3 DEF Injection, IsInjective
  <2>6. f \in Bijection(places, front)
    BY <2>2, <2>4, <2>5 DEF Bijection, Surjection
  <2>7. ExistsBijection(places, front)
    BY <2>6 DEF ExistsBijection
  <2>8. IsFiniteSet(front) /\ Cardinality(front) = Cardinality(places)
    BY <2>1, <2>7, FS_Bijection
  <2>. QED
    BY <1>1, <2>8
<1>6. goal \subseteq Text /\ Cardinality(goal) = From(sg) /\ IsFiniteSet(goal)
  BY TextBeforeIs, TextFinite
<1>7. front \subseteq goal \/ goal \subseteq front
  <2>1. CASE sg.start = 0
    <3>1. goal = Text
      BY <2>1 DEF TextBefore
    <3>. QED
      BY <3>1 DEF Text, Chars
  <2>2. CASE sg.start # 0
    <3>1. goal = Before(sg.start) /\ sg.start \in Chars
      BY <2>2 DEF TextBefore, Anchored
    <3>2. PICK j \in Chars : doc[j] = sg.start
      BY <3>1 DEF Placed
    <3>3. DOMAIN doc = Chars /\ j \in Nat
      BY <1>2 DEF TypeOK, Chars
    <3>4. CASE j < k
      <4>1. ASSUME NEW d \in goal
            PROVE  d \in front
        <5>1. d \in Text /\ d \in Chars /\ d \notin gone /\ Precedes(d, sg.start)
          BY <3>1, TextFinite DEF Before
        <5>2. PICK i \in Chars, l \in Chars : i < l /\ doc[i] = d /\ doc[l] = sg.start
          BY <3>3, <5>1 DEF Precedes
        <5>3. l = j
          BY <3>2, <5>2 DEF Placed
        <5>4. i \in 1 .. k - 1
          BY <1>2, <3>3, <3>4, <5>2, <5>3 DEF Chars
        <5>. QED
          BY <5>1, <5>2, <5>4
      <4>. QED
        BY <4>1
    <3>5. CASE ~(j < k)
      <4>1. ASSUME NEW d \in front
            PROVE  d \in goal
        <5>1. PICK i \in 1 .. k - 1 : doc[i] = d
          OBVIOUS
        <5>2. i \in Chars /\ i < j
          BY <1>2, <3>3, <3>5
        <5>3. Precedes(d, sg.start)
          BY <3>2, <3>3, <5>1, <5>2 DEF Precedes
        <5>4. d \in Text
          BY DEF Text, Chars
        <5>. QED
          BY <3>1, <5>3, <5>4 DEF Before
      <4>. QED
        BY <4>1
    <3>. QED
      BY <3>4, <3>5
  <2>. QED
    BY <2>1, <2>2
<1>8. front = goal
  <2>. HIDE DEF front, goal
  <2>. QED
    BY <1>5, <1>6, <1>7, FS_Subset
<1>. QED
  BY <1>4, <1>8

\* An Edit that finds the text AbsPos saw.
LEMMA EditHits ==
  ASSUME TypeOK, Positions, NEW m \in calls, SidecarEdit(m), m.ver = DocVersion
  PROVE  /\ dead' \ dead = AnchoredText(m.sg)
         /\ m.puts => Before(Len(doc))' = TextBefore(m.sg)
<1>. DEFINE sg == m.sg
            range == {c \in Text : From(sg) <= Offset(c) /\ Offset(c) < To(sg)}
            gone == dead \cup range
<1>1. /\ Placed /\ Anchored(sg) /\ m.from = From(sg) /\ m.to = To(sg) /\ From(sg) <= To(sg)
  BY DEF Positions, AllAnchored, UpToDate
<1>2. /\ From(sg) <= Length /\ TextBefore(sg) \subseteq Text
      /\ \A d \in TextBefore(sg) : Offset(d) < From(sg)
  BY <1>1, TextBeforeIs
<1>3. From(sg) \in Nat /\ Length \in Nat
  BY Counting DEF From, AbsStart
<1>4. (IF m.from < Length THEN m.from ELSE Length) = From(sg)
  BY <1>1, <1>2, <1>3
<1>5. dead' = gone /\ (m.puts => \E k \in Slots(From(sg), gone) : doc' = InsertAt(doc, k, NewChar))
  BY <1>1, <1>4 DEF SidecarEdit
<1>6. range = AnchoredText(sg)
  BY <1>1, DeletedRange
<1>7. dead' \ dead = AnchoredText(sg)
  BY <1>5, <1>6 DEF Text
<1>8. ASSUME m.puts
      PROVE  Before(Len(doc))' = TextBefore(sg)
  <2>1. PICK k \in Slots(From(sg), gone) : doc' = InsertAt(doc, k, NewChar)
    BY <1>5, <1>8
  <2>2. gone \in SUBSET Chars /\ dead \subseteq gone
    BY TextFinite DEF TypeOK, Chars
  <2>3. \A d \in Text : Offset(d) \in Nat
    BY Counting
  <2>4. TextBefore(sg) \cap gone = {}
    BY <1>2, <1>3, <2>3 DEF Text
  <2>. HIDE DEF gone, sg
  <2>. QED
    BY <1>1, <1>5, <2>1, <2>2, <2>4, WrittenAt
<1>. QED
  BY <1>7, <1>8

-----------------------------------------------------------------------------
(* Positions is kept.                                                       *)

LEMMA SameText ==
  ASSUME UNCHANGED <<doc, dead>>
  PROVE  \A sg : From(sg)' = From(sg) /\ To(sg)' = To(sg)
<1>1. Text' = Text /\ Length' = Length
  BY DEF Text, Length
<1>2. \A c : Offset(c)' = Offset(c)
  BY <1>1 DEF Offset, Before, Precedes
<1>3. \A c : AbsStart(c)' = AbsStart(c) /\ AbsEnd(c)' = AbsEnd(c)
  BY <1>1, <1>2 DEF AbsStart, AbsEnd
<1>. QED
  BY <1>3 DEF From, To

\* Every change of the text makes its version greater.
LEMMA VersionGrows ==
  ASSUME TypeOK, TypeOK', dead \subseteq dead', doc' = doc \/ Len(doc') = Len(doc) + 1
  PROVE  /\ DocVersion \in Nat /\ DocVersion' \in Nat /\ DocVersion' >= DocVersion
         /\ DocVersion' = DocVersion => UNCHANGED <<doc, dead>>
<1>1. /\ IsFiniteSet(dead) /\ Cardinality(dead) \in Nat
      /\ IsFiniteSet(dead') /\ Cardinality(dead') \in Nat
      /\ Len(doc) \in Nat /\ Len(doc') \in Nat
  <2>1. Len(doc) \in Nat /\ Len(doc') \in Nat
    BY DEF TypeOK
  <2>2. IsFiniteSet(1 .. Len(doc)) /\ IsFiniteSet(1 .. Len(doc'))
    BY <2>1, FS_Interval
  <2>3. IsFiniteSet(dead) /\ IsFiniteSet(dead')
    BY <2>2, FS_Subset DEF TypeOK
  <2>. QED
    BY <2>1, <2>3, FS_CardinalityType
<1>2. Cardinality(dead) <= Cardinality(dead') /\ (Cardinality(dead) = Cardinality(dead') => dead' = dead)
  BY <1>1, FS_Subset
<1>3. DocVersion = Len(doc) + Cardinality(dead) /\ DocVersion' = Len(doc') + Cardinality(dead')
  BY DEF DocVersion
<1>. QED
  BY <1>1, <1>2, <1>3

\* A step brings in no anchors but those of the text.
LEMMA AnchoredStep ==
  ASSUME AllAnchored, Chars \subseteq Chars',
         \A s \in Suggs : anchors'[s] = anchors[s] \/ \E r \in Requests : anchors'[s] = snap[r],
         \A r \in Requests : \/ snap'[r] = snap[r] \/ snap'[r] = NoAnchors
                             \/ \E s \in Suggs : snap'[r] = anchors[s]
                             \/ Anchored(snap'[r]),
         \A m \in calls' : m \in calls \/ \E r \in Requests : m.sg = snap[r]
  PROVE  AllAnchored'
<1>1. \A sg : Anchored(sg) => Anchored(sg)'
  BY DEF Anchored
<1>2. Anchored(NoAnchors)
  BY DEF Anchored, NoAnchors
<1>3. \A s \in Suggs : Anchored(anchors'[s])
  BY DEF AllAnchored
<1>4. \A r \in Requests : Anchored(snap'[r])
  BY <1>2 DEF AllAnchored
<1>5. \A m \in calls' : Anchored(m.sg)
  BY DEF AllAnchored
<1>. QED
  BY <1>1, <1>3, <1>4, <1>5 DEF AllAnchored

\* Calls only go, or the text stays and a new one is made for it.
LEMMA UpToDateStep ==
  ASSUME TypeOK, TypeOK', UpToDate, dead \subseteq dead', doc' = doc \/ Len(doc') = Len(doc) + 1,
         calls' \subseteq calls
  PROVE  UpToDate'
<1>1. /\ DocVersion \in Nat /\ DocVersion' \in Nat /\ DocVersion' >= DocVersion
      /\ DocVersion' = DocVersion => UNCHANGED <<doc, dead>>
  BY VersionGrows
<1>. SUFFICES ASSUME NEW m \in calls'
              PROVE  /\ m.ver <= DocVersion'
                     /\ m.ver = DocVersion' => /\ m.from = From(m.sg)' /\ m.to = To(m.sg)'
                                               /\ m.from <= m.to
  BY DEF UpToDate
<1>2. /\ m.ver \in Nat /\ m.ver <= DocVersion
      /\ m.ver = DocVersion => m.from = From(m.sg) /\ m.to = To(m.sg) /\ m.from <= m.to
  BY DEF UpToDate, TypeOK, Call
<1>3. m.ver <= DocVersion'
  BY <1>1, <1>2
<1>4. ASSUME m.ver = DocVersion'
      PROVE  m.from = From(m.sg)' /\ m.to = To(m.sg)' /\ m.from <= m.to
  <2>1. UNCHANGED <<doc, dead>> /\ m.ver = DocVersion
    BY <1>1, <1>2, <1>4
  <2>. QED
    BY <1>2, <2>1, SameText
<1>. QED
  BY <1>3, <1>4

\* Which way a step can change the text.
LEMMA TextStep ==
  ASSUME TypeOK, [Next]_vars
  PROVE  /\ dead \subseteq dead'
         /\ doc' = doc \/ \E k \in 1 .. NewChar : doc' = InsertAt(doc, k, NewChar)
<1>1. ASSUME NEW m \in calls, SidecarEdit(m)
      PROVE  /\ dead \subseteq dead'
             /\ doc' = doc \/ \E k \in 1 .. NewChar : doc' = InsertAt(doc, k, NewChar)
  BY <1>1 DEF SidecarEdit, Slots
<1>. QED
  BY <1>1 DEF Next, ServerStep, UserInserts, UserDeletes, handleCreateSuggestion,
     handleUpdateSuggestion, handleResolveSuggestion, CreateSuggestion, UpdateSuggestionAnchors,
     ResolveSuggestion, applySuggestion, AbsPosFails, EditAnswered, EditFails, EditUnanswered, Rollback,
     Cancelled, Abandoned, CallDropped, vars, docVars

LEMMA PlacedStep ==
  ASSUME TypeOK, Placed, [Next]_vars
  PROVE  Placed' /\ Chars \subseteq Chars' /\ (doc' = doc \/ Len(doc') = Len(doc) + 1)
<1>1. CASE doc' = doc
  BY <1>1 DEF Placed, Chars
<1>2. ASSUME NEW k \in 1 .. NewChar, doc' = InsertAt(doc, k, NewChar)
      PROVE  Placed' /\ Chars \subseteq Chars' /\ Len(doc') = Len(doc) + 1
  BY <1>2, PlacedInsert
<1>. QED
  BY <1>1, <1>2, TextStep

LEMMA PositionsInit == Init => Positions
<1>. SUFFICES ASSUME Init PROVE Positions
  OBVIOUS
<1>1. Len(doc) = InitialLength /\ \A i \in 1 .. InitialLength : doc[i] = i
  BY SuggestionConstants, IsASeq DEF Init
<1>2. Placed
  BY <1>1 DEF Placed, Chars
<1>3. AllAnchored /\ UpToDate
  BY DEF Init, AllAnchored, Anchored, UpToDate, NoAnchors
<1>. QED
  BY <1>2, <1>3 DEF Positions

\* The anchors computed for an offset name characters of the text.
LEMMA ComputedAnchors ==
  ASSUME TypeOK, NEW r \in Requests, NEW s \in Suggs, computeSuggestionAnchors(r, s)
  PROVE  \A q \in Requests : snap'[q] = snap[q] \/ Anchored(snap'[q])
<1>1. PICK from \in 0 .. Length, to \in 0 .. Length :
        \E start \in RelStart(from), end \in IF KindOf[s] = "insert" THEN {NoEnd} ELSE RelEnd(to) :
          snap' = [snap EXCEPT ![r] = [start |-> start, end |-> end, rev |-> anchors[s].rev + 1]]
  BY DEF computeSuggestionAnchors
<1>2. RelStart(from) \subseteq Chars \cup {0} /\ RelEnd(to) \subseteq Chars \cup {0}
  BY TextFinite DEF RelStart, RelEnd
<1>3. PICK start \in Chars \cup {0}, end \in Chars \cup {0, NoEnd} :
        snap' = [snap EXCEPT ![r] = [start |-> start, end |-> end, rev |-> anchors[s].rev + 1]]
  BY <1>1, <1>2
<1>4. snap'[r] = [start |-> start, end |-> end, rev |-> anchors[s].rev + 1]
  BY <1>3 DEF TypeOK
<1>5. Anchored(snap'[r])
  BY <1>4 DEF Anchored
<1>. QED
  BY <1>3, <1>5 DEF TypeOK

\* A request that stops forgets its anchors.
LEMMA Forgotten ==
  ASSUME TypeOK, NEW r \in Requests, Finish(r)
  PROVE  \A q \in Requests : snap'[q] = snap[q] \/ snap'[q] = NoAnchors
BY DEF Finish, TypeOK

LEMMA PositionsStep ==
  ASSUME TypeOK, Positions, [Next]_vars
  PROVE  Positions'
<1>. DEFINE RowsKept  == \A s \in Suggs : anchors'[s] = anchors[s] \/ \E r \in Requests : anchors'[s] = snap[r]
            SnapsKept == \A r \in Requests : \/ snap'[r] = snap[r] \/ snap'[r] = NoAnchors
                                             \/ \E s \in Suggs : snap'[r] = anchors[s]
                                             \/ Anchored(snap'[r])
<1>0. /\ TypeOK' /\ Placed /\ AllAnchored /\ UpToDate
      /\ dead \subseteq dead' /\ Placed' /\ Chars \subseteq Chars' /\ (doc' = doc \/ Len(doc') = Len(doc) + 1)
  BY TypeStep, TextStep, PlacedStep DEF Positions
<1>. USE DEF docVars, rowVars, ghosts
<1>1. CASE UserInserts \/ UserDeletes \/ UNCHANGED vars
  BY <1>0, <1>1, UpToDateStep, AnchoredStep DEF UserInserts, UserDeletes, vars, Positions
<1>2. ASSUME NEW r \in Requests, NEW s \in Suggs,
             \/ handleCreateSuggestion(r, s) \/ handleUpdateSuggestion(r, s)
             \/ \E u \in Users, verb \in {"accepted", "rejected"} : handleResolveSuggestion(r, s, u, verb)
      PROVE  RowsKept /\ SnapsKept /\ UNCHANGED calls
  <2>1. RowsKept /\ UNCHANGED calls
    BY <1>2 DEF handleCreateSuggestion, handleUpdateSuggestion, handleResolveSuggestion
  <2>2. CASE handleCreateSuggestion(r, s) \/ handleUpdateSuggestion(r, s)
    BY <2>1, <2>2, ComputedAnchors DEF handleCreateSuggestion, handleUpdateSuggestion
  <2>3. CASE \E u \in Users, verb \in {"accepted", "rejected"} : handleResolveSuggestion(r, s, u, verb)
    BY <2>1, <2>3 DEF handleResolveSuggestion, TypeOK
  <2>. QED
    BY <1>2, <2>2, <2>3
<1>3. ASSUME NEW r \in Requests, CreateSuggestion(r) \/ UpdateSuggestionAnchors(r)
      PROVE  RowsKept /\ SnapsKept /\ UNCHANGED calls
  <2>1. SnapsKept
    BY <1>3, Forgotten DEF CreateSuggestion, UpdateSuggestionAnchors
  <2>2. RowsKept
    BY <1>3 DEF CreateSuggestion, UpdateSuggestionAnchors, TypeOK
  <2>. QED
    BY <1>3, <2>1, <2>2 DEF CreateSuggestion, UpdateSuggestionAnchors
<1>4. ASSUME NEW r \in Requests,
             \/ ResolveSuggestion(r) \/ AbsPosFails(r) \/ EditAnswered(r) \/ EditFails(r)
             \/ EditUnanswered(r) \/ Rollback(r) \/ Cancelled(r) \/ Abandoned(r)
      PROVE  RowsKept /\ SnapsKept /\ calls' \subseteq calls
  <2>1. UNCHANGED anchors /\ calls' \subseteq calls /\ (UNCHANGED snap \/ Finish(r))
    BY <1>4 DEF ResolveSuggestion, AbsPosFails, EditAnswered, EditFails, EditUnanswered, Rollback,
       Cancelled, Abandoned
  <2>. QED
    BY <2>1, Forgotten
<1>5. ASSUME NEW m \in calls, SidecarEdit(m) \/ CallDropped(m)
      PROVE  RowsKept /\ SnapsKept /\ calls' \subseteq calls
  BY <1>5 DEF SidecarEdit, CallDropped
<1>6. ASSUME RowsKept, SnapsKept, calls' \subseteq calls
      PROVE  Positions'
  BY <1>0, <1>6, UpToDateStep, AnchoredStep DEF Positions
<1>7. ASSUME NEW r \in Requests, applySuggestion(r)
      PROVE  Positions'
  <2>. DEFINE sg == snap[r]
              from == AbsStart(sg.start)
              to == IF sg.end = NoEnd THEN from ELSE AbsEnd(sg.end)
              s == req[r].s
              m == [id |-> lost[s] + stranded[s], s |-> s,
                    from |-> from, to |-> to, puts |-> PutsText(s, req[r].verb),
                    sg |-> sg, ver |-> DocVersion]
  <2>1. RowsKept /\ SnapsKept /\ UNCHANGED <<doc, dead>>
    BY <1>7 DEF applySuggestion
  <2>2. CASE UNCHANGED calls
    BY <1>6, <2>1, <2>2
  <2>3. CASE ~UNCHANGED calls
    <3>1. ~(from < 0 \/ to < from) /\ calls' = calls \cup {m}
      BY <1>7, <2>3 DEF applySuggestion
    <3>2. from = From(sg) /\ to = To(sg) /\ from \in Nat /\ to \in Nat /\ DocVersion \in Nat
      BY Counting DEF From, To, AbsStart, AbsEnd
    <3>3. m.from = From(sg) /\ m.to = To(sg) /\ m.ver = DocVersion /\ m.sg = sg /\ from <= to
      BY <3>1, <3>2
    <3>4. \A n \in calls' : n \in calls \/ n.sg = sg
      BY <3>1
    <3>5. AllAnchored'
      BY <1>0, <2>1, <3>4, AnchoredStep
    <3>6. DocVersion' = DocVersion /\ \A t : From(t)' = From(t) /\ To(t)' = To(t)
      BY <2>1, SameText DEF DocVersion
    <3>. HIDE DEF m, sg, from, to
    <3>7. ASSUME NEW n \in calls'
          PROVE  /\ n.ver <= DocVersion'
                 /\ n.ver = DocVersion' => n.from = From(n.sg)' /\ n.to = To(n.sg)' /\ n.from <= n.to
      <4>1. CASE n \in calls
        BY <1>0, <3>6, <4>1 DEF UpToDate
      <4>2. CASE n = m
        BY <3>2, <3>3, <3>6, <4>2
      <4>. QED
        BY <3>1, <4>1, <4>2
    <3>8. UpToDate'
      BY <3>7 DEF UpToDate
    <3>. QED
      BY <1>0, <3>5, <3>8 DEF Positions
  <2>. QED
    BY <2>2, <2>3
<1>. QED
  BY <1>1, <1>2, <1>3, <1>4, <1>5, <1>6, <1>7 DEF Next, ServerStep

\* Anchors always name characters of the document, tombstones included, and an
\* Edit carries the offsets its anchors have in the text of its version.
THEOREM PositionsKept == Spec => []Positions
BY TypeInit, TypeStep, PositionsInit, PositionsStep, PTL DEF Spec

\* Only the sidecar executes an Edit: its id is not among the executed ones.
LEMMA ExecutedBySidecar ==
  ASSUME IInv, [Next]_vars, NEW m \in calls, Executed(m)
  PROVE  SidecarEdit(m)
<1>1. m.s \in Suggs /\ m.id \notin applied[m.s]
  BY DEF IInv, TypeOK, Call, Ids, IdsOf
<1>2. \E n \in calls : SidecarEdit(n)
  BY <1>1 DEF Executed, Next, ServerStep, UserInserts, UserDeletes, handleCreateSuggestion,
     handleUpdateSuggestion, handleResolveSuggestion, CreateSuggestion, UpdateSuggestionAnchors,
     ResolveSuggestion, applySuggestion, AbsPosFails, EditAnswered, EditFails, EditUnanswered, Rollback,
     Cancelled, Abandoned, CallDropped, vars, ghosts
<1>. QED
  BY <1>2 DEF SidecarEdit, Executed

\* Whatever was typed or deleted around and inside the anchored characters
\* since they were chosen, applySuggestion makes the sidecar delete exactly
\* those that are left and put its text where they began, as long as nobody
\* changes the text between AbsPos and Edit.
THEOREM EditHitsItsRangeAlways == Spec => EditHitsItsRange
<1>1. ASSUME IInv, Positions, [Next]_vars, NEW m \in calls, Executed(m), m.ver = DocVersion
      PROVE  /\ dead' \ dead = AnchoredText(m.sg)
             /\ m.puts => Before(Len(doc))' = TextBefore(m.sg)
  <2>1. TypeOK /\ SidecarEdit(m)
    BY <1>1, ExecutedBySidecar DEF IInv
  <2>. QED
    BY <1>1, <2>1, EditHits
<1>2. IInv /\ Positions /\ [Next]_vars =>
        [\A m \in calls : Executed(m) /\ m.ver = DocVersion =>
           /\ dead' \ dead = AnchoredText(m.sg)
           /\ m.puts => Before(Len(doc))' = TextBefore(m.sg)]_vars
  BY <1>1
<1>. QED
  BY <1>2, Invariant, PositionsKept, PTL DEF Spec, EditHitsItsRange

-----------------------------------------------------------------------------
(* The ledger.  With no answer lost and no request cancelled every Edit has *)
(* the id 0, and a call that waits belongs to the one request that edits.   *)

NothingLost == \A s \in Suggs : lost[s] = 0 /\ stranded[s] = 0

\* What the ledger shows of a suggestion.
Shown(s) == IF InDoubt(s) THEN "open" ELSE status[s]

LEMMA NothingLostStep ==
  ASSUME MaxLost = 0, MaxCancelled = 0, IInv, NothingLost, [Next]_vars
  PROVE  NothingLost'
<1>1. ASSUME NEW r \in Requests, EditUnanswered(r) \/ Cancelled(r)
      PROVE  FALSE
  <2>1. req[r].s \in Suggs
    BY <1>1, ActiveRequest DEF EditUnanswered, Cancelled, IInv
  <2>. QED
    BY <1>1, <2>1 DEF EditUnanswered, Cancelled, NothingLost
<1>2. UNCHANGED <<lost, stranded>>
  BY <1>1 DEF Next, ServerStep, UserInserts, UserDeletes, handleCreateSuggestion,
     handleUpdateSuggestion, handleResolveSuggestion, CreateSuggestion, UpdateSuggestionAnchors,
     ResolveSuggestion, applySuggestion, AbsPosFails, EditAnswered, EditFails, Rollback, Abandoned,
     SidecarEdit, CallDropped, vars, ghosts
<1>. QED
  BY <1>2 DEF NothingLost

LEMMA LedgerStutters ==
  ASSUME \A s \in Suggs : Shown(s)' = Shown(s), UNCHANGED applied
  PROVE  UNCHANGED Ledger!vars
<1>1. \A s \in Suggs : TimesApplied(s)' = TimesApplied(s)
  BY DEF TimesApplied
<1>2. [s \in Suggs |-> TimesApplied(s)]' = [s \in Suggs |-> TimesApplied(s)]
  BY <1>1
<1>3. [s \in Suggs |-> IF InDoubt(s) THEN "open" ELSE status[s]]' =
      [s \in Suggs |-> IF InDoubt(s) THEN "open" ELSE status[s]]
  BY DEF Shown
<1>. QED
  BY <1>2, <1>3 DEF Ledger!vars

LEMMA LedgerOpens ==
  ASSUME NEW s \in Suggs, Shown(s) = "none", Shown(s)' = "open",
         \A t \in Suggs : t # s => Shown(t)' = Shown(t), UNCHANGED applied
  PROVE  Ledger!Next
<1>1. \A t \in Suggs : TimesApplied(t)' = TimesApplied(t)
  BY DEF TimesApplied
<1>2. [t \in Suggs |-> TimesApplied(t)]' = [t \in Suggs |-> TimesApplied(t)]
  BY <1>1
<1>3. [t \in Suggs |-> IF InDoubt(t) THEN "open" ELSE status[t]]' =
      [[t \in Suggs |-> IF InDoubt(t) THEN "open" ELSE status[t]] EXCEPT ![s] = "open"]
  BY DEF Shown
<1>4. [t \in Suggs |-> IF InDoubt(t) THEN "open" ELSE status[t]][s] = "none"
  BY DEF Shown
<1>5. Ledger!Open(s)
  BY <1>2, <1>3, <1>4 DEF Ledger!Open
<1>. QED
  BY <1>5 DEF Ledger!Next

LEMMA LedgerResolves ==
  ASSUME NEW s \in Suggs, NEW verb \in {"accepted", "rejected"},
         Shown(s) = "open", Shown(s)' = verb,
         \A t \in Suggs : t # s => Shown(t)' = Shown(t) /\ TimesApplied(t)' = TimesApplied(t),
         TimesApplied(s)' = IF OwesEdit(s, verb) THEN TimesApplied(s) + 1 ELSE TimesApplied(s)
  PROVE  Ledger!Next
<1>1. Ledger!Owes(s, verb) <=> OwesEdit(s, verb)
  BY DEF Ledger!Owes, OwesEdit
<1>2. [t \in Suggs |-> IF InDoubt(t) THEN "open" ELSE status[t]]' =
      [[t \in Suggs |-> IF InDoubt(t) THEN "open" ELSE status[t]] EXCEPT ![s] = verb]
  BY DEF Shown
<1>3. [t \in Suggs |-> IF InDoubt(t) THEN "open" ELSE status[t]][s] = "open"
  BY DEF Shown
<1>4. [t \in Suggs |-> TimesApplied(t)]' =
      IF OwesEdit(s, verb)
      THEN [[t \in Suggs |-> TimesApplied(t)] EXCEPT ![s] = @ + 1]
      ELSE [t \in Suggs |-> TimesApplied(t)]
  OBVIOUS
<1>5. Ledger!Resolve(s, verb)
  BY <1>1, <1>2, <1>3, <1>4 DEF Ledger!Resolve
<1>. QED
  BY <1>5 DEF Ledger!Next

\* Without losses every Edit has the id 0 and is awaited until it is executed.
LEMMA Numbered ==
  ASSUME IInv, NothingLost, NEW s \in Suggs
  PROVE  /\ applied[s] \subseteq {0}
         /\ Awaited(s) = {m \in calls : m.s = s}
         /\ InUse(s) <=> 0 \in applied[s] \/ Awaited(s) # {}
         /\ Awaited(s) # {} => applied[s] = {}
         /\ \A m, n \in Awaited(s) : m = n
<1>1. lost[s] = 0 /\ stranded[s] = 0
  BY DEF NothingLost
<1>2. IdsOf(s)
  BY InvOf
<1>3. \A i : i \in 0 .. 0 <=> i = 0
  OBVIOUS
<1>4. applied[s] \subseteq {0} /\ \A m \in calls : m.s = s => m.id = 0 /\ 0 \notin applied[s]
  BY <1>1, <1>2, <1>3 DEF IdsOf
<1>5. Awaited(s) = {m \in calls : m.s = s}
  BY <1>1, <1>4 DEF Awaited
<1>6. \A m, n \in Awaited(s) : m = n
  BY <1>2, <1>4, <1>5 DEF IdsOf
<1>7. Awaited(s) # {} => applied[s] = {}
  BY <1>4, <1>5
<1>8. InUse(s) <=> 0 \in applied[s] \/ Awaited(s) # {}
  BY <1>1, <1>4, <1>5 DEF InUse
<1>. QED
  BY <1>4, <1>5, <1>6, <1>7, <1>8

\* Who does not hold a suggestion leaves it as the ledger shows it.
LEMMA ShownKept ==
  ASSUME NEW s \in Suggs, Holders(s)' = Holders(s),
         \A q \in Holders(s) : req'[q] = req[q],
         status'[s] = status[s], Awaited(s)' = Awaited(s)
  PROVE  Shown(s)' = Shown(s)
BY DEF Shown, InDoubt

LEMMA ShownFree ==
  ASSUME NEW s, Holders(s) = {}
  PROVE  Shown(s) = status[s]
BY DEF Shown, InDoubt

\* What a step of the request r about s leaves of the other suggestions.
LEMMA OthersShown ==
  ASSUME NEW r \in Requests, NEW s \in Suggs,
         req[r].s = s \/ req[r].pc \notin {"claimed", "editing", "rollback"},
         req'[r].s = s \/ req'[r].pc \notin {"claimed", "editing", "rollback"},
         \A q \in Requests : q # r => req'[q] = req[q],
         \A t \in Suggs : t # s => status'[t] = status[t],
         \A m : m.s # s => (m \in calls' <=> m \in calls), UNCHANGED <<lost, stranded>>
  PROVE  \A t \in Suggs : t # s => Shown(t)' = Shown(t)
<1>. TAKE t \in Suggs
<1>. HAVE t # s
<1>1. Awaited(t)' = Awaited(t)
  BY DEF Awaited
<1>2. Holders(t)' = Holders(t) /\ \A q \in Holders(t) : req'[q] = req[q]
  BY OthersHold
<1>. QED
  BY <1>1, <1>2, ShownKept

LEMMA LedgerCreate ==
  ASSUME IInv, NEW r \in Requests, NEW s \in Suggs, req[r].s = s, CreateSuggestion(r)
  PROVE  Ledger!Next
<1>1. /\ req[r].pc = "create" /\ status[s] = "none"
      /\ status' = [status EXCEPT ![s] = "open"]
      /\ UNCHANGED <<calls, applied, lost, stranded>>
  BY InvOf DEF CreateSuggestion, Creators, ghosts
<1>2. req'[r].pc = "idle" /\ \A q \in Requests : q # r => req'[q] = req[q]
  BY InvOf, MovedByFinish DEF CreateSuggestion
<1>3. status'[s] = "open" /\ \A t \in Suggs : t # s => status'[t] = status[t]
  BY <1>1, InvOf DEF TypeOK
<1>4. Holders(s) = {} /\ Holders(s)' = {}
  <2>1. \A q \in Holders(s) : req[q].verb \in {"accepted", "rejected"}
    BY InvOf, ActiveRequest DEF Holders
  <2>2. Holders(s) = {}
    BY <2>1, <1>1, InvOf DEF ClaimsOf
  <2>. QED
    BY <2>2, <1>2 DEF Holders
<1>5. Shown(s) = "none" /\ Shown(s)' = "open"
  BY <1>1, <1>3, <1>4 DEF Shown, InDoubt
<1>6. \A t \in Suggs : t # s => Shown(t)' = Shown(t)
  BY <1>1, <1>2, <1>3, OthersShown
<1>. QED
  BY <1>1, <1>5, <1>6, LedgerOpens

LEMMA LedgerClaim ==
  ASSUME IInv, NEW r \in Requests, NEW s \in Suggs, req[r].s = s, ResolveSuggestion(r)
  PROVE  Ledger!Next \/ UNCHANGED Ledger!vars
<1>. DEFINE verb == req[r].verb
<1>1. /\ req[r].pc = "read" /\ verb \in {"accepted", "rejected"}
      /\ UNCHANGED <<calls, applied, lost, stranded>>
      /\ \A q \in Requests : q # r => req'[q] = req[q]
      /\ req'[r].s = s \/ req'[r].pc = "idle"
  BY InvOf, ActiveRequest, MovedByGoto, MovedByFinish DEF ResolveSuggestion, ghosts
<1>2. CASE status[s] # "open"
  <2>1. UNCHANGED status /\ req'[r].pc = "idle"
    BY <1>2, InvOf, MovedByFinish DEF ResolveSuggestion
  <2>2. \A t \in Suggs : Holders(t)' = Holders(t) /\ \A q \in Holders(t) : req'[q] = req[q]
    BY <1>1, <2>1 DEF Holders
  <2>3. \A t \in Suggs : Awaited(t)' = Awaited(t)
    BY <1>1 DEF Awaited
  <2>4. \A t \in Suggs : Shown(t)' = Shown(t)
    BY <2>1, <2>2, <2>3, ShownKept
  <2>. QED
    BY <1>1, <2>4, LedgerStutters
<1>3. CASE status[s] = "open"
  <2>1. status'[s] = verb /\ \A t \in Suggs : t # s => status'[t] = status[t]
    BY <1>3, InvOf DEF ResolveSuggestion, TypeOK
  <2>2. Holders(s) = {}
    <3>1. \A q \in Holders(s) : req[q].verb \in {"accepted", "rejected"}
      BY InvOf, ActiveRequest DEF Holders
    <3>. QED
      BY <3>1, <1>3, InvOf DEF ClaimsOf
  <2>3. Shown(s) = "open"
    BY <1>3, <2>2, ShownFree
  <2>4. \A t \in Suggs : t # s => Shown(t)' = Shown(t)
    BY <1>1, <2>1, OthersShown
  <2>5. CASE OwesEdit(s, verb)
    <3>1. req'[r].pc = "claimed" /\ req'[r].s = s
      BY <1>3, <2>5, InvOf, MovedByGoto DEF ResolveSuggestion
    <3>2. Shown(s)' = "open"
      BY <3>1 DEF Shown, InDoubt, Holders
    <3>3. \A t \in Suggs : Shown(t)' = Shown(t)
      BY <2>3, <2>4, <3>2
    <3>. QED
      BY <1>1, <3>3, LedgerStutters
  <2>6. CASE ~OwesEdit(s, verb)
    <3>1. req'[r].pc = "idle"
      BY <1>3, <2>6, InvOf, MovedByFinish DEF ResolveSuggestion
    <3>2. Holders(s)' = {}
      BY <1>1, <2>2, <3>1 DEF Holders
    <3>3. Shown(s)' = verb
      BY <2>1, <3>2 DEF Shown, InDoubt
    <3>4. \A t \in Suggs : TimesApplied(t)' = TimesApplied(t)
      BY <1>1 DEF TimesApplied
    <3>. QED
      BY <1>1, <2>3, <2>4, <2>6, <3>3, <3>4, LedgerResolves
  <2>. QED
    BY <2>5, <2>6
<1>. QED
  BY <1>2, <1>3

\* From the claim to the answer the ledger shows an open suggestion until the Edit is executed.
LEMMA LedgerHolder ==
  ASSUME IInv, NothingLost, NEW r \in Requests, NEW s \in Suggs, req[r].s = s,
         \/ applySuggestion(r) \/ AbsPosFails(r) \/ EditAnswered(r) \/ EditFails(r) \/ Rollback(r)
  PROVE  UNCHANGED Ledger!vars
<1>1. /\ req[r].pc \in {"claimed", "editing", "rollback"}
      /\ UNCHANGED <<applied, lost, stranded>>
      /\ \A q \in Requests : q # r => req'[q] = req[q]
      /\ req'[r].s = s \/ req'[r].pc = "idle"
      /\ \A t \in Suggs : t # s => status'[t] = status[t]
  BY InvOf, MovedByGoto, MovedByFinish
     DEF applySuggestion, AbsPosFails, EditAnswered, EditFails, Rollback, rowVars, ghosts, TypeOK
<1>2. Holders(s) = {r}
  BY <1>1, SoleHolder
<1>3. \A m : m.s # s => (m \in calls' <=> m \in calls)
  BY DEF applySuggestion, AbsPosFails, EditAnswered, EditFails, Rollback, Awaited
<1>4. \A t \in Suggs : t # s => Shown(t)' = Shown(t)
  BY <1>1, <1>3, OthersShown
<1>5. Shown(s)' = Shown(s)
  <2>1. CASE EditAnswered(r)
    <3>1. Shown(s) = status[s]
      BY <1>2, <2>1 DEF Shown, InDoubt, EditAnswered
    <3>2. req'[r].pc = "idle" /\ UNCHANGED status
      BY <2>1, InvOf, MovedByFinish DEF EditAnswered, rowVars
    <3>3. Holders(s)' = {}
      BY <1>1, <1>2, <3>2 DEF Holders
    <3>. QED
      BY <3>1, <3>2, <3>3 DEF Shown, InDoubt
  <2>2. CASE Rollback(r)
    <3>1. Shown(s) = "open"
      BY <1>2, <2>2 DEF Shown, InDoubt, Rollback
    <3>2. req'[r].pc = "idle" /\ status'[s] = "open"
      BY <2>2, InvOf, MovedByFinish DEF Rollback, TypeOK
    <3>. QED
      BY <3>1, <3>2 DEF Shown
  <2>3. CASE AbsPosFails(r) \/ EditFails(r)
    <3>1. Shown(s) = "open"
      BY <1>2, <2>3 DEF Shown, InDoubt, AbsPosFails, EditFails
    <3>2. req'[r].pc = "rollback" /\ req'[r].s = s
      BY <2>3, InvOf, MovedByGoto DEF AbsPosFails, EditFails
    <3>3. r \in Holders(s)'
      BY <3>2 DEF Holders
    <3>. QED
      BY <3>1, <3>2, <3>3 DEF Shown, InDoubt
  <2>4. CASE applySuggestion(r)
    <3>1. Shown(s) = "open"
      BY <1>2, <2>4 DEF Shown, InDoubt, applySuggestion
    <3>2. req'[r].pc \in {"rollback", "editing"} /\ req'[r].s = s
      BY <2>4, InvOf, MovedByGoto DEF applySuggestion
    <3>3. r \in Holders(s)'
      BY <3>2 DEF Holders
    <3>4. req'[r].pc = "editing" => Awaited(s)' # {}
      <4>. SUFFICES ASSUME req'[r].pc = "editing" PROVE Awaited(s)' # {}
        OBVIOUS
      <4>. DEFINE from == AbsStart(snap[r].start)
                  to == IF snap[r].end = NoEnd THEN from ELSE AbsEnd(snap[r].end)
                  m == [id |-> lost[s] + stranded[s], s |-> s,
                        from |-> from, to |-> to, puts |-> PutsText(s, req[r].verb),
                        sg |-> snap[r], ver |-> DocVersion]
      <4>1. ~Goto(r, "rollback")
        BY InvOf, MovedByGoto
      <4>2. calls' = calls \cup {m}
        BY <2>4, <4>1 DEF applySuggestion
      <4>3. m.s = s /\ m.id = lost[s] + stranded[s]
        OBVIOUS
      <4>. HIDE DEF m
      <4>4. m \in Awaited(s)'
        BY <1>1, <4>2, <4>3 DEF Awaited
      <4>. QED
        BY <4>4
    <3>. QED
      BY <3>1, <3>2, <3>3, <3>4 DEF Shown, InDoubt
  <2>. QED
    BY <2>1, <2>2, <2>3, <2>4
<1>. QED
  BY <1>1, <1>4, <1>5, LedgerStutters

\* The step in which the sidecar executes an Edit is the one that resolves.
LEMMA LedgerEdit ==
  ASSUME IInv, NothingLost, NEW m \in calls, SidecarEdit(m)
  PROVE  Ledger!Next
<1>. DEFINE s == m.s
<1>1. m \in Call /\ s \in Suggs
  BY InvOf DEF IInv, TypeOK, Call
<1>2. /\ calls' = calls \ {m} /\ applied' = [applied EXCEPT ![s] = @ \cup {m.id}]
      /\ UNCHANGED <<status, req, lost, stranded>>
  BY DEF SidecarEdit, rowVars
<1>3. m \in Awaited(s) /\ applied[s] = {} /\ InUse(s)
  BY <1>1, Numbered
<1>4. lost[s] = 0 /\ stranded[s] = 0 /\ 0 \notin applied[s]
  BY <1>1, <1>3 DEF NothingLost
<1>5. Owed(s) /\ Holders(s) # {}
  BY <1>1, <1>3, <1>4, InvOf DEF UsesOf
<1>6. PICK r \in Requests : r \in Holders(s)
  BY <1>5 DEF Holders
<1>7. req[r].s = s /\ req[r].pc \in {"claimed", "editing", "rollback"}
  BY <1>6 DEF Holders
<1>8. Holders(s) = {r} /\ req[r].pc = "editing" /\ status[s] \in {"accepted", "rejected"}
  BY <1>1, <1>3, <1>7, SoleHolder
<1>9. Shown(s) = "open"
  BY <1>3, <1>8 DEF Shown, InDoubt
<1>10. Awaited(s)' = {}
  BY <1>1, <1>2, <1>3, Numbered DEF Awaited
<1>11. Holders(s)' = Holders(s)
  BY <1>2 DEF Holders
<1>12. Shown(s)' = status[s]
  BY <1>2, <1>8, <1>10, <1>11 DEF Shown, InDoubt
<1>13. TimesApplied(s)' = TimesApplied(s) + 1
  <2>1. applied'[s] = {m.id}
    BY <1>1, <1>2, <1>3 DEF IInv, TypeOK
  <2>2. Cardinality({m.id}) = 1 /\ Cardinality({}) = 0
    BY FS_Singleton, FS_EmptySet
  <2>. QED
    BY <1>3, <2>1, <2>2 DEF TimesApplied
<1>14. \A t \in Suggs : t # s => Shown(t)' = Shown(t) /\ TimesApplied(t)' = TimesApplied(t)
  <2>. TAKE t \in Suggs
  <2>. HAVE t # s
  <2>1. applied'[t] = applied[t]
    BY <1>1, <1>2 DEF IInv, TypeOK
  <2>2. Awaited(t)' = Awaited(t)
    BY <1>2 DEF Awaited
  <2>3. Holders(t)' = Holders(t) /\ \A q \in Holders(t) : req'[q] = req[q]
    BY <1>2 DEF Holders
  <2>. QED
    BY <1>2, <2>1, <2>2, <2>3, ShownKept DEF TimesApplied
<1>15. OwesEdit(s, status[s])
  BY <1>5 DEF Owed
<1>. HIDE DEF s
<1>. QED
  BY <1>1, <1>8, <1>9, <1>12, <1>13, <1>14, <1>15, LedgerResolves

\* Steps that touch neither rows nor holders nor calls.
LEMMA LedgerBystander ==
  ASSUME UNCHANGED <<status, calls, applied, lost, stranded>>,
         \/ UNCHANGED req
         \/ \E r \in Requests : /\ \A q \in Requests : q # r => req'[q] = req[q]
                                /\ req[r].pc \notin {"claimed", "editing", "rollback"}
                                /\ req'[r].pc \notin {"claimed", "editing", "rollback"}
  PROVE  UNCHANGED Ledger!vars
<1>1. \A t \in Suggs : Holders(t)' = Holders(t) /\ \A q \in Holders(t) : req'[q] = req[q]
  BY DEF Holders
<1>2. \A t \in Suggs : Awaited(t)' = Awaited(t)
  BY DEF Awaited
<1>3. \A t \in Suggs : Shown(t)' = Shown(t)
  BY <1>1, <1>2, ShownKept
<1>. QED
  BY <1>3, LedgerStutters

LEMMA LedgerStep ==
  ASSUME MaxLost = 0, MaxCancelled = 0, IInv, NothingLost, [Next]_vars
  PROVE  [Ledger!Next]_(Ledger!vars)
<1>1. CASE UserInserts \/ UserDeletes \/ UNCHANGED vars
  BY <1>1, LedgerBystander DEF UserInserts, UserDeletes, vars, rowVars, ghosts
<1>2. ASSUME NEW r \in Requests, NEW s \in Suggs,
             \/ handleCreateSuggestion(r, s) \/ handleUpdateSuggestion(r, s)
             \/ \E u \in Users, verb \in {"accepted", "rejected"} : handleResolveSuggestion(r, s, u, verb)
      PROVE  UNCHANGED Ledger!vars
  <2>1. /\ req[r].pc = "idle" /\ UNCHANGED <<status, calls, applied, lost, stranded>>
        /\ \E verb \in {"none", "accepted", "rejected"}, pc \in {"create", "update", "read"} :
             req' = [req EXCEPT ![r] = [pc |-> pc, s |-> s, verb |-> verb]]
    BY <1>2 DEF handleCreateSuggestion, handleUpdateSuggestion, handleResolveSuggestion, rowVars, ghosts
  <2>2. req'[r].pc \in {"create", "update", "read"} /\ \A q \in Requests : q # r => req'[q] = req[q]
    BY <2>1 DEF IInv, TypeOK
  <2>. QED
    BY <2>1, <2>2, LedgerBystander
<1>3. ASSUME NEW r \in Requests, UpdateSuggestionAnchors(r) \/ Abandoned(r)
      PROVE  UNCHANGED Ledger!vars
  <2>1. /\ req[r].pc \in {"create", "update", "read"} /\ req'[r].pc = "idle"
        /\ UNCHANGED <<status, calls, applied, lost, stranded>>
        /\ \A q \in Requests : q # r => req'[q] = req[q]
    BY <1>3, MovedByFinish DEF UpdateSuggestionAnchors, Abandoned, IInv, rowVars, ghosts
  <2>. QED
    BY <2>1, LedgerBystander
<1>4. ASSUME NEW r \in Requests, ServerStep(r) \/ Cancelled(r), ~UpdateSuggestionAnchors(r)
      PROVE  [Ledger!Next]_(Ledger!vars)
  <2>1. req[r].pc # "idle"
    BY <1>4 DEF ServerStep, CreateSuggestion, ResolveSuggestion, applySuggestion, AbsPosFails,
                EditAnswered, EditFails, EditUnanswered, Rollback, Cancelled
  <2>2. PICK s \in Suggs : req[r].s = s
    BY <2>1, ActiveRequest DEF IInv
  <2>3. ~EditUnanswered(r) /\ ~Cancelled(r)
    BY <2>2 DEF EditUnanswered, Cancelled, NothingLost
  <2>. QED
    BY <1>4, <2>2, <2>3, LedgerCreate, LedgerClaim, LedgerHolder DEF ServerStep
<1>5. ASSUME NEW m \in calls, SidecarEdit(m) \/ CallDropped(m)
      PROVE  Ledger!Next
  <2>1. m \in Awaited(m.s)
    <3>1. m.s \in Suggs
      BY DEF IInv, TypeOK, Call
    <3>. QED
      BY <3>1, Numbered
  <2>. QED
    BY <1>5, <2>1, LedgerEdit DEF CallDropped
<1>. QED
  BY <1>1, <1>2, <1>3, <1>4, <1>5 DEF Next, ServerStep

\* With no answer lost and no request cancelled, claim, AbsPos, Edit and roll-back are
\* together the two steps of the ledger: whatever requests overlap, and however late an Edit
\* runs, a suggestion is resolved once, and its edit is made in that instant
\* (annotations_handlers.go:236).
THEOREM LedgerImplemented ==
  ASSUME MaxLost = 0, MaxCancelled = 0
  PROVE  Spec => LedgerSpec
<1>1. Init => Ledger!Init /\ NothingLost
  <2>. SUFFICES ASSUME Init PROVE Ledger!Init /\ NothingLost
    OBVIOUS
  <2>1. \A s \in Suggs : Holders(s) = {}
    BY DEF Init, Idle, Holders
  <2>2. [s \in Suggs |-> IF InDoubt(s) THEN "open" ELSE status[s]] = [s \in Suggs |-> "none"]
    BY <2>1 DEF Init, InDoubt
  <2>3. [s \in Suggs |-> TimesApplied(s)] = [s \in Suggs |-> 0]
    BY FS_EmptySet DEF Init, TimesApplied
  <2>. QED
    BY <2>2, <2>3 DEF Ledger!Init, NothingLost, Init
<1>2. IInv /\ NothingLost /\ [Next]_vars => NothingLost'
  BY NothingLostStep
<1>3. IInv /\ NothingLost /\ [Next]_vars => [Ledger!Next]_(Ledger!vars)
  BY LedgerStep
<1>. QED
  BY <1>1, <1>2, <1>3, Invariant, PTL DEF Spec, LedgerSpec, Ledger!Spec
=============================================================================
