---------------------------- MODULE Suggestions ----------------------------
(***************************************************************************)
(* Tracked changes.  A suggestion is a Postgres row holding two anchors    *)
(* into a live Yjs text.  Resolving it is a conversation of the Go handler *)
(* with Postgres (read, claim, roll back) and with the collaboration       *)
(* sidecar (AbsPos, then Edit), while browsers keep typing and other       *)
(* requests re-anchor or resolve the same row.                             *)
(*                                                                         *)
(* A request is a goroutine of internal/api; every call it makes to        *)
(* another process is a step of its own.  A call of Edit is a message: the *)
(* sidecar may execute it after the caller has stopped waiting for it.     *)
(***************************************************************************)
EXTENDS Integers, FiniteSets, SequencesExt

CONSTANTS
  Requests,       \* HTTP requests the server handles concurrently
  Suggs,          \* suggestion rows
  Users,
  None,           \* no suggestion
  RoleOf,         \* the project role of each user
  Author,         \* the author of each suggestion
  KindOf,         \* insert, inline, delete or replace ("inline": insert with an end anchor)
  InitialLength,  \* characters of the document at the start
  MaxTyped,       \* bound: changes made by browsers
  MaxRev,         \* bound: times one suggestion is (re)anchored
  MaxLost,        \* bound: answers of Edit a suggestion never gets
  MaxCancelled    \* bound: requests whose context ends after they claimed a suggestion

Roles == {"none", "viewer", "suggester", "editor", "owner"}
Kinds == {"insert", "inline", "delete", "replace"}

ASSUME SuggestionConstants ==
  /\ None \notin Suggs
  /\ RoleOf \in [Users -> Roles]
  /\ Author \in [Suggs -> Users]
  /\ KindOf \in [Suggs -> Kinds]
  /\ InitialLength \in Nat /\ MaxTyped \in Nat /\ MaxRev \in Nat
  /\ MaxLost \in Nat /\ MaxCancelled \in Nat

VARIABLES
  doc,      \* every character ever inserted, in document order; its id is its age
  dead,     \* the deleted ones: Yjs keeps them as tombstones
  typed,    \* changes browsers have made
  status,   \* the suggestions table: none, open, accepted or rejected,
  anchors,  \*   and where the suggestion points
  req,      \* the control state of each request
  snap,     \* the anchors each request has read or computed
  calls,    \* Edit calls the sidecar has not executed yet
  applied,  \* the ids of the Edits of each suggestion that were executed
  lost,     \* how many Edits of each suggestion were given up and rolled back
  stranded  \* how often a request left each suggestion between claim and answer

docVars == <<doc, dead, typed>>
rowVars == <<status, anchors>>
ghosts  == <<applied, lost, stranded>>
vars    == <<doc, dead, typed, status, anchors, req, snap, calls, applied, lost, stranded>>

-----------------------------------------------------------------------------
(* The shared text, and the positions Yjs computes in it.                   *)

roleRank == [none |-> 0, viewer |-> 1, suggester |-> 2, editor |-> 3, owner |-> 4]
roleAtLeast(u, min) == roleRank[RoleOf[u]] >= roleRank[min]

Text       == (1 .. Len(doc)) \ dead
Length     == Cardinality(Text)
NewChar    == Len(doc) + 1
DocVersion == Len(doc) + Cardinality(dead)   \* grows with every change

Precedes(c, d) == \E i, j \in DOMAIN doc : i < j /\ doc[i] = c /\ doc[j] = d
Before(c)      == {d \in Text : Precedes(d, c)}
Offset(c)      == Cardinality(Before(c))

(* A relative position names a character, or 0 for "no character": the end  *)
(* of the text for a start anchor, its beginning for an end anchor.  Every  *)
(* offset has exactly one.  NoEnd is the NULL anchor_end of an insertion.   *)
NoEnd       == -1
\* Mutant: the anchor of the end of the text is dropped.
RelStartNull(i) == {c \in Text : Offset(c) = i} \cup (IF i = Length THEN {NoEnd} ELSE {})
RelStart(i) == {c \in Text : Offset(c) = i} \cup (IF i = Length THEN {0} ELSE {})
RelEnd(i)   == {c \in Text : Offset(c) = i - 1} \cup (IF i = 0 THEN {0} ELSE {})

AbsStart(c) == IF c = 0 THEN Length ELSE Offset(c)
\* Mutant: a deleted end character is still counted.
AbsEndTombstone(c) == IF c = 0 THEN 0 ELSE Offset(c) + 1
AbsEnd(c)   == IF c = 0 THEN 0 ELSE Offset(c) + (IF c \in dead THEN 0 ELSE 1)

(* Where the Edit of an offset inserts once gone is deleted: past the       *)
(* tombstones, before the next character that is left.                      *)
Slots(f, gone) ==
  {k \in 1 .. NewChar :
     /\ Cardinality({i \in 1 .. k - 1 : doc[i] \notin gone}) = f
     /\ k = NewChar \/ doc[k] \notin gone}

-----------------------------------------------------------------------------
(* Rows and requests.                                                       *)

\* The edit a resolution owes the document, if any.
OwesEdit(s, verb) ==
  \/ verb = "accepted" /\ KindOf[s] # "inline"
  \/ verb = "rejected" /\ KindOf[s] = "inline"

PutsText(s, verb) == verb = "accepted" /\ KindOf[s] \in {"insert", "replace"}

NoAnchors == [start |-> 0, end |-> NoEnd, rev |-> 0]
Idle      == [pc |-> "idle", s |-> None, verb |-> "none"]

\* The requests that have claimed s and have not answered yet.
Holders(s) == {r \in Requests : req[r].s = s /\ req[r].pc \in {"claimed", "editing", "rollback"}}

\* The Edit of s that somebody is waiting for, as long as it is not executed:
\* its id counts the calls for s that were given up before it.
Awaited(s) == {m \in calls : m.s = s /\ m.id = lost[s] + stranded[s]}

Init ==
  /\ doc = [i \in 1 .. InitialLength |-> i]
  /\ dead = {} /\ typed = 0
  /\ status = [s \in Suggs |-> "none"]
  /\ anchors = [s \in Suggs |-> NoAnchors]
  /\ req = [r \in Requests |-> Idle]
  /\ snap = [r \in Requests |-> NoAnchors]
  /\ calls = {}
  /\ applied = [s \in Suggs |-> {}]
  /\ lost = [s \in Suggs |-> 0]
  /\ stranded = [s \in Suggs |-> 0]

-----------------------------------------------------------------------------
(* Browsers: any character may go, a new one may merge in anywhere.         *)

UserInserts ==
  /\ typed < MaxTyped
  /\ \E k \in 1 .. NewChar : doc' = InsertAt(doc, k, NewChar)
  /\ typed' = typed + 1
  /\ UNCHANGED <<dead, rowVars, req, snap, calls, ghosts>>

UserDeletes ==
  /\ typed < MaxTyped
  /\ \E c \in Text : dead' = dead \cup {c}
  /\ typed' = typed + 1
  /\ UNCHANGED <<doc, rowVars, req, snap, calls, ghosts>>

-----------------------------------------------------------------------------
(* Creating and re-anchoring: RelPos at the sidecar, then one statement.    *)

computeSuggestionAnchors(r, s) ==
  \E from, to \in 0 .. Length :
    /\ from <= to
    /\ KindOf[s] = "insert" => to = from
    /\ KindOf[s] \in {"delete", "replace"} => to > from
    /\ \E start \in RelStart(from), end \in IF KindOf[s] = "insert" THEN {NoEnd} ELSE RelEnd(to) :
         snap' = [snap EXCEPT ![r] = [start |-> start, end |-> end, rev |-> anchors[s].rev + 1]]

Goto(r, pc) == req' = [req EXCEPT ![r] = [pc |-> pc, s |-> req[r].s, verb |-> req[r].verb]]

Finish(r) ==
  /\ req' = [req EXCEPT ![r] = Idle]
  /\ snap' = [snap EXCEPT ![r] = NoAnchors]

\* The row is inserted under a fresh id: nobody else creates s meanwhile.
handleCreateSuggestion(r, s) ==
  /\ req[r].pc = "idle" /\ status[s] = "none" /\ anchors[s].rev < MaxRev
  /\ \A q \in Requests : ~(req[q].pc = "create" /\ req[q].s = s)
  /\ roleAtLeast(Author[s], IF KindOf[s] = "inline" THEN "editor" ELSE "suggester")
  /\ computeSuggestionAnchors(r, s)
  /\ req' = [req EXCEPT ![r] = [pc |-> "create", s |-> s, verb |-> "none"]]
  /\ UNCHANGED <<docVars, rowVars, calls, ghosts>>

CreateSuggestion(r) ==
  LET s == req[r].s IN
  /\ req[r].pc = "create"
  /\ status' = [status EXCEPT ![s] = "open"]
  /\ anchors' = [anchors EXCEPT ![s] = snap[r]]
  /\ Finish(r)
  /\ UNCHANGED <<docVars, calls, ghosts>>

handleUpdateSuggestion(r, s) ==
  /\ req[r].pc = "idle" /\ status[s] = "open" /\ anchors[s].rev < MaxRev
  /\ roleAtLeast(Author[s], "suggester")
  /\ computeSuggestionAnchors(r, s)
  /\ req' = [req EXCEPT ![r] = [pc |-> "update", s |-> s, verb |-> "none"]]
  /\ UNCHANGED <<docVars, rowVars, calls, ghosts>>

UpdateSuggestionAnchors(r) ==
  LET s == req[r].s IN
  /\ req[r].pc = "update"
  /\ anchors' = IF status[s] = "open" THEN [anchors EXCEPT ![s] = snap[r]] ELSE anchors
  /\ Finish(r)
  /\ UNCHANGED <<docVars, status, calls, ghosts>>

-----------------------------------------------------------------------------
(* Resolving.                                                               *)

MinRole(s, verb, u) ==
  IF verb = "rejected" /\ Author[s] = u THEN "suggester" ELSE "editor"

\* Reads the row, checks the role and the status; a 403 or 409 leaves no trace.
handleResolveSuggestion(r, s, u, verb) ==
  /\ req[r].pc = "idle"
  /\ status[s] = "open" /\ roleAtLeast(u, MinRole(s, verb, u))
  /\ req' = [req EXCEPT ![r] = [pc |-> "read", s |-> s, verb |-> verb]]
  /\ snap' = [snap EXCEPT ![r] = anchors[s]]
  /\ UNCHANGED <<docVars, rowVars, calls, ghosts>>

\* Mutant: the claim forgets AND status='open'.
ClaimAnyRow(r) ==
  LET s == req[r].s IN
  /\ req[r].pc = "read"
  /\ status' = [status EXCEPT ![s] = req[r].verb]
  /\ IF OwesEdit(s, req[r].verb)
     THEN Goto(r, "claimed") /\ UNCHANGED snap
     ELSE Finish(r)
  /\ UNCHANGED <<docVars, anchors, calls, ghosts>>

\* The row guard: only an open row can be claimed, the loser answers 409.
ResolveSuggestion(r) ==
  LET s == req[r].s IN
  /\ req[r].pc = "read"
  /\ status' = IF status[s] = "open" THEN [status EXCEPT ![s] = req[r].verb] ELSE status
  /\ IF status[s] = "open" /\ OwesEdit(s, req[r].verb)
     THEN Goto(r, "claimed") /\ UNCHANGED snap
     ELSE Finish(r)
  /\ UNCHANGED <<docVars, anchors, calls, ghosts>>

\* AbsPos answers with offsets in the text of this moment; Edit is sent with them.
applySuggestion(r) ==
  LET s == req[r].s
      from == AbsStart(snap[r].start)
      to == IF snap[r].end = NoEnd THEN from ELSE AbsEnd(snap[r].end)
  IN
  /\ req[r].pc = "claimed"
  /\ IF from < 0 \/ to < from
     THEN Goto(r, "rollback") /\ UNCHANGED calls
     ELSE /\ Goto(r, "editing")
          /\ calls' = calls \cup {[id |-> lost[s] + stranded[s], s |-> s,
                                   from |-> from, to |-> to, puts |-> PutsText(s, req[r].verb),
                                   sg |-> snap[r], ver |-> DocVersion]}
  /\ UNCHANGED <<docVars, rowVars, snap, ghosts>>

\* AbsPos fails: the sidecar cannot be reached, or answers with an error.
AbsPosFails(r) ==
  /\ req[r].pc = "claimed"
  /\ Goto(r, "rollback")
  /\ UNCHANGED <<docVars, rowVars, snap, calls, ghosts>>

\* The sidecar executes an Edit in one transaction, clamped to the text it finds.
SidecarEdit(m) ==
  LET from == IF m.from < Length THEN m.from ELSE Length
      gone == dead \cup {c \in Text : from <= Offset(c) /\ Offset(c) < m.to}
  IN
  /\ m \in calls
  /\ calls' = calls \ {m}
  /\ dead' = gone
  /\ IF m.puts THEN \E k \in Slots(from, gone) : doc' = InsertAt(doc, k, NewChar)
     ELSE UNCHANGED doc
  /\ applied' = [applied EXCEPT ![m.s] = @ \cup {m.id}]
  /\ UNCHANGED <<typed, rowVars, req, snap, lost, stranded>>

\* The 2xx of Edit reaches the handler, which publishes and answers.
EditAnswered(r) ==
  /\ req[r].pc = "editing" /\ Awaited(req[r].s) = {}
  /\ Finish(r)
  /\ UNCHANGED <<docVars, rowVars, calls, ghosts>>

\* Edit fails without an effect: refused connection, or the document did not load.
EditFails(r) ==
  /\ req[r].pc = "editing" /\ Awaited(req[r].s) # {}
  /\ calls' = calls \ Awaited(req[r].s)
  /\ Goto(r, "rollback")
  /\ UNCHANGED <<docVars, rowVars, snap, ghosts>>

\* The wait ends without an answer that says what happened: the 15 s timeout, a
\* broken connection, or an error raised after the transaction.  The call lives on.
EditUnanswered(r) ==
  LET s == req[r].s IN
  /\ req[r].pc = "editing" /\ lost[s] < MaxLost
  /\ lost' = [lost EXCEPT ![s] = @ + 1]
  /\ Goto(r, "rollback")
  /\ UNCHANGED <<docVars, rowVars, snap, calls, applied, stranded>>

\* Mutant: the roll-back is skipped.
NoRollback(r) ==
  /\ req[r].pc = "rollback"
  /\ Finish(r)
  /\ UNCHANGED <<docVars, rowVars, calls, ghosts>>

\* The roll-back of a failed apply is unconditional.
Rollback(r) ==
  /\ req[r].pc = "rollback"
  /\ status' = [status EXCEPT ![req[r].s] = "open"]
  /\ Finish(r)
  /\ UNCHANGED <<docVars, anchors, calls, ghosts>>

\* r.Context() ends (the browser leaves, the server stops): every later call
\* of the handler fails, the roll-back included.  An Edit on its way may still run.
Cancelled(r) ==
  LET s == req[r].s IN
  /\ req[r].pc \in {"claimed", "editing", "rollback"} /\ stranded[s] < MaxCancelled
  /\ stranded' = [stranded EXCEPT ![s] = @ + 1]
  /\ Finish(r)
  /\ UNCHANGED <<docVars, rowVars, calls, applied, lost>>

\* A call nobody waits for may also never have left.
CallDropped(m) ==
  /\ m \in calls \ Awaited(m.s)
  /\ calls' = calls \ {m}
  /\ UNCHANGED <<docVars, rowVars, req, snap, ghosts>>

\* Before it writes anything a request can stop without a trace.
Abandoned(r) ==
  /\ req[r].pc \in {"create", "update", "read"}
  /\ Finish(r)
  /\ UNCHANGED <<docVars, rowVars, calls, ghosts>>

ServerStep(r) ==
  \/ CreateSuggestion(r) \/ UpdateSuggestionAnchors(r) \/ ResolveSuggestion(r)
  \/ applySuggestion(r) \/ AbsPosFails(r)
  \/ EditAnswered(r) \/ EditFails(r) \/ EditUnanswered(r) \/ Rollback(r)

Next ==
  \/ UserInserts \/ UserDeletes
  \/ \E r \in Requests, s \in Suggs : handleCreateSuggestion(r, s) \/ handleUpdateSuggestion(r, s)
  \/ \E r \in Requests, s \in Suggs, u \in Users, verb \in {"accepted", "rejected"} :
       handleResolveSuggestion(r, s, u, verb)
  \/ \E r \in Requests : ServerStep(r) \/ Cancelled(r) \/ Abandoned(r)
  \/ \E m \in calls : SidecarEdit(m) \/ CallDropped(m)

Spec == Init /\ [][Next]_vars

\* Go runs every started handler on, and the sidecar every call it has received.
Fairness ==
  /\ \A r \in Requests : WF_vars(ServerStep(r))
  /\ WF_vars(\E m \in calls : SidecarEdit(m))

FairSpec == Spec /\ Fairness

-----------------------------------------------------------------------------
(* Properties.                                                              *)

Anchors == [start : Nat, end : Nat \cup {NoEnd}, rev : Nat]

Request == [pc : {"create", "update"}, s : Suggs, verb : {"none"}]
           \cup [pc : {"read", "claimed", "editing", "rollback"}, s : Suggs,
                 verb : {"accepted", "rejected"}]
           \cup {Idle}

Call == [id : Nat, s : Suggs, from : Nat, to : Nat, puts : BOOLEAN, sg : Anchors, ver : Nat]

\* Every variable keeps to the values the code can store in it.
TypeOK ==
  /\ doc \in Seq(Nat) /\ dead \subseteq 1 .. Len(doc) /\ typed \in Nat
  /\ status \in [Suggs -> {"none", "open", "accepted", "rejected"}]
  /\ anchors \in [Suggs -> Anchors]
  /\ req \in [Requests -> Request]
  /\ snap \in [Requests -> Anchors]
  /\ calls \subseteq Call
  /\ applied \in [Suggs -> SUBSET Nat] /\ lost \in [Suggs -> Nat] /\ stranded \in [Suggs -> Nat]

TimesApplied(s) == Cardinality(applied[s])

Resolved(s) == status[s] \in {"accepted", "rejected"}
Owed(s)     == Resolved(s) /\ OwesEdit(s, status[s])

\* "Concurrent accepts serialize on the open-status row guard": at most one
\* request holds a suggestion, and the row shows its verdict all the while.
OneHolder ==
  \A s \in Suggs : \A r, q \in Holders(s) : r = q /\ status[s] = req[r].verb

\* However requests interleave and however late Edits run, the document has
\* received a suggestion once more than answers were lost, at the very most.
AtMostOncePerLostAnswer ==
  \A s \in Suggs : TimesApplied(s) <= lost[s] + 1

\* While a suggestion is open, or was resolved without owing the document
\* anything, only an Edit whose answer was lost can have changed the text.
UntouchedUnlessOwed ==
  \A s \in Suggs : ~Owed(s) => TimesApplied(s) <= lost[s]

\* A verdict that owes an edit and that nobody is working on has been executed,
\* unless a request was cancelled half-way.
VerdictExecuted ==
  \A s \in Suggs :
    Owed(s) /\ Holders(s) = {} /\ stranded[s] = 0 => applied[s] # {}

\* The characters between the anchors of a suggestion that are still there.
AnchoredText(sg) ==
  {c \in Text : /\ sg.start # 0 /\ (c = sg.start \/ Precedes(sg.start, c))
                /\ sg.end \notin {0, NoEnd} /\ (c = sg.end \/ Precedes(c, sg.end))}

TextBefore(sg) == IF sg.start = 0 THEN Text ELSE Before(sg.start)

Executed(m) == m \notin calls' /\ m.id \in applied'[m.s]

\* When the text has not changed since AbsPos, an Edit deletes exactly the
\* anchored characters, whatever was typed or deleted around and inside them
\* since the anchors were made, and puts its text where they began.
EditHitsItsRange ==
  [][\A m \in calls : Executed(m) /\ m.ver = DocVersion =>
       /\ dead' \ dead = AnchoredText(m.sg)
       /\ m.puts => Before(Len(doc))' = TextBefore(m.sg)]_vars

\* A resolution under way comes to an end: the edit it owes is executed, or the
\* suggestion is open again.
ResolutionSettles ==
  \A s \in Suggs : Owed(s) ~> (applied[s] # {} \/ status[s] = "open")

-----------------------------------------------------------------------------
(* What a comment in the code promises, and the code does not keep.         *)

\* annotations_handlers.go:244: "Roll the status back so the suggestion isn't lost".
SuggestionNotLost ==
  \A s \in Suggs :
    Owed(s) /\ Holders(s) = {} /\ (\A m \in calls : m.s # s) => applied[s] # {}

-----------------------------------------------------------------------------
(* As long as no answer of Edit is lost and no request is cancelled, a      *)
(* suggestion is resolved as if verdict and edit were one step: the step    *)
(* in which the sidecar executes the Edit.                                  *)

InDoubt(s) ==
  \E r \in Holders(s) : req[r].pc = "editing" => Awaited(s) # {}

Ledger == INSTANCE SuggestionLedger WITH
  status <- [s \in Suggs |-> IF InDoubt(s) THEN "open" ELSE status[s]],
  edits  <- [s \in Suggs |-> TimesApplied(s)]

LedgerSpec == Ledger!Spec
=============================================================================
