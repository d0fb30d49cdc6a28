----------------------------- MODULE SuggestMode -----------------------------
(***************************************************************************)
(* Inline suggest mode of the editor (web/src/editor/suggestMode.ts): runs *)
(* of adjacent keystrokes are collected in one record per kind, which is   *)
(* sent half a second after the last one, with POST the first time and     *)
(* PATCH from then on.  The range of a record is abstracted to how often   *)
(* it has been extended.  What runs between two awaits is one step.        *)
(***************************************************************************)
EXTENDS Naturals, Sequences

CONSTANTS
  MaxRecords,  \* bound: records ever begun
  MaxTyped,    \* bound: times one record is extended
  MaxOffs      \* bound: calls of flushAll

ASSUME SuggestModeConstants == MaxRecords \in Nat /\ MaxTyped \in Nat \ {0} /\ MaxOffs \in Nat

VARIABLES
  enabled, timer,
  pending,   \* pendingInsert and pendingDelete: an index of records, 0 for null
  records,
  calls,     \* requests under way, with the number of the flushAll that awaits them
  flushes    \* what each flushAll awaits

suggestModeVars == <<enabled, timer, pending, records, calls, flushes>>

Kinds == {"insert", "delete"}

\* row: rows the server has made of it; stored: the range in the one the client knows;
\* orphans: rows whose POST failed on the way back.  History: excused, when a request failed,
\* two were under way at a time, or flushAll forgot what was typed while it waited.
NewRecord == [known |-> FALSE, creating |-> FALSE, dirty |-> TRUE, empty |-> FALSE, typed |-> 1,
              stored |-> 0, rows |-> 0, orphans |-> 0, excused |-> FALSE]

SuggestModeInit ==
  /\ enabled = FALSE /\ timer = FALSE
  /\ pending = [k \in Kinds |-> 0] /\ records = <<>> /\ calls = {}
  /\ flushes = [n \in 1 .. MaxOffs |-> "not begun"]

\* flushRecord returns at once for null, a clean record, one that is being created, and an
\* empty range.
Sending(R, S) == {r \in S \ {0} : R[r].dirty /\ ~R[r].creating /\ ~R[r].empty}

\* Up to the await: the records are clean, the requests under way.
Sent(R, C, S) ==
  [r \in DOMAIN R |->
     IF r \in Sending(R, S)
     THEN [R[r] EXCEPT !.dirty = FALSE, !.creating = ~R[r].known,
                       !.excused = @ \/ \E c \in C : c.rec = r]
     ELSE R[r]]
Requests(R, S, n) ==
  {[rec |-> r, post |-> ~R[r].known, value |-> R[r].typed, flush |-> n] : r \in Sending(R, S)}

flushRecord(R, C, S, n) ==
  records' = Sent(R, C, S) /\ calls' = C \cup Requests(R, S, n)

\* trackInsert and trackDelete: at the edge of the pending range or inside.
Extend(k) ==
  LET r == pending[k] IN
  /\ enabled /\ r # 0 /\ records[r].typed < MaxTyped
  /\ records' = [records EXCEPT ![r].typed = @ + 1, ![r].dirty = TRUE, ![r].empty = FALSE]
  /\ timer' = TRUE
  /\ UNCHANGED <<enabled, pending, calls, flushes>>

\* Elsewhere: the one before is flushed.
Begin(k) ==
  /\ enabled /\ Len(records) < MaxRecords
  /\ flushRecord(Append(records, NewRecord), calls, {pending[k]}, 0)
  /\ pending' = [pending EXCEPT ![k] = Len(records')]
  /\ timer' = TRUE
  /\ UNCHANGED <<enabled, flushes>>

\* Others delete the text of a record.
Emptied(r) ==
  /\ ~records[r].empty /\ records' = [records EXCEPT ![r].empty = TRUE]
  /\ UNCHANGED <<enabled, timer, pending, calls, flushes>>

\* The callback of scheduleFlush.
Timer ==
  /\ timer /\ timer' = FALSE
  /\ flushRecord(records, calls, {pending[k] : k \in Kinds}, 0)
  /\ UNCHANGED <<enabled, pending, flushes>>

\* The last lines of flushAll.  A record that is being created is flushed again from there.
Finish(R, C, n) ==
  /\ records' = [r \in DOMAIN R |-> IF \E k \in Kinds : r \in Sending(R, {pending[k]})
                                    THEN [R[r] EXCEPT !.excused = TRUE] ELSE R[r]]
  /\ calls' = C /\ pending' = [k \in Kinds |-> 0]
  /\ flushes' = [flushes EXCEPT ![n] = "done"]

\* flushAll after its first await ...
FlushDelete(R, C, n) ==
  \/ /\ Sending(R, {pending["delete"]}) # {}
     /\ flushRecord(R, C, {pending["delete"]}, n)
     /\ flushes' = [flushes EXCEPT ![n] = "delete"] /\ UNCHANGED pending
  \/ Sending(R, {pending["delete"]}) = {} /\ Finish(R, C, n)

\* ... and up to it: the mode is left, or the editor closed.
flushAll(n) ==
  /\ flushes[n] = "not begun" /\ \A m \in 1 .. (n - 1) : flushes[m] # "not begun"
  /\ enabled' = FALSE /\ timer' = FALSE
  /\ \/ /\ Sending(records, {pending["insert"]}) # {}
        /\ flushRecord(records, calls, {pending["insert"]}, n)
        /\ flushes' = [flushes EXCEPT ![n] = "insert"] /\ UNCHANGED pending
     \/ Sending(records, {pending["insert"]}) = {} /\ FlushDelete(records, calls, n)

setEnabled ==
  /\ ~enabled /\ enabled' = TRUE
  /\ UNCHANGED <<timer, pending, records, calls, flushes>>

\* A call has returned and is not made again: the flushAll that awaits it goes on.
Returned(R, C, n) ==
  \/ n = 0 /\ records' = R /\ calls' = C /\ UNCHANGED <<pending, flushes>>
  \/ n # 0 /\ flushes[n] = "insert" /\ FlushDelete(R, C, n)
  \/ n # 0 /\ flushes[n] = "delete" /\ Finish(R, C, n)

\* Mutant: what has grown while it was created is not sent again.
NotAgain(c) == {}

Again(c) == IF c.post THEN {c.rec} ELSE {}

Others(c) == {d \in calls \ {c} : d.rec = c.rec}

\* What an answer, and a failure, make of the record.
AnsweredRecord(c) ==
  [records[c.rec] EXCEPT !.known = TRUE, !.creating = @ /\ ~c.post,
                         !.stored = c.value, !.rows = IF c.post THEN @ + 1 ELSE @,
                         !.excused = @ /\ (Others(c) # {} \/ c.value # records[c.rec].typed)]
FailedRecord(c, done) ==
  [records[c.rec] EXCEPT !.creating = @ /\ ~c.post, !.excused = TRUE,
                         !.stored = IF done /\ ~c.post THEN c.value ELSE @,
                         !.rows = IF done /\ c.post THEN @ + 1 ELSE @,
                         !.orphans = IF done /\ c.post THEN @ + 1 ELSE @]

\* Requests of one record may be answered in any order.
Answered(c) ==
  LET C == calls \ {c}
      R == [records EXCEPT ![c.rec] = AnsweredRecord(c)]
  IN
  /\ \/ /\ Sending(R, Again(c)) # {}
        /\ flushRecord(R, C, Again(c), c.flush) /\ UNCHANGED <<pending, flushes>>
     \/ Sending(R, Again(c)) = {} /\ Returned(R, C, c.flush)
  /\ UNCHANGED <<enabled, timer>>

\* The request or its answer is lost, or the server refuses it.
Failed(c) ==
  /\ \E done \in BOOLEAN :
       Returned([records EXCEPT ![c.rec] = FailedRecord(c, done)], calls \ {c}, c.flush)
  /\ UNCHANGED <<enabled, timer>>

SuggestModeNext ==
  \/ \E k \in Kinds : Extend(k) \/ Begin(k)
  \/ \E r \in DOMAIN records : Emptied(r)
  \/ Timer \/ setEnabled
  \/ \E n \in 1 .. MaxOffs : flushAll(n)
  \/ \E c \in calls : Answered(c) \/ Failed(c)

SuggestModeSpec == SuggestModeInit /\ [][SuggestModeNext]_suggestModeVars

-----------------------------------------------------------------------------

Quiet == ~timer /\ calls = {} /\ \A n \in 1 .. MaxOffs : flushes[n] \in {"not begun", "done"}

\* suggestMode.ts:71 the record is marked clean before its request is answered, :83 "grew
\* while creating": when no request and no timer is left, every record stands on the server
\* with the range that was typed, but for those a named cause excuses; and no record has
\* more rows than one and those whose creation failed on the way back.
TypingIsRecorded ==
  \A r \in DOMAIN records :
    /\ records[r].rows <= 1 + records[r].orphans
    /\ Quiet => \/ records[r].stored = records[r].typed /\ records[r].rows = 1 + records[r].orphans
                \/ records[r].empty \/ records[r].excused
=============================================================================
