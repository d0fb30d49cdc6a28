-------------------------- MODULE SuggestionLedger --------------------------
(***************************************************************************)
(* What the suggestion workflow promises its users: a suggestion is opened *)
(* once and resolved once, and the edit a verdict owes the document is     *)
(* made in the same instant, exactly once.                                 *)
(***************************************************************************)
EXTENDS Naturals

CONSTANTS
  Suggs,
  KindOf   \* insert, inline, delete or replace

VARIABLES
  status,  \* none, open, accepted or rejected
  edits    \* how many edits the document has received from each suggestion

vars == <<status, edits>>

\* Accepting inline text keeps what is typed already, rejecting it removes it.
Owes(s, verb) == (verb = "accepted") = (KindOf[s] # "inline")

Init ==
  /\ status = [s \in Suggs |-> "none"]
  /\ edits = [s \in Suggs |-> 0]

Open(s) ==
  /\ status[s] = "none"
  /\ status' = [status EXCEPT ![s] = "open"]
  /\ UNCHANGED edits

Resolve(s, verb) ==
  /\ status[s] = "open"
  /\ status' = [status EXCEPT ![s] = verb]
  /\ edits' = IF Owes(s, verb) THEN [edits EXCEPT ![s] = @ + 1] ELSE edits

Next ==
  \E s \in Suggs :
    \/ Open(s)
    \/ \E verb \in {"accepted", "rejected"} : Resolve(s, verb)

Spec == Init /\ [][Next]_vars
=============================================================================
