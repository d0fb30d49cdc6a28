------------------------------- MODULE Compiler -------------------------------
(***************************************************************************)
(* Compile and Thumbnail (internal/compile): a request waits for one of    *)
(* the slots, writes the files of its job to a directory of its own, runs  *)
(* Typst under a time limit and leaves, whatever happened, through the     *)
(* deferred calls.  The files were read before (materialize).              *)
(***************************************************************************)
EXTENDS Naturals, FiniteSets

CONSTANTS
  Jobs,     \* requests that compile
  Slots     \* runtime.NumCPU()

ASSUME CompilerConstants == Slots \in Nat \ {0}

VARIABLES
  job,      \* where each request is
  sem,      \* tokens in the channel
  dirs,     \* jobs whose directory exists
  left      \* clients that have gone away, which cancels the request's context

compilerVars == <<job, sem, dirs, left>>

Steps == {"idle", "materialize", "waiting", "admitted", "writing", "typst", "stopping", "leaving"}

CompilerInit ==
  /\ job = [j \in Jobs |-> "idle"] /\ sem = 0 /\ dirs = {} /\ left = {}

Goto(j, step) == job' = [job EXCEPT ![j] = step]

\* projectAccess, then the files, all of which must be read.
handleCompile(j) ==
  /\ job[j] = "idle" /\ Goto(j, "materialize") /\ left' = left \ {j}
  /\ UNCHANGED <<sem, dirs>>

materialize(j) ==
  /\ job[j] = "materialize"
  /\ Goto(j, "waiting") \/ Goto(j, "idle")
  /\ UNCHANGED <<sem, dirs, left>>

ClientLeaves(j) ==
  /\ job[j] # "idle" /\ left' = left \cup {j}
  /\ UNCHANGED <<job, sem, dirs>>

\* The two cases of the select.
Acquire(j) ==
  /\ job[j] = "waiting" /\ sem < Slots
  /\ sem' = sem + 1 /\ Goto(j, "admitted")
  /\ UNCHANGED <<dirs, left>>

GiveUp(j) ==
  /\ job[j] = "waiting" /\ j \in left
  /\ Goto(j, "idle")
  /\ UNCHANGED <<sem, dirs, left>>

\* Mutant: a directory that cannot be made returns without the slot.
MkdirKeepsSlot(j) ==
  /\ job[j] = "admitted"
  /\ \/ dirs' = dirs \cup {j} /\ Goto(j, "writing")
     \/ Goto(j, "idle") /\ UNCHANGED dirs
  /\ UNCHANGED <<sem, left>>

\* On an error only the slot is given back.
MkdirTemp(j) ==
  /\ job[j] = "admitted"
  /\ \/ dirs' = dirs \cup {j} /\ Goto(j, "writing")
     \/ Goto(j, "leaving") /\ UNCHANGED dirs
  /\ UNCHANGED <<sem, left>>

WriteFiles(j) ==
  /\ job[j] = "writing"
  /\ Goto(j, "typst") \/ Goto(j, "leaving")
  /\ UNCHANGED <<sem, dirs, left>>

\* Typst ends with a result or diagnostics ...
TypstEnds(j) ==
  /\ job[j] = "typst" /\ Goto(j, "leaving")
  /\ UNCHANGED <<sem, dirs, left>>

\* ... or is killed, by the time limit or because the client has left; WaitDelay bounds the
\* wait for what it leaves behind.
Kill(j) ==
  /\ job[j] = "typst" /\ Goto(j, "stopping")
  /\ UNCHANGED <<sem, dirs, left>>

WaitDelay(j) ==
  /\ job[j] = "stopping" /\ Goto(j, "leaving")
  /\ UNCHANGED <<sem, dirs, left>>

\* The deferred calls: the directory first, then the slot.
RemoveAll(j) ==
  /\ job[j] = "leaving" /\ j \in dirs
  /\ dirs' = dirs \ {j}
  /\ UNCHANGED <<job, sem, left>>

Release(j) ==
  /\ job[j] = "leaving" /\ j \notin dirs
  /\ sem' = sem - 1 /\ Goto(j, "idle")
  /\ UNCHANGED <<dirs, left>>

CompilerNext ==
  \E j \in Jobs :
    \/ handleCompile(j) \/ materialize(j) \/ ClientLeaves(j) \/ Acquire(j) \/ GiveUp(j)
    \/ MkdirTemp(j) \/ WriteFiles(j) \/ TypstEnds(j) \/ Kill(j) \/ WaitDelay(j)
    \/ RemoveAll(j) \/ Release(j)

\* A slot that is free is given to the senders in the order in which they came; a running
\* Typst ends or its time does.
Advance(j) ==
  materialize(j) \/ MkdirTemp(j) \/ WriteFiles(j) \/ TypstEnds(j) \/ Kill(j) \/ WaitDelay(j)
  \/ RemoveAll(j) \/ Release(j)
Fairness == \A j \in Jobs : WF_compilerVars(Advance(j)) /\ SF_compilerVars(Acquire(j))

CompilerSpec == CompilerInit /\ [][CompilerNext]_compilerVars /\ Fairness

-----------------------------------------------------------------------------

\* compile.go:98: the deferred calls give every slot back and nothing waits with one in hand,
\* so every request that waits for a slot leaves in the end, whatever the others do.
WaitersServed == \A j \in Jobs : job[j] = "waiting" ~> job[j] = "idle"
=============================================================================
