----------------------- MODULE FinalizationInvariant -----------------------
(***************************************************************************)
(* The strengthening that makes the safety invariants of Finalization      *)
(* inductive: who still owes an answer for a row, what a cost table may    *)
(* say, which of its rows are taken over, and how far each batch has got.  *)
(***************************************************************************)
EXTENDS Finalization

\* A pending row is in the writer's hands or in those of its own handle.
PendingInv ==
  /\ \A c \in queued : evidence[c] = "pending"
  /\ \A h \in Handles : phase[h] = "offer" =>
       /\ current[h] \in 0..(Population - 1)
       /\ evidence[<<h, current[h]>>] = "pending"
       /\ <<h, current[h]>> \notin queued
  /\ \A c \in Candidates : evidence[c] = "pending" =>
       c \in queued \/ (phase[c[1]] = "offer" /\ current[c[1]] = c[2])

\* Only durable evidence of a completed execution has a cost, or failed to have
\* one, in the rows and in the table being built.
VerdictInv ==
  /\ \A c \in Candidates : interpretation[c] \in {"succeeded", "failed"} =>
       evidence[c] = "committed" /\ execution[c] # "error"
  /\ DOMAIN table \subseteq Candidates
  /\ \A c \in DOMAIN table :
       /\ evidence[c] # "none"
       /\ table[c] \in {"succeeded", "failed"} =>
            evidence[c] = "committed" /\ execution[c] # "error"

\* The rows a batch has passed are settled, and a batch that is finishing has
\* accepted everything.
Passed(c) ==
  /\ evidence[c] = "committed"
  /\ interpretation[c] \in Verdicts
  /\ ~envelope[c]

BatchInv(h, i) ==
  /\ i < nextIndex[h] => Passed(<<h, i>>)
  /\ phase[h] \in {"finish", "drain"} => evidence[<<h, i>>] # "none"
  /\ phase[h] = "drain" => evidence[<<h, i>>] # "pending"
  /\ phase[h] = "done" => nextIndex[h] = Population

ProgressInv == \A h \in Handles, i \in 0..(Population - 1) : BatchInv(h, i)

\* A table that froze a row after its batch had interpreted it took the verdict
\* over, unless that is of another fingerprint.
HintInv ==
  \A c \in DOMAIN table : c \notin early =>
    Drained(c) /\ (tableOf = by[c] => table[c] = interpretation[c])

Inv ==
  /\ TypeOK /\ PendingInv /\ VerdictInv /\ ProgressInv /\ HintInv
  /\ OwnedWithinBudget
=============================================================================
