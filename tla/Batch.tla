------------------------------- MODULE Batch -------------------------------
(***************************************************************************)
(* What a backend owes the coordinator of a batch: while the batch runs,   *)
(* each candidate is answered at most once; the backend returns only when  *)
(* all are answered, and otherwise it fails, with no answers after that.   *)
(***************************************************************************)
CONSTANTS
  Candidates,  \* indices of the population
  Rows,        \* what a candidate may be answered
  NoRow        \* no answer yet

VARIABLES
  rows,     \* the answer each candidate was given
  outcome   \* "running" | "returned" | "failed" ("none" before the first)

vars == <<rows, outcome>>

Init == rows = [i \in Candidates |-> NoRow] /\ outcome = "none"

Begin ==
  /\ outcome # "running"
  /\ rows' = [i \in Candidates |-> NoRow]
  /\ outcome' = "running"

Answer(i) ==
  /\ outcome = "running" /\ rows[i] = NoRow
  /\ \E row \in Rows : rows' = [rows EXCEPT ![i] = row]
  /\ UNCHANGED outcome

Return ==
  /\ outcome = "running" /\ \A i \in Candidates : rows[i] # NoRow
  /\ outcome' = "returned"
  /\ UNCHANGED rows

Fail ==
  /\ outcome = "running"
  /\ outcome' = "failed"
  /\ UNCHANGED rows

Next == Begin \/ (\E i \in Candidates : Answer(i)) \/ Return \/ Fail

Spec == Init /\ [][Next]_vars

=============================================================================
