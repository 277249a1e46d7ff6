------------------------------- MODULE MCFits -------------------------------
(* Two programs that alternate in one workspace, under two tasks.           *)
EXTENDS Fits, TLC

CONSTANTS a, b, t1, t2

Symmetry == Permutations({a, b}) \cup Permutations({t1, t2})
=============================================================================
