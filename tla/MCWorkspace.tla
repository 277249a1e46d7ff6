---------------------------- MODULE MCWorkspace ----------------------------
(* Two processes that give run and clear commands for two programs.         *)
EXTENDS Workspace, TLC

CONSTANTS p1, p2, s1, s2

Symmetry == Permutations({p1, p2}) \cup Permutations({s1, s2})
=============================================================================
