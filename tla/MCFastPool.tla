---------------------------- MODULE MCFastPool ----------------------------
(* Two workers and two batches that may differ in their key: one of three   *)
(* candidates and one of two candidates and an invalid row.                 *)
EXTENDS FastPool

CONSTANTS k1, k2

MCInvalid == <<{}, {1}>>
=============================================================================
