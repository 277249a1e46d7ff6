--------------------------- MODULE MCFinalization ---------------------------
(* Two handles of two candidates, and tables under two fingerprints; one of *)
(* the candidates may fail to be interpreted, at any attempt.              *)
EXTENDS Finalization

CONSTANTS h1, h2, f1, f2

MCMayFail == {<<h1, 1>>}
=============================================================================
