----------------------------- MODULE MCRecorder -----------------------------
(* Small instances of Recorder: envelopes in two groups (e3 opens the       *)
(* second one), reservations of one or two bytes against a budget of two    *)
(* candidates and three bytes.                                              *)
EXTENDS Recorder, TLC

CONSTANTS e1, e2, e3, g1, g2

MCGroup == e1 :> g1 @@ e2 :> g1 @@ e3 :> g2
MCBytes == e1 :> 1 @@ e2 :> 2 @@ e3 :> 2
=============================================================================
