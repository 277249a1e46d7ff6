----------------------------- MODULE MCCampaign -----------------------------
(* Two evaluation handles and one training handle over two generations.     *)
EXTENDS Campaign

CONSTANTS e1, e2, t1
=============================================================================
