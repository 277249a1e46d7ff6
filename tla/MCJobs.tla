------------------------------- MODULE MCJobs -------------------------------
(* Three candidates, of which the second cannot be prepared.                *)
EXTENDS Jobs

MCInvalid == {1}

=============================================================================
