---------------------------- MODULE EvidenceLog ----------------------------
(***************************************************************************)
(* What a campaign's recorder promises, whatever its queue, its budget and *)
(* its writer thread do: evidence is owed to its submitter until it is     *)
(* acknowledged or refused, an acknowledgement is given only for evidence  *)
(* that survives the process, an answer never changes, and a new session   *)
(* starts from what survived.                                              *)
(***************************************************************************)
CONSTANT Envelopes

VARIABLES
  durable,  \* evidence a later session would recover
  answer,   \* "none" | "pending" | "committed" | "failed", per envelope
  known     \* evidence this session holds a row for

vars == <<durable, answer, known>>

Init ==
  /\ durable = {}
  /\ answer = [e \in Envelopes |-> "none"]
  /\ known = {}

Resolve(S, verdict) ==
  /\ S # {} /\ \A e \in S : answer[e] = "pending"
  /\ answer' = [e \in Envelopes |-> IF e \in S THEN verdict ELSE answer[e]]
  /\ UNCHANGED <<durable, known>>

Submit(e) ==
  /\ e \notin known /\ e \notin durable
  /\ known' = known \cup {e}
  /\ answer' = [answer EXCEPT ![e] = "pending"]
  /\ UNCHANGED durable

\* A group of owed envelopes becomes durable at once, each for the first time.
Persist(S) ==
  /\ S # {} /\ S \cap durable = {}
  /\ \A e \in S : answer[e] = "pending"
  /\ durable' = durable \cup S
  /\ UNCHANGED <<answer, known>>

Acknowledge(S) == S \subseteq durable /\ Resolve(S, "committed")

Fail(S) == Resolve(S, "failed")

\* The process ends and takes everything that is not durable with it.
Lose ==
  /\ known' = {}
  /\ answer' = [e \in Envelopes |-> "none"]
  /\ UNCHANGED durable

Recover ==
  /\ known' = durable
  /\ answer' = [e \in Envelopes |-> "none"]
  /\ UNCHANGED durable

Next ==
  \/ \E e \in Envelopes : Submit(e)
  \/ \E S \in SUBSET Envelopes : Persist(S) \/ Acknowledge(S) \/ Fail(S)
  \/ Lose \/ Recover

Spec == Init /\ [][Next]_vars

=============================================================================
