-------------------------- MODULE CampaignInvariant --------------------------
(***************************************************************************)
(* The strengthening that makes the safety properties of Campaign          *)
(* inductive: what the owner threads may still do to a handle, which       *)
(* handles the registry holds, and what a closing loop has left to close.  *)
(***************************************************************************)
EXTENDS Campaign

\* A handle that was not started has no thread, and a thread that lives has
\* not given its answer.
ThreadInv ==
  \A h \in Handles :
    /\ state[h] \in {"none", "created"} => settled[h] = "no" /\ owner[h] = "none"
    /\ Alive(h) => settled[h] = "no"

\* The registry holds open handles of the current generation; a loop that
\* closes handles has them all before it.
LeaseInv ==
  /\ \A h \in registry :
       snapshotOf[h] = current /\ current # 0 /\ state[h] \notin {"none", "closed"}
  /\ todo \subseteq registry
  /\ closing \in registry \cup {NoHandle} /\ closing \notin todo
  /\ pc = "close" => closing = NoHandle
  /\ pc \in {"finish", "closing"} => registry \subseteq todo \cup {closing}
  /\ pc \in {"writer", "done"} => registry = {}
  /\ pc = "body" => current # 0
  /\ pc # "done" => writer /\ (current # 0 => current \in snapshots)

\* A handle that was made is registered or closed for good, unless its close
\* was interrupted.
ClosedInv ==
  \A h \in Handles \ cut : state[h] # "none" =>
    h \in registry \/ (state[h] = "closed" /\ ~Alive(h))

Inv ==
  TypeOK /\ ThreadInv /\ LeaseInv /\ ClosedInv /\ PoolIsExclusive
=============================================================================
