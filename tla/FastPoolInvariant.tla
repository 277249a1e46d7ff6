------------------------- MODULE FastPoolInvariant -------------------------
(***************************************************************************)
(* The strengthening that makes the properties of FastPool inductive:      *)
(* where the supervisor is, what each worker has on its pipes, which pool  *)
(* serves the batch, and who has each candidate.                           *)
(***************************************************************************)
EXTENDS FastPool

InLoop == {"loop", "check", "send", "receive", "cancel", "drain", "end"}

\* Where the supervisor is, and what it has done by then.
PlaceInv ==
  /\ outcome = "running" <=> pc # "between"
  /\ pc \in {"between", "raise"} => at = 0
  /\ pc = "rows" => at \in 0..Population
  /\ pc = "loop" => at = 1
  /\ pc \in {"check", "receive", "cancel"} => at \in 1..(Slots + 1)
  /\ pc = "send" => at \in SlotSet /\ active[at] = NoTask /\ pending # <<>>
  /\ pc \in {"between", "end"} => pending = <<>>
  /\ pc \in {"between", "rows", "drain", "end"} =>
       \A s \in SlotSet : active[s] = NoTask
  /\ pc = "cancel" => \A s \in SlotSet : s < at => active[s] = NoTask
  /\ pc \in {"cancel", "drain"} => cancel

\* The pool is the one the batch asked for, and so is each of its workers.
KeyInv ==
  /\ pc \in InLoop \cup {"rows"} => wanted \in Keys
  /\ pc \in InLoop => key = wanted
  /\ key # NoKey => \A s \in SlotSet : builtFor[s] = key
  /\ \A s \in SlotSet : active[s] # NoTask => builtFor[s] = wanted

\* How far a worker has come with its task is what is on its pipes: the
\* request is there until it has answered, a start comes before the answer,
\* and only an error makes it leave.
PipeOf(s) ==
  /\ active[s] # NoTask \/ Running(s) =>
       /\ \A j \in DOMAIN answers[s] : answers[s][j].task = active[s]
       /\ \A j \in DOMAIN request[s] : request[s][j] = active[s]
  /\ Len(request[s]) <= 1 /\ Len(answers[s]) <= 2
  /\ Len(answers[s]) = 2 => answers[s][1].kind = "started"
  /\ request[s] # <<>> =>
       /\ Len(answers[s]) <= 1
       /\ \A j \in DOMAIN answers[s] : answers[s][j].kind = "started"
  /\ proc[s] = "busy" => request[s] # <<>>
  /\ proc[s] = "idle" /\ request[s] # <<>> => answers[s] = <<>>
  /\ proc[s] = "leaving" =>
       /\ request[s] = <<>>
       /\ \A j \in DOMAIN answers[s] :
            answers[s][j].kind \in {"started", "error"}

PipeInv == \A s \in SlotSet : PipeOf(s)

\* The pool is about to be reset.
Doomed == pc = "raise" \/ (pc \in {"cancel", "drain", "end"} /\ cancel)

\* A slot without a task has nothing on its pipes, unless its worker was
\* killed and the pool is doomed.
SpareOf(s) ==
  active[s] = NoTask =>
    /\ \/ request[s] = <<>> /\ answers[s] = <<>>
       \/ ~Running(s) /\ Doomed
    /\ proc[s] = "leaving" => pc = "raise"

SpareInv == \A s \in SlotSet : SpareOf(s)

\* A candidate without a row is still to be looked at, pending, or the task of
\* a slot, and of one of these only.
Counted == pc \in InLoop \cup {"rows"}

Unseen(i) == pc = "rows" /\ i >= at

UnseenOnce == \A i \in Tasks : Unseen(i) => rows[i] = NoRow

PendingOnce ==
  \A j \in DOMAIN pending :
    /\ rows[pending[j]] = NoRow /\ ~Unseen(pending[j])
    /\ \A s \in SlotSet : active[s] # pending[j]
    /\ \A k \in DOMAIN pending : k # j => pending[k] # pending[j]

ActiveOnce ==
  \A s \in SlotSet : active[s] # NoTask =>
    /\ rows[active[s]] = NoRow
    /\ \A t \in SlotSet : t # s => active[t] # active[s]

Accounted ==
  \A i \in Tasks : rows[i] = NoRow =>
    \/ Unseen(i)
    \/ \E j \in DOMAIN pending : pending[j] = i
    \/ \E s \in SlotSet : active[s] = i

RowInv == Counted => UnseenOnce /\ PendingOnce /\ ActiveOnce /\ Accounted

\* A batch that failed has left no worker.
LeftInv ==
  pc = "between" /\ outcome = "failed" => \A s \in SlotSet : ~Running(s)

Inv ==
  /\ TypeOK /\ PlaceInv /\ KeyInv /\ PipeInv /\ SpareInv /\ RowInv /\ LeftInv

=============================================================================
