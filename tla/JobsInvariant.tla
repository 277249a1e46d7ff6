--------------------------- MODULE JobsInvariant ---------------------------
(***************************************************************************)
(* The strengthening that makes the properties of Jobs inductive: what the *)
(* mode that is not chosen leaves alone, how far the threads of a local    *)
(* batch are, and for a batch on HTCondor where the runner is, what it has *)
(* read of the job it looks at, and what became of each cluster.           *)
(***************************************************************************)
EXTENDS Jobs

At == Condor!At

\* A batch has returned only with every row.
ReturnInv == outcome = "returned" => \A i \in Candidates : rows[i] # NoRow

-----------------------------------------------------------------------------
(* A batch of local processes.                                              *)

\* Where the dispatching thread is, and what it has started by then.
MainInv ==
  /\ mode \in Modes
  /\ mode = "distributed" => main = "idle"
  /\ mode = "local" =>
       /\ outcome = "none" <=> main = "idle"
       /\ outcome = "running" <=> main \in {"freeze", "collect", "unwind"}
  /\ main \in {"idle", "freeze"} => \A i \in Candidates : task[i] = "queued"
  /\ main = "over" => \A i \in Candidates : ~Local!InThread(i)

\* A process lives, or its pipes are open, only under the thread that watches
\* or drains it, or after a step of that thread raised, which was answered
\* "error"; and a row is one that was taken from its thread.
TaskInv ==
  \A i \in Candidates :
    /\ proc[i] = "alive" \/ held[i] =>
         task[i] \in {"watch", "drain"} \/ i \in orphans
    /\ i \in orphans => Local!Settled(i) /\ answer[i] = "error"
    /\ task[i] = "drain" => answer[i] # NoRow
    /\ mode = "local" => (rows[i] # NoRow <=> task[i] = "taken")

Open(i) == task[i] \notin {"queued", "taken"}

\* One worker has one candidate at a time, and none when recording fails.
TurnInv ==
  Local!Sequential =>
    /\ \A i, j \in Candidates : Open(i) /\ Open(j) => i = j
    /\ main = "unwind" => \A i \in Candidates : ~Local!InThread(i)

-----------------------------------------------------------------------------
(* A batch on HTCondor.                                                     *)

\* Where the runner is.
PhaseInv ==
  /\ mode = "local" => phase = "over"
  /\ mode = "distributed" => (phase = "over" <=> outcome # "running")
  /\ outcome = "none" => \A i \in Candidates : rows[i] = NoRow
  /\ phase \in {"prepare", "submit", "poll"} \/ outcome = "none" => ~stopping
  /\ phase = "prepare" \/ outcome = "none" => pending = {}
  /\ phase = "over" => step = "next"
  /\ outcome = "none" => jobs = {}

\* What has no row is still in the runner's hands: the row of a prepared job
\* is missing otherwise only while the runner is between its loops.
LeftInv ==
  /\ phase = "prepare" =>
       \A i \in Candidates : rows[i] = NoRow <=> i \in todo \cup jobs
  /\ phase = "prepare" => todo \cap jobs = {}
  /\ phase \in {"submit", "poll", "sweep"} =>
       /\ todo \subseteq jobs
       /\ \A i \in todo \cup pending : rows[i] = NoRow
       /\ \A i \in Candidates \ jobs : rows[i] # NoRow
  /\ phase \in {"poll", "sweep"} => todo \subseteq pending
  /\ phase = "rest" => \A i \in Candidates : rows[i] = NoRow <=> i \in todo

\* Which step may be taken in which phase, and what it has at hand.
StepInv ==
  /\ phase \in {"prepare", "submit", "rest"} => step \in {"next", "store"}
  /\ step \in {"watch", "retry", "resubmit"} => phase = "poll"
  /\ phase = "sweep" /\ step \in {"outputs", "query", "collect"} => stopping
  /\ step = "store" => verdict \in RowStates
  /\ step = "retry" => hold \in Resources
  /\ step = "query" => seen = "held"
  /\ step \in {"next", "store", "resubmit"} => seen = "none" /\ hold = "none"
  /\ step \in {"outputs", "watch"} => hold = "none"
  /\ step = "collect" /\ seen = "held" => phase = "sweep"

\* What was read of the job still says something of its cluster.
SeenInv ==
  /\ seen = "terminated" => cluster[At] = "ended"
  /\ seen = "aborted" => cluster[At] = "aborted" \/ stale[At]
  /\ seen = "held" => cluster[At] \in {"held", "aborted", "gone"}
  /\ step = "collect" /\ seen = "none" => outputs[At] # "none"
  /\ step = "remove" /\ hold \in Resources =>
       known[At] /\ cluster[At] \in {"held", "aborted"}
  /\ step \in {"retry", "resubmit"} => cluster[At] \in {"gone", "aborted"}
  /\ step = "resubmit" => outputs[At] = "none"

\* A cluster in the queue has sent nothing back; before its submission a
\* candidate has no cluster.
ClusterInv ==
  /\ \A i \in Candidates : Condor!Queued(i) => outputs[i] = "none"
  /\ mode = "local" \/ outcome = "none" \/ phase = "prepare" =>
       \A i \in Candidates : cluster[i] = "none" /\ outputs[i] = "none"
  /\ phase = "submit" =>
       \A i \in todo : step = "next" \/ i # At =>
         cluster[i] = "none" /\ outputs[i] = "none"

\* A cluster that a row leaves in the queue is accounted for.
StrayInv ==
  /\ \A i \in Candidates : rows[i] # NoRow /\ Condor!Queued(i) =>
       \/ notes[i] # "none" \/ ~known[i] \/ stale[i]
       \/ stopping /\ cluster[i] = "held" /\ rows[i] = "error"
  /\ step = "store" /\ Condor!Queued(At) =>
       \/ trouble # "none" \/ ~known[At] \/ stale[At]
       \/ stopping /\ cluster[At] = "held" /\ verdict = "error"

Inv ==
  /\ TypeOK /\ ReturnInv
  /\ MainInv /\ TaskInv /\ TurnInv
  /\ PhaseInv /\ LeftInv /\ StepInv /\ SeenInv /\ ClusterInv /\ StrayInv

=============================================================================
