------------------------------ MODULE Answers ------------------------------
(***************************************************************************)
(* What the two job backends share: the rows of the batch, its outcome,    *)
(* cancellation, and ResultFinalizationCoordinator as a backend sees it.   *)
(* accept either takes a row, or raises.  It raises RecordingError when    *)
(* the session refuses the evidence, now and from then on, or when its     *)
(* flush or drain fails, which also closes the coordinator; a closed       *)
(* coordinator raises RuntimeError, which is no RecordingError.            *)
(***************************************************************************)
EXTENDS Naturals

CONSTANTS
  Population,  \* candidates of the batch
  Invalid,     \* those for which prepare_job raises
  NoRow,       \* the candidate has no row
  MaxFaults    \* bound of the model: commands, reads and calls that fail

Candidates == 0..(Population - 1)
RowStates == {"done", "error", "timeout", "cancelled"}

ASSUME AnswersAssumption ==
  /\ Population \in Nat \ {0} /\ Invalid \subseteq Candidates
  /\ NoRow \notin RowStates /\ MaxFaults \in Nat

VARIABLES
  rows,         \* the row accept took for each candidate
  outcome,      \* "none" | "running" | "returned" | "failed"
  cancel,       \* cancel_event is set
  coordinator,  \* "open", "refusing" (its session is) or "closed"
  faults        \* what has failed so far

answerVars == <<rows, outcome, cancel, coordinator, faults>>

AnswersInit ==
  /\ rows = [i \in Candidates |-> NoRow] /\ outcome = "none"
  /\ cancel = FALSE /\ coordinator = "open" /\ faults = 0

\* Mutation: what a failed runner left is forgotten.
NobodyLeft == {}

Unanswered == {i \in Candidates : rows[i] = NoRow}

\* One more command, read or call fails.
Fault == faults < MaxFaults /\ faults' = faults + 1

NoFault == UNCHANGED faults

Ongoing == UNCHANGED <<outcome, cancel>>

\* The mode's dispatcher is called with a new coordinator.
Begins ==
  /\ outcome = "none" /\ outcome' = "running"
  /\ UNCHANGED <<rows, cancel, coordinator, faults>>

\* The three ways a call of accept ends.
Takes(i, row) ==
  /\ coordinator = "open"
  /\ rows' = [rows EXCEPT ![i] = row]
  /\ UNCHANGED <<coordinator, faults>>

RecordingRaises ==
  /\ \/ coordinator = "open" /\ Fault /\ coordinator' \in {"refusing", "closed"}
     \/ coordinator = "refusing" /\ NoFault /\ UNCHANGED coordinator
  /\ UNCHANGED rows

ClosedRaises ==
  /\ coordinator = "closed"
  /\ UNCHANGED <<rows, coordinator, faults>>

\* coordinator.finish with every row, or failing on the recorder.
Finishes ==
  \/ /\ coordinator = "open" /\ outcome' = "returned"
     /\ UNCHANGED <<rows, coordinator, faults>>
  \/ RecordingRaises /\ outcome' = "failed"

CancelRequested ==
  /\ outcome = "running" /\ ~cancel
  /\ cancel' = TRUE
  /\ UNCHANGED <<rows, outcome, coordinator, faults>>

AnswersTypeOK ==
  /\ rows \in [Candidates -> RowStates \cup {NoRow}]
  /\ outcome \in {"none", "running", "returned", "failed"}
  /\ cancel \in BOOLEAN
  /\ coordinator \in {"open", "refusing", "closed"}
  /\ faults \in 0..MaxFaults

=============================================================================
