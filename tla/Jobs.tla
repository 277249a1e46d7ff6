-------------------------------- MODULE Jobs --------------------------------
(***************************************************************************)
(* The two modes that make one job of each candidate, as                   *)
(* _execute_evaluation_batch chooses between them, against what every      *)
(* backend owes its batch (Batch).                                         *)
(***************************************************************************)
EXTENDS Answers

CONSTANTS Modes, Resources, Retries, MaxWorkers

ASSUME JobsAssumption ==
  /\ Modes \subseteq {"local", "distributed"} /\ Modes # {}
  /\ Resources \cap {"none", "unknown", "timelimit", "other"} = {}
  /\ Retries \in Nat /\ MaxWorkers \in Nat \ {0}

VARIABLES
  mode,  \* batch.mode
  phase, step, todo, jobs, pending, deadline, stopping, seen, hold, verdict,
  trouble, guard, retried, notes, cluster, known, overdue, outputs, stale,
  main, workers, timed, template, task, answer, proc, held, clock, orphans

condorVars == <<phase, step, todo, jobs, pending, deadline, stopping, seen,
                hold, verdict, trouble, guard, retried, notes, cluster, known,
                overdue, outputs, stale>>
localVars == <<main, workers, timed, template, task, answer, proc, held, clock,
               orphans>>
vars == <<mode, condorVars, localVars, answerVars>>

Condor == INSTANCE CondorJobs
Local == INSTANCE LocalJobs

Init ==
  /\ mode \in Modes
  /\ AnswersInit /\ Condor!CondorInit /\ Local!LocalInit

Distributed(A) ==
  /\ mode = "distributed" /\ A
  /\ UNCHANGED <<mode, localVars>>

InProcesses(A) ==
  /\ mode = "local" /\ A
  /\ UNCHANGED <<mode, condorVars>>

Next == Distributed(Condor!Next) \/ InProcesses(Local!Next)

Spec == Init /\ [][Next]_vars

\* The dispatching thread runs; commands of the queue and the steps of a task
\* end; a timeout that is set passes.  No cluster, workflow or descendant of a
\* workflow has to end, or to close its pipes.
Fairness ==
  /\ WF_vars(Distributed(Condor!Runner))
  /\ WF_vars(Distributed(Condor!DeadlinePasses))
  /\ WF_vars(InProcesses(Local!Main))
  /\ \A i \in Candidates :
       /\ WF_vars(InProcesses(Local!Task(i)))
       /\ WF_vars(InProcesses(Local!TimePasses(i)))

FairSpec == Spec /\ Fairness

\* What the code does not enforce: whatever an ended workflow leaves behind
\* closes its pipes.
PipesAreClosed ==
  \A i \in Candidates : WF_vars(InProcesses(Local!PipesClose(i)))

ClosingSpec == FairSpec /\ PipesAreClosed

-----------------------------------------------------------------------------
(* Properties.                                                              *)

\* Every variable of both modes keeps its type, and the rows theirs.
TypeOK == Condor!TypeOK /\ Local!TypeOK

\* Either mode does for a batch what Batch promises: one answer per candidate,
\* a return only with all of them, and no answers after a failure.
Promise == INSTANCE Batch WITH Rows <- RowStates

AnswersOnce == Promise!Spec

\* A candidate is submitted again only while it is unanswered and when its
\* earlier cluster is out of the queue: two never work on one candidate.
RetriesAreFresh == Condor!RetriesAreFresh

\* When a batch returns with a cluster still in the queue, its row says that
\* the removal failed or that something raised, its id was never known, the
\* event of an earlier cluster ended it in the log, or it was found held while
\* the batch was being cancelled.
StraysAreReported == Condor!StraysAreReported

\* Whichever way a local batch ends, no thread of it is at work; and no
\* workflow process of it, nor a descendant that holds its pipes, runs on but
\* where the monitor could not be started or the termination raised.
NothingRunsOn == Local!NothingRunsOn

\* A local batch that was cancelled and is over has no workflow process left.
\* The documents say so; a monitor that cannot be started breaks it.
CancelledIsKilled == Local!CancelledIsKilled

\* A batch that was cancelled or has a timeout ends, whatever its clusters and
\* commands do and however long its workflows run.  Of local processes this
\* assumes that what a workflow leaves behind closes its pipes (PipesAreClosed),
\* and it does not hold while the runner waits for a process its kill missed.
BatchEnds ==
  cancel \/ deadline = "running" \/ (timed /\ outcome = "running")
    ~> outcome # "running" \/ \E i \in Candidates : Local!Missed(i)

\* A batch of local processes that was cancelled ends, whatever its workflows
\* and their descendants do.
CancelledEnds == cancel ~> outcome # "running"

\* Once recording has failed the batch only fails: it settles no further job,
\* submits none again and takes up no further candidate.  The documents say so;
\* RecordingCaught and what follows it break it.
RecordingStops ==
  [][coordinator # "open" =>
       \/ outcome' = "failed"
       \/ pending' = pending /\ \A i \in Candidates :
            task[i] = "queued" => task'[i] = "queued"]_vars

=============================================================================
