----------------------------- MODULE CondorJobs -----------------------------
(***************************************************************************)
(* One batch on HTCondor: _dispatch_distributed of evaluate_manager/api.py *)
(* and run_condor_jobs of condor_runner.py with the resource retries of    *)
(* resource_retries.py, over a queue that runs, suspends, evicts, holds    *)
(* and ends clusters between any two of their steps.                       *)
(*                                                                         *)
(* A job's directory is abstracted to what the runner tells apart in it:   *)
(* the first terminal marker of condor.log, the execution clock the log    *)
(* yields, and the outputs the job sent back.                              *)
(***************************************************************************)
EXTENDS Answers

CONSTANTS
  Resources,  \* what a cluster can run out of and be retried with more of
  Retries     \* YADOF_RESOURCE_RETRY_DOUBLINGS

VARIABLES
  phase,     \* "prepare" | "submit" | "poll" | "sweep" | "rest" | "over"
  step,      \* where the handling of the current job is
  todo,      \* jobs this pass has still to look at
  jobs,      \* candidates that were prepared
  pending,   \* submitted and not answered
  deadline,  \* "off" | "running" | "passed"
  stopping,  \* cancellation_requested, read after the loop
  seen,      \* terminal_reason, as it was read
  hold,      \* why condor_q says the cluster is held
  verdict,   \* the row about to be stored
  trouble,   \* what it will say: "none" | "unremoved" | "raised"
  guard,     \* exceptions caught around it: "none" | "build" | "all"
  retried,   \* of each candidate, its retries by resource
  notes      \* what each row says of its cluster

runVars == <<phase, todo, jobs, pending, deadline, stopping, retried>>
stepVars == <<step, seen, hold, verdict, trouble, guard>>

VARIABLES
  cluster,   \* the newest cluster of each candidate
  known,     \* its id was parsed
  overdue,   \* its execution clock passed the limit
  outputs,   \* what it sent back
  stale      \* the removal event of an earlier one may reach its log

queueVars == <<cluster, known, overdue, outputs, stale>>
condorVars == <<runVars, stepVars, queueVars, notes>>
vars == <<condorVars, answerVars>>

Holds == Resources \cup {"timelimit", "other"}  \* why a cluster is held

\* The candidate the pass looks at: the dictionaries keep submission order.
Least(S) == CHOOSE i \in S : \A j \in S : i <= j

At == Least(todo)

\* In the queue.  Whether it runs or waits shows in its clock only.
Queued(i) == cluster[i] \in {"queued", "held"}

\* terminal_log_reason: a marker counts wherever it is, in a fixed order.
Reasons(i) ==
  CASE cluster[i] = "ended" -> {"terminated"}
    [] cluster[i] = "held" -> {"held"}
    [] cluster[i] = "aborted" -> {"aborted"}
    [] OTHER -> {"none"} \cup {reason \in {"aborted"} : stale[i]}

\* _job_local_outputs_ready.
Ready(i) == outputs[i] = "ready"

\* Nothing is being decided about any job.
Idle ==
  /\ step' = "next" /\ seen' = "none" /\ hold' = "none"
  /\ verdict' = "none" /\ trouble' = "none" /\ guard' = "none"

Enter(p, S) == phase' = p /\ todo' = S /\ Idle

\* A row is decided, with what is caught around building and storing it.
Decide(row, what, caught) ==
  /\ step' = "store" /\ verdict' = row /\ trouble' = what /\ guard' = caught
  /\ seen' = "none" /\ hold' = "none"

Goes(to) == step' = to /\ UNCHANGED <<hold, verdict, trouble, guard>>

-----------------------------------------------------------------------------
(* _dispatch_distributed: what it answers itself, outside every try.        *)

Begin ==
  /\ Begins /\ Enter("prepare", Candidates)
  /\ UNCHANGED <<jobs, pending, deadline, stopping, retried, queueVars, notes>>

\* A candidate is cancelled, cannot be prepared, or becomes a job.
PrepareCancelled ==
  /\ phase = "prepare" /\ step = "next" /\ todo # {} /\ cancel
  /\ Decide("cancelled", "none", "none")
  /\ UNCHANGED <<runVars, queueVars, notes, answerVars>>

PrepareFails ==
  /\ phase = "prepare" /\ step = "next" /\ todo # {} /\ ~cancel
  /\ At \in Invalid
  /\ Decide("error", "raised", "none")
  /\ UNCHANGED <<runVars, queueVars, notes, answerVars>>

Prepared ==
  /\ phase = "prepare" /\ step = "next" /\ todo # {} /\ ~cancel
  /\ At \notin Invalid
  /\ jobs' = jobs \cup {At} /\ todo' = todo \ {At}
  /\ UNCHANGED <<phase, pending, deadline, stopping, retried, stepVars,
                 queueVars, notes, answerVars>>

\* What run_condor_jobs left unanswered, because it raised or because the
\* coordinator took no more rows.
RestDecides ==
  /\ phase = "rest" /\ step = "next" /\ todo # {}
  /\ Decide("error", "raised", "none")
  /\ UNCHANGED <<runVars, queueVars, notes, answerVars>>

DispatchStores ==
  /\ phase \in {"prepare", "rest"} /\ step = "store"
  /\ Takes(At, verdict) /\ Ongoing
  /\ notes' = [notes EXCEPT ![At] = trouble]
  /\ todo' = todo \ {At} /\ Idle
  /\ UNCHANGED <<phase, jobs, pending, deadline, stopping, retried, queueVars>>

\* The batch is over for the dispatcher, clusters or not.
Leaves ==
  /\ Enter("over", {})
  /\ UNCHANGED <<jobs, pending, deadline, stopping, retried, queueVars, notes,
                 cancel>>

DispatchRaises ==
  /\ phase \in {"prepare", "rest"} /\ step = "store"
  /\ RecordingRaises \/ ClosedRaises
  /\ outcome' = "failed" /\ Leaves

Finish ==
  /\ phase = "rest" /\ todo = {}
  /\ Finishes /\ Leaves

-----------------------------------------------------------------------------
(* run_condor_jobs: submission.                                             *)

PreparedAll ==
  /\ phase = "prepare" /\ step = "next" /\ todo = {}
  /\ Enter("submit", jobs)
  /\ UNCHANGED <<jobs, pending, deadline, stopping, retried, queueVars, notes,
                 answerVars>>

SubmitCancelled ==
  /\ phase = "submit" /\ step = "next" /\ todo # {} /\ cancel
  /\ Decide("cancelled", "none", "none")
  /\ UNCHANGED <<runVars, queueVars, notes, answerVars>>

Submitting ==
  \/ phase = "submit" /\ step = "next" /\ todo # {} /\ ~cancel
  \/ phase = "poll" /\ step = "resubmit"

\* submit_condor_job: a new cluster, whose id may not be parsed.
Submitted ==
  /\ Submitting
  /\ cluster' = [cluster EXCEPT ![At] = "queued"]
  /\ overdue' = [overdue EXCEPT ![At] = FALSE]
  /\ \/ known' = [known EXCEPT ![At] = TRUE] /\ NoFault
     \/ known' = [known EXCEPT ![At] = FALSE] /\ Fault
  /\ pending' = pending \cup {At} /\ todo' = todo \ {At} /\ Idle
  /\ UNCHANGED <<phase, jobs, deadline, stopping, retried, outputs, stale,
                 notes, rows, coordinator>>
  /\ Ongoing

\* It raises, before or after condor_submit made the cluster.
SubmitFails ==
  /\ Submitting /\ Fault
  /\ \/ UNCHANGED <<cluster, known>>
     \/ /\ cluster' = [cluster EXCEPT ![At] = "queued"]
        /\ known' = [known EXCEPT ![At] = FALSE]
  /\ Decide("error", "raised", "none")
  /\ UNCHANGED <<runVars, overdue, outputs, stale, notes, rows, coordinator>>
  /\ Ongoing

SubmittedAll ==
  /\ phase = "submit" /\ step = "next" /\ todo = {}
  /\ deadline' \in {"off", "running"}
  /\ Enter("poll", {})
  /\ UNCHANGED <<jobs, pending, stopping, retried, queueVars, notes,
                 answerVars>>

-----------------------------------------------------------------------------
(* The polling loop: what it reads of one job.                              *)

LoopGoesOn == pending # {} /\ deadline # "passed" /\ ~cancel

\* A round visits the jobs that are pending as it begins.
Round ==
  /\ phase = "poll" /\ step = "next" /\ todo = {} /\ LoopGoesOn
  /\ todo' = pending
  /\ UNCHANGED <<phase, jobs, pending, deadline, stopping, retried, stepVars,
                 queueVars, notes, answerVars>>

LoopEnds ==
  /\ phase = "poll" /\ step = "next" /\ todo = {} /\ ~LoopGoesOn
  /\ stopping' = cancel /\ deadline' = "off"
  /\ Enter("sweep", pending)
  /\ UNCHANGED <<jobs, pending, retried, queueVars, notes, answerVars>>

\* A job is read in every round, and once more when the batch is cancelled.
ReadsLog ==
  /\ phase = "poll" \/ (phase = "sweep" /\ stopping)
  /\ step = "next" /\ todo # {}
  /\ seen' \in Reasons(At)
  /\ Goes("outputs")
  /\ UNCHANGED <<runVars, queueVars, notes, answerVars>>

ReadsOutputs ==
  /\ step = "outputs"
  /\ Goes(CASE seen = "held" -> "query"
            [] seen = "none" /\ ~Ready(At) ->
                 IF phase = "poll" THEN "watch" ELSE "remove"
            [] OTHER -> "collect")
  /\ UNCHANGED <<seen, runVars, queueVars, notes, answerVars>>

\* _yadof_execution_timeout_metadata reads the log again: what stops the clock
\* there are also the events written meanwhile.
Expires ==
  /\ step = "watch" /\ overdue[At]
  /\ Goes("remove")
  /\ UNCHANGED <<seen, runVars, queueVars, notes, answerVars>>

StaysPending ==
  /\ step = "watch" /\ (~overdue[At] \/ stale[At])
  /\ todo' = todo \ {At} /\ Idle
  /\ UNCHANGED <<phase, jobs, pending, deadline, stopping, retried, queueVars,
                 notes, answerVars>>

\* Reading a job's files raises: nothing isolates that from the batch.
ReadRaises ==
  /\ step \in {"outputs", "watch"} /\ Fault
  /\ Enter("rest", Unanswered \cap jobs)
  /\ UNCHANGED <<jobs, pending, deadline, stopping, retried, queueVars, notes,
                 rows, coordinator>>
  /\ Ongoing

\* condor_hold_info says nothing when it fails or the id is unknown.
Queries ==
  /\ step = "query"
  /\ \/ known[At] /\ cluster[At] = "held" /\ hold' \in Holds /\ NoFault
     \/ ~(known[At] /\ cluster[At] = "held") /\ hold' = "unknown" /\ NoFault
     \/ hold' = "unknown" /\ Fault
  /\ step' = IF phase = "poll" \/ hold' = "timelimit"
             THEN "remove" ELSE "collect"
  /\ UNCHANGED <<seen, verdict, trouble, guard, runVars, queueVars, notes,
                 rows, coordinator>>
  /\ Ongoing

-----------------------------------------------------------------------------
(* What it does about it.                                                   *)

\* Mutation: what is left gets its row only.
SweepsRowsOnly ==
  /\ phase = "sweep" /\ step = "next" /\ todo # {} /\ ~stopping
  /\ Decide("timeout", "none", "none")
  /\ UNCHANGED <<runVars, queueVars, notes, answerVars>>

\* The deadline passed: what is still pending is not looked at again.
SweepsLate ==
  /\ phase = "sweep" /\ step = "next" /\ todo # {} /\ ~stopping
  /\ Goes("remove")
  /\ UNCHANGED <<seen, runVars, queueVars, notes, answerVars>>

\* The row of a job whose cluster was removed.
RowOfRemoved ==
  CASE seen = "none" -> IF phase = "sweep" /\ stopping THEN "cancelled"
                        ELSE "timeout"
    [] hold = "timelimit" -> "timeout"
    [] OTHER -> "error"

\* What is caught around its collection, and around storing it.
Caught ==
  CASE step = "remove" /\ seen = "none" -> "none"
    [] phase = "poll" -> "all"
    [] OTHER -> "build"

Replaces == hold \in Resources /\ phase = "poll"

\* Mutation: the retry does not wait for the removal.
RetriesAtOnce ==
  /\ step = "remove" /\ Replaces
  /\ Goes("retry")
  /\ UNCHANGED <<seen, runVars, queueVars, notes, answerVars>>

\* remove_condor_job works, or has no id to work with.  The removal event may
\* be written later than what follows.
Removed ==
  /\ step = "remove"
  /\ cluster' = IF known[At] /\ cluster[At] \in {"queued", "held", "leaving"}
                THEN [cluster EXCEPT ![At] = "gone"] ELSE cluster
  /\ overdue' = [overdue EXCEPT ![At] = FALSE]
  /\ IF Replaces
     THEN Goes("retry") /\ UNCHANGED seen
     ELSE Decide(RowOfRemoved, "none", Caught)
  /\ \/ UNCHANGED stale
     \/ Replaces /\ stale' = [stale EXCEPT ![At] = TRUE]
  /\ UNCHANGED <<runVars, known, outputs, notes, answerVars>>

\* It fails or times out.  A cluster held for its time limit is removed once
\* more, and the row keeps the first error.
RemoveFails ==
  /\ step = "remove" /\ known[At] /\ Fault
  /\ \/ UNCHANGED cluster
     \/ hold = "timelimit" /\ cluster' = [cluster EXCEPT ![At] = "gone"]
  /\ Decide(RowOfRemoved, "unremoved", Caught)
  /\ UNCHANGED <<runVars, known, overdue, outputs, stale, notes, rows,
                 coordinator>>
  /\ Ongoing

\* Mutation: one retry too many.
MayRetryOnceMore == retried[At][hold] <= Retries

MayRetry == retried[At][hold] < Retries

\* decide_resource_retry.
Exhausted ==
  /\ step = "retry" /\ ~MayRetry
  /\ Decide("error", "none", "all")
  /\ UNCHANGED <<runVars, queueVars, notes, answerVars>>

Retrying ==
  /\ step' = "resubmit" /\ seen' = "none" /\ hold' = "none"
  /\ verdict' = "none" /\ trouble' = "none" /\ guard' = "none"

\* reset_job_for_resource_retry forgets the attempt, or raises.
Resets ==
  /\ step = "retry" /\ MayRetry
  /\ retried' = [retried EXCEPT ![At][hold] = @ + 1]
  /\ \/ /\ outputs' = [outputs EXCEPT ![At] = "none"]
        /\ Retrying
        /\ NoFault
     \/ /\ Fault
        /\ Decide("error", "raised", "none")
        /\ UNCHANGED outputs
  /\ UNCHANGED <<phase, todo, jobs, pending, deadline, stopping, cluster, known,
                 overdue, stale, notes, rows, coordinator>>
  /\ Ongoing

\* collect_condor_result, of a job that ended or was held by the end.  Only
\* outputs that came back can make it done, and they may still say error.
Collects ==
  /\ step = "collect"
  /\ \/ /\ seen \notin {"held", "aborted"} /\ outputs[At] # "none"
        /\ Decide("done", "none", Caught)
     \/ Decide("error", "none", Caught)
  /\ UNCHANGED <<runVars, queueVars, notes, answerVars>>

-----------------------------------------------------------------------------
(* store_result and what is around it.                                      *)

Storing == phase \in {"submit", "poll", "sweep"} /\ step = "store"

\* The job is answered as far as the runner is concerned.  What its row was
\* decided from is not read again, so the model forgets it.
Settled ==
  /\ pending' = pending \ {At} /\ todo' = todo \ {At} /\ Idle
  /\ outputs' = [outputs EXCEPT ![At] = "none"]
  /\ retried' = [retried EXCEPT ![At] = [r \in Resources |-> 0]]
  /\ UNCHANGED <<phase, jobs, deadline, stopping, cluster, known, overdue,
                 stale>>

Stores ==
  /\ Storing
  /\ Takes(At, verdict) /\ Ongoing
  /\ notes' = [notes EXCEPT ![At] = trouble]
  /\ Settled

\* The row cannot be built: the job fails if that is caught, else the call.
\* The row of a failed collection does not say that a removal failed.
BuildRaises ==
  /\ Storing /\ Fault
  /\ IF guard = "none"
     THEN Enter("rest", Unanswered \cap jobs)
     ELSE Decide("error", "raised", "none") /\ UNCHANGED <<phase, todo>>
  /\ UNCHANGED <<jobs, pending, deadline, stopping, retried, queueVars, notes,
                 rows, coordinator>>
  /\ Ongoing

\* RecordingError leaves the call, unless the handler of bad payloads is
\* around: then a second row is stored in place of the first.
RecordingEscapes ==
  /\ Storing /\ guard # "all"
  /\ RecordingRaises
  /\ outcome' = "failed" /\ Leaves

RecordingCaught ==
  /\ Storing /\ guard = "all"
  /\ RecordingRaises
  /\ Decide("error", "raised", "none")
  /\ UNCHANGED <<runVars, queueVars, notes>> /\ Ongoing

\* What a closed coordinator raises is taken for a progress failure.
Swallows ==
  /\ Storing
  /\ ClosedRaises /\ Ongoing
  /\ Settled
  /\ UNCHANGED notes

\* run_condor_jobs returns.
Swept ==
  /\ phase = "sweep" /\ step = "next" /\ todo = {}
  /\ Enter("rest", Unanswered \cap jobs)
  /\ UNCHANGED <<jobs, pending, deadline, stopping, retried, queueVars, notes,
                 answerVars>>

-----------------------------------------------------------------------------
(* The queue.                                                               *)

DeadlinePasses ==
  /\ deadline = "running" /\ phase = "poll"
  /\ deadline' = "passed"
  /\ UNCHANGED <<phase, todo, jobs, pending, stopping, retried, stepVars,
                 queueVars, notes, answerVars>>

\* After the loop neither cancel_event nor the deadline is read.
Cancelled ==
  /\ phase \in {"prepare", "submit", "poll"}
  /\ CancelRequested
  /\ UNCHANGED condorVars

\* What a cluster does is seen only by who handles its job, so the model lets
\* it happen then: before and between the steps that decide the job's row.
Followed(i) ==
  phase \in {"poll", "sweep"} /\ todo # {} /\ i = At /\ step # "store"

Moves(i, from, to) ==
  /\ Followed(i) /\ cluster[i] = from
  /\ cluster' = [cluster EXCEPT ![i] = to]
  /\ overdue' = [overdue EXCEPT ![i] = FALSE]
  /\ UNCHANGED <<known, stale, runVars, stepVars, notes, answerVars>>

\* The workflow ends: its outputs are sent back, then the event is written.
Exits(i) ==
  /\ Moves(i, "queued", "leaving")
  /\ \E what \in {"ready", "partial"} : outputs' = [outputs EXCEPT ![i] = what]

EndLogged(i) == Moves(i, "leaving", "ended") /\ UNCHANGED outputs

IsHeld(i) == Moves(i, "queued", "held") /\ UNCHANGED outputs

\* Somebody removes the cluster.
RemovedByHand(i) ==
  /\ Followed(i) /\ Queued(i) /\ Fault
  /\ cluster' = [cluster EXCEPT ![i] = "aborted"]
  /\ overdue' = [overdue EXCEPT ![i] = FALSE]
  /\ UNCHANGED <<known, outputs, stale, runVars, stepVars, notes, rows,
                 coordinator>>
  /\ Ongoing

\* Its execution clock passes the limit, or an eviction stops the clock.
LimitPasses(i) ==
  /\ Followed(i) /\ cluster[i] = "queued" /\ ~overdue[i]
  /\ overdue' = [overdue EXCEPT ![i] = TRUE]
  /\ UNCHANGED <<cluster, known, outputs, stale, runVars, stepVars, notes,
                 answerVars>>

Evicted(i) == overdue[i] /\ Moves(i, "queued", "queued") /\ UNCHANGED outputs

-----------------------------------------------------------------------------
CondorInit ==
  /\ phase = "over" /\ step = "next" /\ todo = {}
  /\ jobs = {} /\ pending = {} /\ deadline = "off" /\ stopping = FALSE
  /\ seen = "none" /\ hold = "none"
  /\ verdict = "none" /\ trouble = "none" /\ guard = "none"
  /\ retried = [i \in Candidates |-> [r \in Resources |-> 0]]
  /\ notes = [i \in Candidates |-> "none"]
  /\ cluster = [i \in Candidates |-> "none"]
  /\ known = [i \in Candidates |-> FALSE]
  /\ overdue = [i \in Candidates |-> FALSE]
  /\ outputs = [i \in Candidates |-> "none"]
  /\ stale = [i \in Candidates |-> FALSE]

Init == AnswersInit /\ CondorInit

Runner ==
  \/ Begin \/ PrepareCancelled \/ PrepareFails \/ Prepared
  \/ RestDecides \/ DispatchStores \/ DispatchRaises \/ Finish
  \/ PreparedAll \/ SubmitCancelled \/ Submitted \/ SubmittedAll
  \/ Round \/ LoopEnds \/ ReadsLog \/ ReadsOutputs \/ Expires
  \/ StaysPending \/ Queries
  \/ SweepsLate \/ Removed \/ Exhausted \/ Resets \/ Collects
  \/ Stores \/ RecordingEscapes \/ RecordingCaught \/ Swallows \/ Swept

Failure ==
  \/ SubmitFails \/ ReadRaises \/ RemoveFails \/ BuildRaises

Queue(i) ==
  \/ Exits(i) \/ EndLogged(i) \/ IsHeld(i) \/ RemovedByHand(i)
  \/ LimitPasses(i) \/ Evicted(i)

Next ==
  \/ Runner \/ Failure \/ DeadlinePasses
  \/ Cancelled
  \/ \E i \in Candidates : Queue(i)

-----------------------------------------------------------------------------
TypeOK ==
  /\ AnswersTypeOK
  /\ phase \in {"prepare", "submit", "poll", "sweep", "rest", "over"}
  /\ step \in {"next", "outputs", "watch", "query", "remove", "retry",
               "resubmit", "collect", "store"}
  /\ todo \subseteq Candidates /\ jobs \subseteq Candidates
  /\ pending \subseteq jobs
  /\ deadline \in {"off", "running", "passed"} /\ stopping \in BOOLEAN
  /\ seen \in {"none", "terminated", "held", "aborted"}
  /\ hold \in Holds \cup {"none", "unknown"}
  /\ verdict \in RowStates \cup {"none"}
  /\ trouble \in {"none", "unremoved", "raised"}
  /\ guard \in {"none", "build", "all"}
  /\ retried \in [Candidates -> [Resources -> 0..Retries]]
  /\ notes \in [Candidates -> {"none", "unremoved", "raised"}]
  /\ cluster \in [Candidates -> {"none", "queued", "held", "leaving", "ended",
                                 "gone", "aborted"}]
  /\ known \in [Candidates -> BOOLEAN] /\ overdue \in [Candidates -> BOOLEAN]
  /\ outputs \in [Candidates -> {"none", "ready", "partial"}]
  /\ stale \in [Candidates -> BOOLEAN]
  /\ step # "next" => todo # {}

\* A candidate is submitted again only while it is unanswered and when its
\* earlier cluster is out of the queue: two never work on one candidate.
RetriesAreFresh ==
  step = "resubmit" =>
    /\ rows[At] = NoRow /\ At \in pending
    /\ ~Queued(At) /\ cluster[At] # "leaving"

\* When the batch returns with a cluster still in the queue, its row says that
\* the removal failed or that something raised, its id was never known, the
\* event of an earlier cluster ended it in the log, or it was found held while
\* the batch was being cancelled.
StraysAreReported ==
  outcome = "returned" =>
    \A i \in Candidates : Queued(i) =>
      \/ notes[i] # "none" \/ ~known[i]
      \/ stale[i]
      \/ stopping /\ cluster[i] = "held" /\ rows[i] = "error"

=============================================================================
