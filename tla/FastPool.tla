------------------------------ MODULE FastPool ------------------------------
(***************************************************************************)
(* The pool of resident worker processes that evaluates fast batches:      *)
(* FastWorkerPool and the supervising loop of evaluate_manager/            *)
(* fast_runner.py, and the worker's own loop on the other end of each      *)
(* pipe.                                                                   *)
(*                                                                         *)
(* The supervisor visits its slots one at a time and the workers move      *)
(* between any two of its steps.  What a candidate computes is abstracted  *)
(* to the kind of its answer, a candidate to its index, and what makes two *)
(* batches compatible (signature, worker count, timeout, environment) to a *)
(* key.                                                                    *)
(***************************************************************************)
EXTENDS Naturals, Sequences

CONSTANTS
  Slots,        \* number of worker slots
  Population,   \* candidates of a batch
  Invalid,      \* of each batch, those whose parameters cannot be assigned
  Keys,         \* compatibility keys
  NoKey,        \* the pool has no workers
  NoTask,       \* the slot has no task
  NoRow,        \* the candidate has no result
  MaxBatches,   \* bound of the model: batches of the campaign
  MaxDeaths     \* bound of the model: workers that die by themselves

SlotSet == 1..Slots
Tasks == 0..(Population - 1)

ASSUME FastPoolAssumption ==
  /\ Slots \in Nat \ {0} /\ Population \in Nat \ {0}
  /\ Invalid \in [1..MaxBatches -> SUBSET Tasks]
  /\ NoKey \notin Keys /\ NoTask \notin Tasks
  /\ NoRow \notin {"done", "error", "exit", "timeout", "cancelled"}
  /\ MaxBatches \in Nat /\ MaxDeaths \in Nat

VARIABLES
  pc,        \* where the supervisor is
  at,        \* the slot (or the row) it looks at
  batches,   \* batches begun so far
  wanted,    \* the key of the batch
  cancel,    \* cancel_event is set
  pending,   \* tasks nobody works on yet
  ready,     \* slots wait() reported
  rows,      \* what on_result was given for each index
  outcome,   \* how the batch ended
  key,       \* the pool's key
  active,    \* the task of each slot
  clock,     \* its execution clock: "off" | "running" | "over"
  proc,      \* its process: "none" | "idle" | "busy" | "leaving" | "dead"
  builtFor,  \* the key the process was spawned for
  request,   \* the pipe to the worker
  answers,   \* the pipe from it
  deaths     \* workers that died by themselves

batchVars == <<batches, wanted, rows, outcome>>
loopVars == <<pc, at, cancel, pending, ready>>
slotVars == <<active, clock>>
procVars == <<proc, builtFor, request, answers>>
vars == <<batchVars, loopVars, slotVars, procVars, key, deaths>>

Running(s) == proc[s] \in {"idle", "busy", "leaving"}

Busy == {s \in SlotSet : active[s] # NoTask}

-----------------------------------------------------------------------------
(* Workers and their processes, as the supervisor handles them.             *)

\* Mutation: the new worker is given the old one's pipe.
SpawnOnOldPipe(s) ==
  /\ proc' = [proc EXCEPT ![s] = "idle"]
  /\ builtFor' = [builtFor EXCEPT ![s] = wanted]
  /\ request' = [request EXCEPT ![s] = <<>>]
  /\ UNCHANGED answers

\* _spawn_worker: a new process and a new pipe.
Spawn(s) ==
  /\ proc' = [proc EXCEPT ![s] = "idle"]
  /\ builtFor' = [builtFor EXCEPT ![s] = wanted]
  /\ request' = [request EXCEPT ![s] = <<>>]
  /\ answers' = [answers EXCEPT ![s] = <<>>]

\* pool.reset: every worker is stopped and its pipe closed.
Reset ==
  /\ proc' = [s \in SlotSet |-> "none"]
  /\ request' = [s \in SlotSet |-> <<>>]
  /\ answers' = [s \in SlotSet |-> <<>>]
  /\ key' = NoKey
  /\ active' = [s \in SlotSet |-> NoTask]
  /\ clock' = [s \in SlotSet |-> "off"]
  /\ builtFor' = [s \in SlotSet |-> NoKey]

\* The slot's task is over.
Settled(s) ==
  /\ active' = [active EXCEPT ![s] = NoTask]
  /\ clock' = [clock EXCEPT ![s] = "off"]

\* on_result takes the row, or raises and leaves the rest of the step undone.
Delivers(i, row) == rows' = [rows EXCEPT ![i] = row]

\* The supervisor leaves the loop with an exception, from anywhere in it.
Raises ==
  /\ pc' = "raise" /\ at' = 0 /\ ready' = {}
  /\ UNCHANGED <<cancel, pending, batchVars, slotVars, procVars, key, deaths>>

-----------------------------------------------------------------------------
(* run_fast_population, up to its loop.                                     *)

Begin(k) ==
  /\ pc = "between" /\ batches < MaxBatches
  /\ batches' = batches + 1
  /\ wanted' = k
  /\ rows' = [i \in Tasks |-> NoRow]
  /\ outcome' = "running"
  /\ pc' = "rows"
  /\ UNCHANGED <<at, cancel, pending, ready, slotVars, procVars, key, deaths>>

\* A row is cancelled before it is looked at, its parameters cannot be
\* assigned, or it becomes a task.
RowCancelled ==
  /\ pc = "rows" /\ at < Population /\ cancel
  /\ Delivers(at, "cancelled")
  /\ at' = at + 1
  /\ UNCHANGED <<pc, cancel, pending, ready, batches, wanted, outcome,
                 slotVars, procVars, key, deaths>>

RowInvalid ==
  /\ pc = "rows" /\ at < Population /\ ~cancel /\ at \in Invalid[batches]
  /\ Delivers(at, "error")
  /\ at' = at + 1
  /\ UNCHANGED <<pc, cancel, pending, ready, batches, wanted, outcome,
                 slotVars, procVars, key, deaths>>

RowQueued ==
  /\ pc = "rows" /\ at < Population /\ ~cancel /\ at \notin Invalid[batches]
  /\ pending' = Append(pending, at)
  /\ at' = at + 1
  /\ UNCHANGED <<pc, cancel, ready, batchVars, slotVars, procVars, key,
                 deaths>>

\* No row became a task: the pool is not touched.
NothingToRun ==
  /\ pc = "rows" /\ at = Population /\ pending = <<>>
  /\ pc' = "between" /\ at' = 0 /\ cancel' = FALSE
  /\ outcome' = "returned"
  /\ UNCHANGED <<pending, ready, batches, wanted, rows, slotVars,
                 procVars, key, deaths>>

\* Mutation: any pool with workers will do.
HasWorkers == key # NoKey

Compatible == key = wanted

\* prepare finds a pool that fits, or replaces it (which may raise).
PrepareReuses ==
  /\ pc = "rows" /\ at = Population /\ pending # <<>> /\ Compatible
  /\ pc' = "loop" /\ at' = 1
  /\ UNCHANGED <<cancel, pending, ready, batchVars, slotVars, procVars, key,
                 deaths>>

PrepareSpawns ==
  /\ pc = "rows" /\ at = Population /\ pending # <<>> /\ ~Compatible
  /\ proc' = [s \in SlotSet |-> "idle"]
  /\ builtFor' = [s \in SlotSet |-> wanted]
  /\ request' = [s \in SlotSet |-> <<>>]
  /\ answers' = [s \in SlotSet |-> <<>>]
  /\ key' = wanted
  /\ pc' = "loop" /\ at' = 1
  /\ UNCHANGED <<cancel, pending, ready, batchVars, slotVars, deaths>>

-----------------------------------------------------------------------------
(* The loop: assign.                                                        *)

\* Mutation: workers that are still busy are forgotten.
QueueEmpty == pending = <<>>

BatchOver == pending = <<>> /\ Busy = {}

LoopContinues ==
  /\ pc = "loop" /\ ~BatchOver
  /\ pc' = "check"
  /\ UNCHANGED <<at, cancel, pending, ready, batchVars, slotVars, procVars,
                 key, deaths>>

LoopEnds ==
  /\ pc = "loop" /\ BatchOver
  /\ pc' = "end"
  /\ UNCHANGED <<at, cancel, pending, ready, batchVars, slotVars, procVars,
                 key, deaths>>

\* Mutation: a slot is given a task while it has one.
GetsAnother(s) == pending # <<>> /\ ~cancel

GetsTask(s) == active[s] = NoTask /\ pending # <<>> /\ ~cancel

\* A worker that died while it was idle is replaced before it gets a task.
CheckIdle ==
  /\ pc = "check" /\ at <= Slots
  /\ IF active[at] = NoTask /\ ~Running(at)
     THEN Spawn(at)
     ELSE UNCHANGED procVars
  /\ IF GetsTask(at)
     THEN pc' = "send" /\ UNCHANGED at
     ELSE at' = at + 1 /\ UNCHANGED pc
  /\ UNCHANGED <<cancel, pending, ready, batchVars, slotVars, key, deaths>>

\* _assign_task.
SendTask ==
  /\ pc = "send" /\ Running(at)
  /\ request' = [request EXCEPT ![at] = Append(@, Head(pending))]
  /\ active' = [active EXCEPT ![at] = Head(pending)]
  /\ pending' = Tail(pending)
  /\ pc' = "check" /\ at' = at + 1
  /\ UNCHANGED <<cancel, ready, batchVars, clock, proc, builtFor, answers,
                 key, deaths>>

\* The worker died since it was looked at: send raises, and so does the batch.
SendFails == pc = "send" /\ ~Running(at) /\ Raises

\* wait() reports the pipes with data or with their other end closed.
Waits ==
  /\ pc = "check" /\ at > Slots /\ Busy # {}
  /\ ready' = {s \in Busy : answers[s] # <<>> \/ ~Running(s)}
  /\ pc' = "receive" /\ at' = 1
  /\ UNCHANGED <<cancel, pending, batchVars, slotVars, procVars, key, deaths>>

\* Nobody is busy: either the batch was cancelled or it goes round again.
NobodyBusy ==
  /\ pc = "check" /\ at > Slots /\ Busy = {}
  /\ pc' = (IF cancel THEN "drain" ELSE "loop") /\ at' = 1
  /\ UNCHANGED <<cancel, pending, ready, batchVars, slotVars, procVars,
                 key, deaths>>

-----------------------------------------------------------------------------
(* The loop: receive.                                                       *)

Answered == pc = "receive" /\ at \in Busy /\ at \in ready /\ answers[at] # <<>>

\* One message per slot and round: "started" starts the execution clock.
ReceiveStarted ==
  /\ Answered /\ Head(answers[at]).kind = "started"
  /\ clock' = [clock EXCEPT ![at] = "running"]
  /\ answers' = [answers EXCEPT ![at] = Tail(@)]
  /\ at' = at + 1
  /\ UNCHANGED <<pc, cancel, pending, ready, batchVars, active, proc,
                 builtFor, request, key, deaths>>

\* A task error other than a declared physical failure costs the worker.
Spoils(kind) == kind = "error"

RowOf(kind) == IF kind = "done" THEN "done" ELSE "error"

ReceiveResult ==
  /\ Answered /\ Head(answers[at]).kind # "started"
  /\ Delivers(active[at], RowOf(Head(answers[at]).kind))
  /\ Settled(at)
  /\ IF Spoils(Head(answers[at]).kind)
     THEN Spawn(at)
     ELSE /\ answers' = [answers EXCEPT ![at] = Tail(@)]
          /\ UNCHANGED <<proc, builtFor, request>>
  /\ at' = at + 1
  /\ UNCHANGED <<pc, cancel, pending, ready, batches, wanted, outcome, key,
                 deaths>>

\* The same, but the worker was still closing its session, which fails.
ReplaceRaises ==
  /\ Answered /\ Spoils(Head(answers[at]).kind) /\ proc[at] = "leaving"
  /\ Delivers(active[at], "error")
  /\ Settled(at)
  /\ answers' = [answers EXCEPT ![at] = Tail(@)]
  /\ pc' = "raise" /\ at' = 0 /\ ready' = {}
  /\ UNCHANGED <<cancel, pending, batches, wanted, outcome, proc, builtFor,
                 request, key, deaths>>

Unanswered == pc = "receive" /\ at \in Busy /\ ~Answered

\* Mutation: the hard timeout is not enforced.
NeverOverdue(s) == FALSE

Overdue(s) == clock[s] = "over"

\* The hard timeout: the process tree is killed and the worker replaced.
TimesOut ==
  /\ Unanswered /\ ~cancel /\ Overdue(at)
  /\ Delivers(active[at], "timeout")
  /\ Settled(at)
  /\ Spawn(at)
  /\ at' = at + 1
  /\ UNCHANGED <<pc, cancel, pending, ready, batches, wanted, outcome, key,
                 deaths>>

\* The worker is gone without an answer.
FindsDead ==
  /\ Unanswered /\ ~cancel /\ ~Overdue(at) /\ ~Running(at)
  /\ Delivers(active[at], "exit")
  /\ Settled(at)
  /\ Spawn(at)
  /\ at' = at + 1
  /\ UNCHANGED <<pc, cancel, pending, ready, batches, wanted, outcome, key,
                 deaths>>

Skips ==
  /\ pc = "receive" /\ at \in SlotSet
  /\ \/ at \notin Busy
     \/ Unanswered /\ (cancel \/ (~Overdue(at) /\ Running(at)))
  /\ at' = at + 1
  /\ UNCHANGED <<pc, cancel, pending, ready, batchVars, slotVars, procVars,
                 key, deaths>>

RoundEnds ==
  /\ pc = "receive" /\ at > Slots
  /\ pc' = (IF cancel THEN "cancel" ELSE "loop") /\ at' = 1 /\ ready' = {}
  /\ UNCHANGED <<cancel, pending, batchVars, slotVars, procVars, key, deaths>>

-----------------------------------------------------------------------------
(* Cancellation, the end of the batch, and failures.                        *)

\* What is still at work is killed and cancelled.
CancelSlot ==
  /\ pc = "cancel" /\ at \in SlotSet
  /\ IF at \in Busy
     THEN /\ Delivers(active[at], "cancelled")
          /\ Settled(at)
          /\ proc' = [proc EXCEPT ![at] = "dead"]
     ELSE UNCHANGED <<rows, slotVars, proc>>
  /\ at' = at + 1
  /\ UNCHANGED <<pc, cancel, pending, ready, batches, wanted, outcome,
                 builtFor, request, answers, key, deaths>>

CancelledAll ==
  /\ pc = "cancel" /\ at > Slots
  /\ pc' = "drain" /\ at' = 1
  /\ UNCHANGED <<cancel, pending, ready, batchVars, slotVars, procVars,
                 key, deaths>>

\* What nobody worked on is cancelled in order.
Drain ==
  /\ pc = "drain" /\ pending # <<>>
  /\ Delivers(Head(pending), "cancelled")
  /\ pending' = Tail(pending)
  /\ UNCHANGED <<pc, at, cancel, ready, batches, wanted, outcome, slotVars,
                 procVars, key, deaths>>

Drained ==
  /\ pc = "drain" /\ pending = <<>>
  /\ pc' = "end"
  /\ UNCHANGED <<at, cancel, pending, ready, batchVars, slotVars, procVars,
                 key, deaths>>

\* Mutation: a cancelled batch keeps its pool.
AlwaysKeeps == TRUE

\* A batch that was cancelled resets its pool; others keep their workers.
KeepsPool == ~cancel

Ends ==
  /\ pc = "end"
  /\ IF KeepsPool THEN UNCHANGED <<slotVars, procVars, key>> ELSE Reset
  /\ outcome' = "returned"
  /\ pc' = "between" /\ at' = 0 /\ cancel' = FALSE
  /\ UNCHANGED <<pending, ready, batches, wanted, rows, deaths>>

\* on_result raises, a worker cannot be spawned, or a worker or its scratch
\* directory cannot be cleaned up.
StepRaises ==
  /\ \/ pc = "rows" /\ (at < Population \/ pending # <<>>)
     \/ pc \in {"check", "send", "receive", "cancel", "drain"}
     \/ pc = "end" /\ cancel
  /\ Raises

\* The batch fails and the pool with it.
Fails ==
  /\ pc = "raise"
  /\ Reset
  /\ pending' = <<>>
  /\ outcome' = "failed"
  /\ pc' = "between" /\ cancel' = FALSE
  /\ UNCHANGED <<at, ready, batches, wanted, rows, deaths>>

CancelRequested ==
  /\ pc # "between" /\ ~cancel
  /\ cancel' = TRUE
  /\ UNCHANGED <<pc, at, pending, ready, batchVars, slotVars, procVars, key,
                 deaths>>

-----------------------------------------------------------------------------
(* The worker's end: _fast_worker_main.                                     *)

WorkerStarts(s) ==
  /\ proc[s] = "idle" /\ request[s] # <<>>
  /\ answers' = [answers EXCEPT
       ![s] = Append(@, [kind |-> "started", task |-> Head(request[s])])]
  /\ proc' = [proc EXCEPT ![s] = "busy"]
  /\ UNCHANGED <<builtFor, request, batchVars, loopVars, slotVars, key,
                 deaths>>

\* The kernel returns, raises a declared physical failure, or raises.
WorkerAnswers(s, kind) ==
  /\ proc[s] = "busy"
  /\ answers' = [answers EXCEPT
       ![s] = Append(@, [kind |-> kind, task |-> Head(request[s])])]
  /\ request' = [request EXCEPT ![s] = Tail(@)]
  /\ proc' = [proc EXCEPT ![s] = IF kind = "error" THEN "leaving" ELSE "idle"]
  /\ UNCHANGED <<builtFor, batchVars, loopVars, slotVars, key, deaths>>

WorkerLeaves(s) ==
  /\ proc[s] = "leaving"
  /\ proc' = [proc EXCEPT ![s] = "dead"]
  /\ UNCHANGED <<builtFor, request, answers, batchVars, loopVars, slotVars,
                 key, deaths>>

\* The process dies at any moment.  What it sent can still be read.
WorkerDies(s) ==
  /\ Running(s) /\ deaths < MaxDeaths
  /\ proc' = [proc EXCEPT ![s] = "dead"]
  /\ deaths' = deaths + 1
  /\ UNCHANGED <<builtFor, request, answers, batchVars, loopVars, slotVars,
                 key>>

ClockRuns(s) ==
  /\ clock[s] = "running"
  /\ clock' = [clock EXCEPT ![s] = "over"]
  /\ UNCHANGED <<active, procVars, batchVars, loopVars, key, deaths>>

-----------------------------------------------------------------------------
Init ==
  /\ pc = "between" /\ at = 0 /\ batches = 0 /\ wanted = NoKey
  /\ cancel = FALSE /\ pending = <<>> /\ ready = {}
  /\ rows = [i \in Tasks |-> NoRow] /\ outcome = "none"
  /\ key = NoKey
  /\ active = [s \in SlotSet |-> NoTask]
  /\ clock = [s \in SlotSet |-> "off"]
  /\ proc = [s \in SlotSet |-> "none"]
  /\ builtFor = [s \in SlotSet |-> NoKey]
  /\ request = [s \in SlotSet |-> <<>>]
  /\ answers = [s \in SlotSet |-> <<>>]
  /\ deaths = 0

Supervisor ==
  \/ RowCancelled \/ RowInvalid \/ RowQueued \/ NothingToRun
  \/ PrepareReuses \/ PrepareSpawns
  \/ LoopContinues \/ LoopEnds \/ CheckIdle
  \/ SendTask \/ SendFails \/ Waits \/ NobodyBusy
  \/ ReceiveStarted \/ ReceiveResult \/ TimesOut \/ FindsDead \/ Skips
  \/ RoundEnds \/ CancelSlot \/ CancelledAll \/ Drain \/ Drained
  \/ Ends \/ Fails

Worker(s) ==
  \/ WorkerStarts(s) \/ WorkerLeaves(s) \/ WorkerDies(s) \/ ClockRuns(s)
  \/ \E kind \in {"done", "physical", "error"} : WorkerAnswers(s, kind)

Next ==
  \/ \E k \in Keys : Begin(k)
  \/ Supervisor \/ ReplaceRaises \/ StepRaises \/ CancelRequested
  \/ \E s \in SlotSet : Worker(s)

Spec == Init /\ [][Next]_vars

\* The supervisor's thread runs, a worker takes up its request and a process
\* that is leaving ends; the timeout is configured.  No kernel has to answer.
Fairness ==
  /\ WF_vars(Supervisor)
  /\ \A s \in SlotSet :
       /\ WF_vars(WorkerStarts(s)) /\ WF_vars(WorkerLeaves(s))
       /\ WF_vars(ClockRuns(s))

FairSpec == Spec /\ Fairness

-----------------------------------------------------------------------------
(* Properties.                                                              *)

Kinds == {"started", "done", "physical", "error"}
RowStates == {"done", "error", "exit", "timeout", "cancelled"}

\* Every variable of the pool keeps its type; a pipe holds at most a start
\* and one result, and never a second request.
TypeOK ==
  /\ pc \in {"between", "rows", "loop", "check", "send", "receive", "cancel",
             "drain", "end", "raise"}
  /\ at \in Nat /\ batches \in 0..MaxBatches /\ wanted \in Keys \cup {NoKey}
  /\ cancel \in BOOLEAN /\ pending \in Seq(Tasks) /\ ready \subseteq SlotSet
  /\ rows \in [Tasks -> RowStates \cup {NoRow}]
  /\ outcome \in {"none", "running", "returned", "failed"}
  /\ key \in Keys \cup {NoKey}
  /\ active \in [SlotSet -> Tasks \cup {NoTask}]
  /\ clock \in [SlotSet -> {"off", "running", "over"}]
  /\ proc \in [SlotSet -> {"none", "idle", "busy", "leaving", "dead"}]
  /\ builtFor \in [SlotSet -> Keys \cup {NoKey}]
  /\ request \in [SlotSet -> Seq(Tasks)]
  /\ answers \in [SlotSet -> Seq([kind : Kinds, task : Tasks])]
  /\ deaths \in 0..MaxDeaths
  /\ \A s \in SlotSet : Len(request[s]) <= 1 /\ Len(answers[s]) <= 2

\* Results carry no index on the pipe: the supervisor takes whatever it reads
\* for an answer to the task it last sent.  It always is, after timeouts,
\* deaths, cancellations and failed batches.
PipesMatch ==
  \A s \in SlotSet : active[s] # NoTask \/ Running(s) =>
    /\ \A j \in DOMAIN answers[s] : answers[s][j].task = active[s]
    /\ \A j \in DOMAIN request[s] : request[s][j] = active[s]

\* A candidate is evaluated by a worker that was started for its batch's
\* signature, environment and timeout, however many batches shared the pool.
WorkersFit ==
  \A s \in SlotSet : active[s] # NoTask => builtFor[s] = wanted

\* Between batches no worker is at work on anything, and after a batch that
\* failed no worker is left at all.
NothingLeftRunning ==
  pc = "between" =>
    /\ \A s \in SlotSet :
         active[s] = NoTask /\ request[s] = <<>> /\ answers[s] = <<>>
    /\ outcome = "failed" => \A s \in SlotSet : ~Running(s)

\* The pool does for a batch what Batch promises: one answer per candidate,
\* and a normal return only with all of them.
Promise == INSTANCE Batch WITH Candidates <- Tasks, Rows <- RowStates

AnswersOnce == Promise!Spec

\* With a timeout every batch ends, whatever its kernels and workers do.
BatchEnds == outcome = "running" ~> outcome # "running"

=============================================================================
