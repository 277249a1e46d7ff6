# A TLA+ verification of yadof

yadof runs optimization campaigns: a user's *program* proposes populations of
parameter vectors, simulations evaluate them (in a pool of local processes, as
local jobs or on HTCondor), the *evidence* they produce is recorded in immutable
segments, costs are computed from the evidence, and the next generation is
prepared, possibly with surrogate models trained in the background. This
directory holds TLA+ models of the parts of that system where threads, failures
and restarts meet, the TLC runs that check them and TLAPS proofs about them.

Paths below are relative to the repository. The package is `src/yadof`.

Contents: [1 Inventory](#1-inventory) - [2 Plan](#2-plan) -
[3 Modules](#3-the-modules) - [4 Runs](#4-the-runs) -
[5 Bounds and fairness](#5-bounds-and-fairness) - [6 Proofs](#6-proofs) -
[7 Disagreements found](#7-where-code-and-documents-disagree) -
[8 Limits](#8-what-is-not-modelled-and-why)

## 1 Inventory

### Components, their state and operations

| component | code | state | operations |
|---|---|---|---|
| Evidence recorder | `recorded_data/session.py`, `segment_store.py`, `campaign_lock.py` | session rows (evidence and interpretation state), publication receipts, the writer's queue, active batch, budget counters and flags, segment files, per-group segment numbers, the workspace lock | open and recover, submit, offer (blocks on the budget), flush boundary, take a batch, publish with retries, commit callback, failure callback, writer death, shutdown, close |
| Result finalization | `evaluate_manager/finalizer.py` | the results of a batch, `_next_index`, `_group_count`; shares rows and totals with the session | accept one completion, flush a full group, drain in population order, finish, close |
| Current-cost interpretation | `recorded_data/dataset.py`, `CampaignSession.cost_table` | frozen rows of a table | freeze, interpret, write back |
| Evaluation lifecycle | `evaluate_manager/lifecycle.py` | handle state, cancel event, cached outcome, owner thread | construct, start, cancel, wait, close, `_run` |
| Session registry and generation boundary | `recorded_data/session.py` | registered handles, current snapshot, shared evaluation resources | register, begin, finish generation, close |
| Program runtime | `optimize/program.py`, `state.py`, `runner.py` | generation index, completion pointer, active strategy, metadata events | enter run, enter/leave generation, commit, resume |
| History clearing | `tools/history.py` | none of its own: removes state, segments, metadata | check the lock, remove directory by directory |
| Fast pool | `evaluate_manager/fast_runner.py` | worker slots, pending tasks, execution clocks | prepare, assign, receive, time out, replace, cancel, drain, reset |
| HTCondor runner | `condor_runner.py`, `resource_retries.py`, `_dispatch_distributed` of `api.py` | pending jobs, cluster ids, retry counts, the deadline, each job's event log and outputs | prepare, submit, poll, query a hold, remove, retry with more resources, collect, store, sweep, answer the rest |
| Surrogate training | `surrogate/training.py`, `amplitude_gp/scheduler.py`, `runtime.py`, `checkpoints.py` | training handles, the schedule of each program, states in memory, artifacts, namespace manifests and generation pointers on disk | start, cancel, wait, close, publish, recover, finish, ensure a fresh model, deactivate |
| Local jobs | `local_runner.py`, `process_control.py`, `_dispatch_local` of `api.py` | the executor's queue and threads, one workflow process and its pipes per task | freeze the template, take up, prepare, start, kill the tree, drain, accept, unwind |
| Evaluation front end | `api.py`, `types.py`, `dispatchers.py` | the mode of a batch | choose the backend, hand completions to the coordinator |
| Resource planning, job folders, formats, tasks, workspace, methods, models, CLI | see `PROJECT.json` | none shared | sequential or numerical code |

How they interact: the program's main thread owns the `CampaignSession`. Each
evaluation handle and each fit has an owner thread. An evaluation's owner thread
takes the session's shared fast pool (whose lock serialises batches) or a job
runner, hands every completion to its `ResultFinalizationCoordinator`, which
offers the evidence to the one history-writer thread through a bounded queue and
waits for it at flush boundaries. The writer calls back into the session
(`_on_published`, `_on_failed`) to commit rows and resolve receipts. Meanwhile
the main thread may build cost tables over the same rows, leave the generation
(which closes the handles it left open), or close the session.

### Behaviours that are hard here

* one condition variable shared by producers, flush waiters, the closing thread
  and the writer, with callbacks made outside it (`session.py:181-455`);
* rows changed by the writer's callbacks, by the ordered drain and by cost
  tables, each under the state lock but computed before it is taken
  (`session.py:752-784`, `861-874`, `1029-1075`);
* publication retried, exhausted, or cut off between `os.replace` and the commit
  callback (`segment_store.py:191`, `session.py:369-399`);
* sessions that recover the segments of one that was lost, and number on;
* handles whose threads start late, fail to start, are cancelled before they
  run, or are blocked on each other's pool lock while the boundary or shutdown
  closes them; handles started between two generations; interrupts that reach the
  closing thread, or the join of the writer (`session.py:1005`);
* commands in other processes that read the files of the workspace before they
  have its lock, or delete them after giving it back (`program.py:379-401`,
  `history.py:67`);
* a process lost between evidence, metadata and completion pointer;
* worker processes that die, time out or answer while being cancelled;
* clusters that run, are suspended, evicted, held, removed or end between any two
  reads of their log, and whose outputs arrive before the event that says so
  (`condor_runner.py:250-480`); handlers that isolate one bad payload and stand
  around the call that records it (`condor_runner.py:383-406`);
* workflow processes whose descendants outlive them (`local_runner.py:92`), whose
  monitor cannot be started (80), or whose termination raises or misses them (97, 103);
* fits that are cancelled, fail or are lost on their way through a publication of
  three writes (`checkpoints.py:99-102`), and a recovery that reads memory and disk
  while they publish (`runtime.py:265-312`).

The full list, each at its line with the properties that watch it, is
`hazards` in `PROJECT.json`.

### What makes each component correct

* **Recorder**: evidence is never lost silently; what is acknowledged is
  durable; nothing is published twice, by this session or a later one; the
  memory budget is exact and never passed; a receipt is answered once; a flush
  that returns has published; nobody waits for good; the workspace lock is kept until
  the close that waits for the writer ends.
* **Finalization**: costs only from durable evidence; results in population
  order and complete; payloads in memory within their budget; under one fingerprint
  a verdict its batch has interpreted is not withdrawn, by a failing writer or by a
  table, except by a table whose rows were frozen before.
* **Handles, boundary, shutdown**: a batch at work is registered and keeps its
  snapshot and the writer; a generation is recorded complete, and the next one begins,
  only when nothing that was started is open; pool use is exclusive; outcomes are
  cached once; boundary and shutdown end.
* **Fast pool**: each candidate gets exactly one result, whatever dies, times out
  or is cancelled; the loop ends; no worker outlives a failed batch.
* **Program runtime**: a resumed run starts at the last completed generation
  plus one, across crashes between evidence, metadata and completion pointer;
  the pointer never stands on anything that is not durable; runs do not mix
  under one optimization index; the campaign that has the workspace is alone.
* **HTCondor runner**: never two live clusters for one candidate; retries
  bounded; a cluster that is left in the queue is accounted for in its row; a
  cancelled batch, or one with a deadline, ends; a recorder failure stops it.
* **Local jobs**: however the batch ends, no thread of it is left, and no workflow
  process but one whose monitor could not be started or whose termination raised; a
  cancelled or timed batch ends, if what its workflows leave behind closes its pipes.
* **Surrogate training**: how a handle ends agrees with what is on disk; nothing
  half published is found; a state is served only to its own program and task, and
  a fresh enough one is served when there is one.
* **Every backend**: one answer per candidate, a normal return only with all of
  them, no answer after a failure.

## 2 Plan

| step | modules | composes | abstract specification | status |
|---|---|---|---|---|
| 1 | `Recorder` | - | `EvidenceLog` (refinement) | done, proved |
| 2 | `Finalization` | rows of the session, coordinators, cost tables | the writer as `EvidenceLog` promises it | done, proved |
| 3 | `Campaign` | session, handles, pool lock, program scope | - | done, proved |
| 4 | `FastPool` | supervisor and worker processes | `Batch`: each index is answered once (refinement) | done, proved |
| 5 | `Workspace` | completion pointer, metadata, evidence, resume, lock and clear across processes | - | done, proved |
| 6 | `Answers`, `CondorJobs`, `LocalJobs`, `Jobs` | the two modes that make a job of each candidate, over one set of rows and one coordinator | `Batch` again (refinement) | done, proved |
| 7 | `Fits` | fits, schedule and recovery under the runs of two programs | - | done, proved |

Modules are written to be proved about: bounds are CONSTANTS with named
assumptions, there is one action per critical section of the code, invariants
are conjunctions of named parts, and no module uses a RECURSIVE operator.
Each component has its strengthening in `<component>Invariant` and its theorems in
`<component>Proofs` (section 6). Every safety property that a passing run checks is
proved; what the prover cannot do is named at the end of that section.

## 3 The modules

### Recorder

State is one variable per field the code keeps: the session (`session`,
`sessions`, `lock`), its rows and receipts (`evidence`, `receipt`), the files
(`segments`), the fields of `_BoundedSegmentWriter` under their own names, where
each thread is (`pc`, `arg`, `wpc`) and who sleeps in the condition (`asleep`: a
`notify_all` empties it, a wait joins it).

One action is one critical section. `submit_evidence` is `Submit` (row and receipt
inserted under the state lock), `OfferAdmitted`/`OfferBlocks`/`OfferRefused` (the
writer's condition) and `SubmitFails` (its except branch). `flush_boundary` is
`FlushStarts`, `FlushWaits`, `FlushReturns`, `FlushRaises`. The writer's loop is
`WriterSleeps`, `TakeBatch`, `Publish` (temporary file, then `os.replace`),
`PublishRetries`, `PublishExhausted`, `OnPublished` (rows and receipts, under
another lock), `ReleaseBatch`, `WriterFinishes`, `WriterExits`; `WriterDies` is
an exception anywhere outside the retry loop, the gap between `os.replace` and
the callback included. `Shutdown` and `CloseFinishes` are `close`; `Crash` loses
the process and keeps the files; `Open` is the next session's constructor with
its catalog scan.

`CloseFinishes` joins the writer and gives the lock back. An interrupt of that join
(`CloseInterrupted`, in the sessions of `Interruptible`) gives it back as well, from
the `finally`, with the writer at work. A session that is opened then has that
writer beside it: what it has left to publish, and the numbers it goes on with, become
a member of `strays`, and `overlap` says that this has happened. A stray publishes
(`StrayPublishes`) or dies (`StrayEnds`). It numbers from its own memory, so the
test of `publish_segment` for an existing file and its `os.replace` may have another
writer's segment of the same name between them (`Replaced`).

Data is abstracted to identities: an envelope is its candidate, with a group and
a reservation in bytes. A segment is its group, its number and its candidates.

`EvidenceLog` is what the recorder promises, in three variables: what is
durable, what each submitter was told, what the session knows. Evidence is owed
until it is acknowledged or refused, an acknowledgement is given only for what is
durable, answers are final, and recovery starts from what is durable. The
mapping (`Log` in `Recorder`) takes `durable` from the segments and `answer` from
the receipts.

### Finalization

One coordinator per evaluation handle. `Accept` is `_prepare_result` with the
first half of `submit_evidence`; `OfferRefused`/`OfferAdmitted` the writer's
answer; `FlushReturns`/`FlushRaises` the flush of a full group and of `finish`;
`Interpret`, `InterpretRaises` and `DrainEnds` the ordered drain, in which
`record_interpretation` changes the row and the session's two totals.
`OnPublished` and `OnFailed` are the writer's callbacks. `TableFrozen` and
`TableApplied` are the two locked halves of `cost_table`, with everything else
free to happen between them.

The writer's inside is not repeated: what is admitted is committed one by one or
fails together, which is what `EvidenceLog` allows. An interpretation is an attempt of
its own, of the batch or of a table, under a fingerprint: normalizing the row, loading
its payload and the callback may each fail it, so an attempt at a candidate of `MayFail`
ends either way, whatever an earlier one found. `by` has the fingerprint of each verdict
(the session's own is `Current`), and `tableOf` that of the table in the making.
A table takes over the verdicts it finds under its own fingerprint when it is frozen
(`Hinted`) and makes its attempt at the others. `early` is history: the candidates their
batch had not come to when the table that is still to be applied was frozen.

### Campaign

One main thread (`pc`) and one owner thread per handle (`owner`). The main thread
begins generations, runs the user's body, leaves it normally or
by an exception, closes what the body left open (`BodyReturns`, `CloseStarts`,
`CloseReturns`: handles are copied first and taken one by one), commits or fails
the generation, and finally shuts the session down (`ShutdownStarts`,
`ResourcesClose`, `WriterStops`). User code runs in the body, between two generations
and after a failed one (`UserRuns`; the strategy's iterator is in the user's hands
there), and wherever it runs it may `Prepare`, `Create`, `Start`, `StartFit`, `Cancel`
and close handles in any order: a start asks only that its snapshot is the current one,
which it is until the next generation begins. That one is refused while a handle is
left (`BeginRefused`), and waits for the pool of an evaluation definition that changed.
`CloseInterrupted`, `BeginInterrupted` and `ResourcesInterrupted` are
a KeyboardInterrupt that reaches one of the main thread's waits; `cut` has the handles
whose own close was ended that way.

An evaluation's thread finds or makes the shared pool, queues for its lock, works
and settles the handle; a fit's thread works and settles. What a batch computes
is abstracted to how it ends. A handle's policy at a normal boundary is "cancel"
for evaluations and "wait" for fits.

### FastPool

The supervisor is a program counter `pc` over the phases of
`_run_fast_population`: the rows of the population (`RowQueued`, `RowInvalid`,
`RowCancelled`), `prepare` (`PrepareReuses`, `PrepareSpawns`), and the loop, which
visits the slots one at a time (`at`): `CheckIdle` and `SendTask` are the assignment
pass, `Waits` is `wait()`, and `ReceiveStarted`, `ReceiveResult`, `TimesOut`,
`FindsDead` and `Skips` are what a slot can meet in the receiving pass.
`CancelSlot`, `Drain` and `Ends` are the way out of a cancelled batch, `SendFails`,
`ReplaceRaises`, `StepRaises` and `Fails` the way out of one that fails.
`CancelRequested` happens at any time.

A slot has a process (`proc`), the key it was spawned for, and two pipes. A worker
takes a request (`WorkerStarts`), answers (`WorkerAnswers`: done, a declared
physical failure, or a task error, after which it leaves) or dies at any moment
(`WorkerDies`); what it wrote before stays readable. Between any two supervisor
steps the workers may move, so `wait()` may report a slot before or after its
answer arrives. Messages carry their task only in the model; the code has no such
field, and `PipesMatch` is the reason it needs none.

`Batch` is what every backend owes the coordinator that consumes its rows: one
answer per candidate, and a normal return only with all of them.

### Workspace

Commands of several processes over one workspace directory. The files are
`active`, `completion`, `metadata` (the events of recorded generations) and
`evidence` (the generations of a run that have segments); `lock` is the campaign
lock. Each process gives at most one command at a time and is lost at any step
(`ProcessEnds`), which drops its lock and leaves the files.

A run reads its optimization index (`ReadIndex`), checks the completion pointer
(`EnterRun`, `RefuseRun`), rewrites the active strategy (`Activate`) and only then
asks for the lock (`OpenSession`, `LockRefused`; `OpenRaises` is the constructor
that fails after taking it). In a generation, `Evaluate` admits evidence and the
writer publishes or loses it at any moment. The exit is `BodyReturns`,
`FlushBoundary`, `RecordMetadata`, `WriteCompletion`, `GenerationFinished`, one step
per file, and `GenerationFails` is an exception anywhere among them. A clear
command checks the lock (`StartClear`) and removes one file at a time, in the
directories' order: state, segments, metadata.

A generation's evidence is one item here; `Recorder` has the inside of that, and
`Campaign` the inside of a generation. Two variables are history: `outdated` has the
runs whose readings changed before they had the lock, `overlapped` says that a
session opened while a clear was going on. Under these two the properties are
conditional, because without them they are false: the code reads before it locks
(see section 7).

### Answers, CondorJobs, LocalJobs, Jobs

`Answers` is what the two job backends share: the rows, the outcome, the cancel
event and the coordinator as a backend meets it. A call of `accept` takes the row
(`Takes`), raises RecordingError (`RecordingRaises`: the session refuses from now on,
or a flush or drain failed and the coordinator closed itself), or, on a closed
coordinator, raises a RuntimeError that is no RecordingError (`ClosedRaises`).

`CondorJobs` is `_dispatch_distributed` and `run_condor_jobs`. `phase` says which loop
runs: `prepare`, `submit`, `poll`, `sweep` (what is left when the loop ends) and `rest`
(what `_dispatch_distributed` answers itself). `todo` is what the pass has still to
visit, `At` the job it looks at, `step` where it is in handling that job:
`ReadsLog`, `ReadsOutputs`, then the watchdog (`Expires`, `StaysPending`), or a hold
(`Queries`), a removal (`Removed`, `RemoveFails`), a retry (`Exhausted`, `Resets`,
`Submitted`), or a collection (`Collects`), and at last `store_result` (`Stores`).
`guard` is the set of exceptions the code catches around building and storing that
row; it decides whether a failure is isolated (`BuildRaises`), leaves the call
(`RecordingEscapes`), is taken for a bad payload (`RecordingCaught`) or for a progress
failure (`Swallows`).

A job's folder is abstracted to what the runner tells apart in it: the first
terminal marker, whether its execution clock passed the limit, and its outputs
(`ready`, or `partial`: not what completion looks for). The queue moves between any two
steps: `Exits` and `EndLogged` (outputs come back before the event), `IsHeld`,
`LimitPasses`, `Evicted`, `RemovedByHand`. `stale` says that the abort event of a
cluster that was removed for a retry may be written after the log was reset.

`LocalJobs` is `_dispatch_local`, `_evaluate_one_local` and `run_local_job`. The
dispatching thread is `main`, a candidate is a `task` of the executor, or of that
thread when there is one worker. `Starts`, `Kills`, `Drains` and `Concludes` are the
supervision of a process, whose pipes a descendant may keep open (`held`) after it
is gone; `PipesClose` is that descendant letting go of them. A process is started
before the `try` that watches it: `MonitorFails` answers "error" with the process alive.
A termination may raise, before or after it has killed (`KillRaises`), or return
without having ended the process (`KillMisses`), which is then waited for. `orphans` has the candidates whose process nobody watches any more.
`AcceptRaises` and `Unwinds` are a recording failure, which leaves the
executor's `with` block only when every task is settled.

`Jobs` chooses between them by the batch's mode and maps both to `Batch`.

### Fits

The surrogate backends that fit on a thread of their own (`amplitude_gp`, and
`retrieval_response`, which has the same scheduler and the same publication), under the
main thread of the runs that use them. The disk is `active` and `completion`, and of each
fit its directory (`artifacts`), its namespace manifest (`manifests`) and the pointer of
its generation (`alias`). The memory is `pending` (`_SCHEDULES`), `cache` (`_STATES`)
and the registered handles (`leased`); `Exit` loses it, at any step.

A fit's thread goes through `stage`: it passes its looks at the cancel event (`Passes`,
`SeesCancel`; the last one is between the staging directory and its rename), then
`Renames`, `WritesManifest`, `WritesAlias`, `Caches` and `Completes`; it may raise at any
of them (`Raises`). The main thread enters runs (`Enter`, which deactivates what another
program left in memory), begins and ends generations, and in a body starts, cancels and
finishes fits of its own (`StartFit`, `Cancel`, `FinishFit`) or of its schedule
(`StartTraining`, `FinishTraining`). A selection or `ensure_fresh_enough` is `Looks` (the
memory), `Lists` (the disk), `Stores` and `Returns`, or the further tries of `ensure`:
`EnsureFinishes`, `EnsureTrains`. Fits may publish between any two of these.

A model is its fit's number, and its identity is the program and the task it was fitted
for; the evidence it was fitted on is always at hand, so `Compatible` is about those
two. `known` and `overtaken` are history. `overtaken` has the programs whose memory a
recovery has left behind what was offered to it (`Offered`: stored by its fit, or completed).
`known` is what a selection counts on: what was completed when it began, or nothing if
the memory had been left behind by then. A run's
inside is as in `Campaign` with only fits, which is where interrupts and shutdown are
studied; commands of other processes are in `Workspace`.

### MC modules

`MCRecorder`, `MCFinalization`, `MCCampaign`, `MCFastPool`, `MCWorkspace`, `MCJobs` and `MCFits` only
name model values and give the function-valued constants.

## 4 The runs

| run | what it shows |
|---|---|
| `recorder` | safety of the recorder and its refinement of `EvidenceLog`, with two evaluation threads, publication failures, writer death, close, process loss and a second session; a producer blocked on the budget resumes, what a flush finds in the queue is answered, and close ends, whatever fails; the first session's close may be interrupted, and the second may open beside its writer |
| `recorder_shared_flush` | a *disagreement*: a flush waits for another thread's later envelope, for good |
| `finalization` | safety of two overlapping batches with the writer and a cost table of either fingerprint at any moment, whose attempts end as they like |
| `finalization_tables` | a *disagreement*: a cost table makes the session's totals wrong |
| `campaign` | safety of registry, boundary, pool and shutdown, wherever batches and fits are started and with up to two interrupts, and that boundary and shutdown end when batches are bounded |
| `campaign_pool` | a *disagreement*: shutdown hangs on two batches of one pool without a timeout |
| `fast_pool` | one answer per candidate, of its own task, from a worker that fits; nothing left running; every batch ends; the refinement of `Batch` |
| `jobs` | one answer per candidate in either job mode (the refinement of `Batch`), no retry beside an earlier cluster, clusters left in the queue accounted for, no local process left but where nothing watches it any more, and an end for every cancelled or timed batch whose workflows leave no descendant on their pipes for good |
| `jobs_pipes` | a *disagreement*: a cancelled local batch waits for descendants of its workflow without limit |
| `workspace` | the completion pointer is backed, runs resume at the next generation and keep their indices apart, with two processes, a clear command and losses at every step |
| `workspace_shared` | a *disagreement*: the campaign that has the lock is not alone |
| `fits` | how a training handle ends agrees with what is on disk, what recovery can find is whole and of its own program and task, and a selection is served a state within the lag when there is one, with two programs in turn and losses at every step |

The properties are defined, each with its statement, at the end of the module
they are about; `PROJECT.json` names for each a plausible bug of the code (a
"Mutation" operator in the module) under which the run refutes it.

## 5 Bounds and fairness

**Recorder.** Three envelopes in two groups, reservations of 1, 2 and 2 bytes,
a budget of two candidates and three bytes, segments of two candidates or three
bytes. So the bytes stop an envelope that the count would let in, and the count bites
with them when two are in; segments of one and of two
candidates occur, a batch is cut short by the group, and two threads compete for the
budget. `MaxFailures = 2` gives one retry
and one exhaustion. `MaxSessions = 2` gives every kind of restart once; a third
would repeat the second, whose recovered state is again a set of segments.
`Interruptible = {1}`: the first session's close may be interrupted, so that the second
opens beside a writer that still publishes. The safety properties, `LockKept` included,
were also checked once with a fourth envelope whose reservation is above the limit of a
candidate (1,249,869 distinct states), and with an interrupt of either session's close
(`Interruptible = {1, 2}`, 480,715). A candidate's name is made once, of the time and a
number, so no session is offered an envelope that a stray writer still holds.

**Finalization.** Two handles of two candidates, a group limit of two and an
owned budget of one payload, so that one of two committed payloads is always
dropped. The attempts at one candidate may fail or succeed (`MayFail`), each by itself.
Two fingerprints, of which one is the session's, and one cost table of either: its two
halves can straddle everything else, and a second table reads what the first one left.
The inductive invariant was also checked with one candidate to a batch and three tables.

**Campaign.** Two evaluations (the least that compete for a pool), one fit, two
generations (the least in which a lease can be stale), two interrupts (the second
can reach the wait for the pool once the first has let a batch go on). `e2` and
`t1` are threads that may fail to start.

**FastPool.** Two workers, a batch of three candidates (so that a worker is reused
within a batch) and a second one of two and an invalid row, which may have the
same key (reuse across batches) or another (replacement). One worker may die by
itself at any moment; every other death is the supervisor's doing. With two deaths
nothing new happens to one slot, and two slots share no state but the queue.

**Jobs.** Three candidates, of which one cannot be prepared, so that two jobs are
in the queue or in two threads at once and `prepare` answers one between them; one
resource and one retry, so that a job is retried and then exhausted; one fault
(a command, a read, a row that cannot be built, a recording failure, a removal by
hand, a monitor that cannot be started, a termination that raises or misses). Two faults at once were not checked. `Modes` gives both backends. What the
queue does with a cluster matters only to who handles its job, so clusters move
while theirs is handled (`Followed`); idle and running are one state, because only
the clock tells them apart; the kind of a hold is chosen when it is asked for; what
an answered job's row was decided from is forgotten. None of these removes an
order in which the code could read something.

**Workspace.** Two processes, two programs (signatures), two generations, two run
commands and one clear command: the least in which a run resumes after another,
is outrun by another, or is refused by another's lock, and a clear meets either. A
third run command without a clear was checked once (2.4 million states); a process
is idle again after a command, so that a second clear meets no new file. The
proof covers every bound.

**Fits.** Two programs, two tasks, three generations, a lag of one, two fits: a
recovery is outrun, or a program meets its own earlier life, with the second fit. With a lag
of one a state of the generation before is fresh and one of generation 0 is stale in
generation 2. Three fits take more than the time a run has. The run has
`SYMMETRY` over programs and tasks and no liveness property, as `Workspace` has it over processes and programs.

**Fairness.** The recorder's writer, its closing thread and each evaluation
thread are weakly fair: they are threads that block only in the condition, which
the model represents. Nothing obliges a program to submit, flush or close, and
no publication has to succeed: `PublishRetries` and `PublishExhausted` may always
be taken instead. In `Campaign`, `Unbounded` makes the main thread's own steps and
the owner threads' prompt steps fair (finding the pool, entering it, noticing a
cancellation) but not the end of a simulation; `Bounded` adds that batches and
fits end, which an evaluation timeout gives for batches, and the finite number of
training steps for fits. In `FastPool` the supervisor, a worker's
first reaction to its request, a leaving process and the clock are fair (an
evaluation timeout is configured); no kernel has to answer and nobody has to
cancel. In `Jobs` the dispatching thread and the tasks run, commands of the queue
end, and a timeout or deadline that is set passes (`FairSpec`). No cluster and no
workflow has to end. One more assumption is about the world, and stands by itself in
`ClosingSpec`, which the run `jobs` uses: what an ended workflow leaves behind closes the
pipes in the end (`PipesAreClosed`). The code does not enforce it: `communicate` waits
for a descendant that left the process tree, without limit, and then neither
cancellation nor the timeout is looked at. The run `jobs_pipes` is the same system
without that assumption, with no fault, two candidates and local processes only, and a
cancelled batch then need not end. Nor does `BatchEnds` say so of a batch that waits
for a process its kill missed (`Missed`).
Interrupts, the program's choices and failing threads
are never fair, nor is what a stray writer does.

`CHECK_DEADLOCK FALSE` stands in every configuration because each system may
stop: a recorder after its last session, a batch that is done, a campaign that is
closed. That nobody is *stuck* is what the liveness properties say.

## 6 Proofs

`RecorderProofs` proves every safety property of the `recorder` run, and the
refinement of `EvidenceLog`, for any sets of envelopes, groups and threads, any
limits, any number of failures and sessions, and interrupts of any closes. The only
assumption is `RecorderAssumption`: what `config.py` validates (positive limits, a segment no
larger than the budget, a candidate no larger than the byte budget) and that the
names used as "none" are none of the values.

The properties are not inductive as they stand. `RecorderInvariant` strengthens
them to `Inv`:

* `OwnerInv`: an envelope has exactly one owner, a submitting thread, the queue
  or the active batch. Without it two threads could hold the same envelope and
  the budget would count it twice.
* `RowInv`: row and receipt say "pending" exactly while there is an owner. This
  is why a receipt is never answered twice and a known identity is never
  admitted again. A batch whose budget is about to be released is committed, so
  the flush that goes on then finds its receipts answered.
* `FailInv`: while the writer can be used, only an envelope beyond the limit of one
  candidate is refused. With `RowInv` it makes a flush that returns one that finds
  every receipt committed (`FlushIsBoundary`).
* `WriterInv`: a batch exists exactly in the writer's publishing states, is of
  one group, and the failing set exists only until `_on_failed` ran.
* `DurableInv`: committed rows are on disk; what is on disk is in no queue, is
  not about to be published and has a row. It makes `PublishedOnce` inductive
  across sessions, because `Open` recovers rows from the disk. It holds until a
  session is opened beside the writer of an interrupted close (`overlap`), and so do
  `PublishedOnce`, `DestinationFree`, `CommittedIsDurable` and `KeepsPromises`: two
  writers may then give two segments one name.
* `NumberInv`: the segment numbers of a group have no gap, whoever wrote the
  segments: no writer, stray ones included, goes on from a number past the next one,
  and the only writer of a workspace goes on from exactly the next. Gaplessness is what
  lets a session number on from the largest number it finds.
* `StrayInv`: there are strays only after an `overlap`.
* `LockInv`: `LockKept`, the lock is held while a session is open, its dead writer's
  included, and while close waits for a writer. That a living writer always has the lock
  (`Exclusive`) is false (section 7).

`RecorderLemmas` has the facts about batches, reserved bytes (the size of a set
of byte slots, so that releasing a batch subtracts exactly what it reserved) and
the numbering. `RecorderProofs` proves `Init => Inv` and, conjunct by conjunct
and action by action, that `Next` preserves it, then derives the action
properties and the step simulation for `EvidenceLog` (`Publish` is `Persist`,
`OnPublished` is `Acknowledge`, `OnFailed` and `SubmitFails` are `Fail`, `Crash` is
`Lose`, `Open` is `Recover`, everything else stutters).

`FinalizationProofs` proves every property of the `finalization` run, for any
population, limits, fingerprints, candidates whose interpretation may fail and number of
cost tables, and any finite set of handles (`FinalizationAssumption`; a
cardinality is counted). `FinalizationInvariant` strengthens them to:

* `PendingInv`: a pending row is in the writer's queue or is the one its own
  coordinator is just offering. So an empty queue at the last flush means that
  every row of the batch is answered.
* `VerdictInv`: a row, or a frozen table, that calls a candidate succeeded or
  failed does so of committed evidence of a completed execution.
* `HintInv`: what a frozen table says of a candidate its batch had interpreted by then
  is the verdict it found, unless that is of another fingerprint. This is why it
  withdraws nothing when it is applied, whatever its own attempt would have found;
  of the other candidates (`early`) nothing of the kind is true.
* `ProgressInv`: what a batch has passed is committed, judged and owns no
  payload; a batch that finishes has accepted every index.
* `OwnedWithinBudget` itself, which is inductive with these: a step adds a
  payload and counts it, or drops one it had counted.

`CampaignProofs` proves every safety property of the `campaign` run, for any
finite set of handles and any number of generations and interrupts
(`CampaignAssumption`). `CampaignInvariant` strengthens them to:

* `ThreadInv`: a handle that was not started has neither thread nor answer, and a
  living thread has not answered yet. An outcome is cached by the thread's last
  step or never, which makes it final.
* `LeaseInv`: the registry holds open handles of the current generation only, and
  what a closing loop has still to visit is all of them; snapshot and writer are
  up until the loop that removes them is done.
* `ClosedInv`: a handle that was made is in the registry, or closed with its thread
  gone, wherever it was started. A handle whose own close was interrupted (`cut`) is
  exempt; TLC refutes it otherwise with one interrupt (section 7). With `LeaseInv`, which
  has the registry empty when a loop is done, it gives `CompletedIsResolved`.
* `PoolIsExclusive`, which is inductive itself.

`WorkspaceProofs` proves every property of the `workspace` run, for any processes,
programs, generations and numbers of commands (`WorkspaceAssumption`: the bounds
are naturals and the "none" names are not values). `WorkspaceInvariant`
strengthens them to:

* `RunInv`: the processes that are running a command have different run numbers,
  so that an event of metadata is of one of them at most.
* `LockInv`: an open session has the lock, so there is one; a clear beside it is
  what `overlapped` says.
* `ReadInv`: what a run read, pointer and index, is still so as long as it is not
  outdated. Once it has the lock only it records, which carries the index to the
  end of the run.
* `ExitInv`: where the exit of a generation stands: flushed before metadata,
  the event recorded before the pointer, the pointer written before the next
  generation. With it `WriteCompletion` keeps `PointerIsBacked`.
* `ClearInv`: a clear past the first directory has removed the pointer, so removing
  segments and events disturbs nothing.
* `ResumeInv`: `ResumesAtNext`, kept between generations too.

`FastPoolProofs` proves every safety property of the `fast_pool` run and that the pool
implements `Batch`, for any numbers of slots, candidates, batches and deaths, any keys
and any invalid candidates (`FastPoolAssumption`: at least one slot and one candidate,
and the "none" names are no values). `FastPoolInvariant` strengthens them to:

* `PlaceInv`: where the supervisor is, and which slots are without a task by then. It
  is what makes a drained or returning batch one without tasks.
* `KeyInv`: inside the loop the pool has the key of the batch, and with a key every
  worker was spawned for it; so replacing a worker and reusing the pool agree.
* `PipeInv`: a request stays on its pipe until it is answered, at most a start precedes
  the answer, and only an error makes a worker leave. Without the last part a slot
  could be freed under a worker that is still leaving.
* `SpareInv`: a slot without a task has clean pipes, unless its worker was killed and
  the pool is doomed (`Doomed`: cancelled past its loop, or failed), which
  `DoomedStays` shows ends only in a reset. `PipesMatch` needs it for the next batch: a
  task is only ever sent into an empty pipe.
* `RowInv`: a candidate without a row is not looked at yet, pending, or the task of a
  slot, and of one of these only. From it each delivery is `Answer`, and a return
  finds every row.
* `LeftInv`: a failed batch has left no worker.

`StepSlots` classifies the steps by what they do to the slots (nothing, all of them
cleared, one served by the supervisor, one moved by its worker), which keeps the proof
of each part to the slot that moves.

`FitsProofs` proves every safety property of the `fits` run, for any programs, tasks,
lag and numbers of generations and fits (`FitsAssumption`). `FitsInvariant` strengthens
them to:

* `RunInv`: a run that is going on has its program, task and generation, and between
  runs no handle is left.
* `FitInv`: a fit at work is registered, is of the active program, and every later fit
  is of the generation it was started in. This is what bounds how far a publication can
  come after its run has gone on.
* `DiskInv`: how far a fit's thread has come is what is on disk.
* `FoundInv`: pointers, memory and answers name states that are whole and their own.
* `KnownInv`, `CacheInv`, `AnswerInv`: what a selection counts on was completed; the
  memory, unless a recovery left it behind, is as new as anything offered to it, and so
  is an answer. The last two hold of models whose generations grew with their numbers
  (`Grows`), which is what `NeverBack` says of all of them.

`JobsProofs` proves every safety property of the `jobs` run and that both modes
implement `Batch`, for any population, workers, resources, retries and faults, and any
candidates that cannot be prepared (`AnswersAssumption`, `JobsAssumption`: at least one
candidate and one worker, and the "none" names and reasons to hold a job are no values).
`JobsInvariant` strengthens them, for local processes to:

* `MainInv`: which outcome goes with where the dispatching thread is, and that nothing
  is taken up before it collects or is at work when it is over.
* `TaskInv`: a process lives, or its pipes are held, only under the thread that watches
  it or as an orphan, an orphan is answered "error", and a candidate has
  a row exactly when it was taken from its thread.
* `TurnInv`: one worker has one candidate at a time, and none when recording fails; so
  leaving at once leaves nothing behind. More workers are counted: there are never more
  threads at work than workers (`ThreadBoundStep`).

and for HTCondor to:

* `PhaseInv` and `LeftInv`: what has no row is still to visit, pending or a prepared
  job that the last loop answers. From it each stored row is `Answer`, and a return
  finds every row.
* `StepInv` and `SeenInv`: which step can follow which, and that what was read of a job
  is still true of its cluster when it is acted upon, although clusters move between any
  two steps: a cluster seen ended stays ended, one seen held is held or removed, and one
  that is replaced is out of the queue.
* `ClusterInv`: a cluster in the queue has sent nothing back, so a row "done" leaves none.
* `StrayInv`: a decided or stored row accounts for a cluster that is still there.

`FailingSteps`, `LooksChange`, `OutsideChanges`, `DecidedSteps` and `OneCluster` classify the steps by
what they may change, so that each part is proved of the few steps that disturb it.

Only model-checked: all liveness properties (`ClientsGoOn`, `FlushPublishes`,
`CampaignGoesOn` and `BatchEnds` in both of its runs), because the prover has neither
ENABLED nor fairness.
Some properties are proved and not in a run, because others of their run say more:
`DestinationFree` (the writer's next number is free),
`ReceiptsFinal` and `CommittedIsDurable` (part of what `EvidenceLog` says), `LockKept`,
`ClosedIsFinal` (only a living thread could change a
closed handle, and `NothingOutlives` leaves one only where a close was interrupted), `LeasesAreCurrent`,
`BoundaryWaits` and `FinishHasAnswers` (conjuncts of their inductive invariants). What
TLC refutes (section 7) is not there to be proved.

## 7 Where code and documents disagree

Each of the first group is a run with `expect: violation`, described with quotations under
`findings` in `PROJECT.json`.

* **Shared flush** (`session.py:276`). A flush boundary waits for the *count* of
  unpublished envelopes to reach zero, but its flush request is cleared when the
  queue is first emptied. An envelope another thread admits afterwards keeps the
  first thread waiting. What does hold is `FlushPublishes`.
* **Totals after a cost table** (`session.py:873`). A table that interprets a row
  before the ordered drain does makes both totals one too high for good, which
  shrinks the in-memory budget. `OwnedWithinBudget` shows they never err low.
* **Shutdown behind a pool lock** (`session.py:991`). Handles are cancelled and
  awaited one at a time; the first may be queued behind the second's pool lock.
* **A cancelled batch that waits for pipes** (`local_runner.py:92`). Cancellation and
  timeout are asked for only while the workflow process lives, and `communicate` (98, 104,
  108) returns only when its pipes are closed as well. A descendant that keeps them
  open keeps the batch, although the runner "polls the event and kills its workflow
  tree" (`dev_doc/blueprints/10_modules/evaluate_manager.md:96-97`).
* **A campaign that is not alone** (`history.py:67`). `history clear` only tries the
  lock and then deletes without it; a campaign that starts meanwhile loses its
  files. With no clear command at all (`MaxClears = 0`) the same property is
  refuted by a second campaign: it rewrites `active.json` before it is refused the
  lock (`program.py:393-399`).

The others have no run of their own. Where a name is given, the module
states what the document says under that name, and TLC refutes it with the constants of
the component's passing run; what does hold is checked by that run.

* **A recorder failure taken for a bad payload** (`condor_runner.py:396`,
  `RecordingStops` of `Jobs`). In the
  polling loop `store_result` is called inside the `try` that isolates a payload
  that cannot be read. A RecordingError is caught there and an error row stored in
  its place; on a coordinator that closed itself that second store raises a
  RuntimeError, which is printed as a progress failure. The loop then settles,
  retries and waits for the other jobs, and the batch fails at its very end, although
  "`RecordingError` is never swallowed as a progress-callback failure"
  (`dev_doc/blueprints/10_modules/evaluate_manager.md:117-119`).
* **A workflow nobody watches** (`local_runner.py:80`, `CancelledIsKilled` of `Jobs`). The
  process is started at 70, its resource monitor, a thread, at 80, and the `try` that
  ends it begins at 89. When the thread cannot be started, or a termination (97, 103)
  raises, `api.py:615-630` answers the candidate "error" with its process alive, which
  neither the timeout nor a cancellation reaches any more: the runner "kills the process
  tree on timeout or cancellation" (`evaluate_manager.md:53-54`).
* **A late table replaces a verdict** (`session.py:873`, `ReinterpretedOnChange` of
  `Finalization`). A table whose rows were frozen between a candidate's commit and its
  ordered interpretation makes an attempt of its own (`dataset.py:650-716`), and writes it
  over the verdict the batch has handed out since, "failed" over a cost included, under the
  same fingerprint. "Reinterpret history only when its interpretation fingerprint changes"
  is what `dev_doc/blueprints/20_files/src/yadof/recorded_data/session.py.md:11-13` says.
  What holds is `VerdictsStand`.
* **A start between two generations** (`session.py:600`, `EndsWithItsGeneration` of
  `Campaign`). A snapshot stays current after its generation was committed, and
  `lifecycle.py:114-121` asks for nothing else; so a batch prepared in a generation may
  be started after its completion was recorded. What holds is `CompletedIsResolved`: the
  next generation does not begin before it is closed.
* **An interrupted close of a handle** (`lifecycle.py:235`). A handle whose close is
  interrupted gives up its lease while its thread still runs, although "a started
  evaluation cannot outlive its generation/session scope"
  (`dev_doc/architecture/4plus1_logical_view.md:162`). `NothingOutlives` exempts these
  handles (`cut`) and no other; without the exemption TLC refutes it after one interrupt.
* **An interrupted join of the writer** (`session.py:1005`, `Exclusive` of `Recorder`).
  The `finally` of `close` gives the campaign lock back while the writer still publishes,
  although "one OS lock and one writer exist per active workspace campaign"
  (`dev_doc/blueprints/10_modules/recorded_data.md:116`). A session opened then may have
  a segment of its own replaced by the first writer's (`segment_store.py:191`).
* **A recovery overtakes a fit** (`amplitude_gp/runtime.py:310`). What was found on disk is
  stored whatever the memory holds by then, while the fit's own store (`runtime.py:224`)
  keeps to "without replacing a newer generation with an older one"
  (`dev_doc/blueprints/20_files/src/yadof/surrogate/amplitude_gp/runtime.py.md:19`). A fit that stores its state in between is forgotten in
  memory, and as what is there is compatible the disk is not read again. This is
  why a selection counts on nothing (`known`) once a recovery left the memory behind
  (`overtaken`). A property that only looked at what the selection itself stores holds of
  two fits and is false with three, where an earlier recovery is overtaken.
* **A program started over** (`surrogate/training.py:461`). After another program has run,
  the first may start again at generation 0. The newest state of its earlier
  life is then "ahead" of the generation, and the selection fails instead of using an
  older state within the lag, as `dev_doc/architecture/4plus1_process_view.md:178` has it. This is why `NewestWithinLag` needs `NeverBack`.
* **A closed fit stays scheduled** (`scheduler.py:38`). A boundary or `close()` of the
  session leaves the handle in its schedule, so that the next `start` answers
  "already_running" until someone calls `finish` (`BoundaryFinishes`, `CloseReleases`).

## 8 What is not modelled, and why

* Numerical code (optimization methods, surrogate models, posterior and
  calibration), record formats, NumPy payloads, cost callbacks: sequential data
  handling that neither TLC nor TLAPS can say much about.
* Files below the segment: that `os.replace` is atomic and that a temporary file
  is ignored by the catalog is taken from the operating system and from
  `discover_catalog`.
* Task snapshots: a snapshot is its generation's number.
* Of a run command: an `optimization_index` given by the caller, the number of
  generations asked for (the run may end after any), the surrogate events that are
  recorded next to the generations', and a completion pointer or a metadata file
  that cannot be read (the pointer is replaced atomically; `next_optimization_index`
  then starts from 0).
* Of an interrupted `close`: interrupts of anything but the blocking join, how the
  writer that is left behind cuts its queue into batches (any cut of one group is
  taken), and the receipts of its own session after a new one is opened.
* Descendants of a workflow that have closed its pipes: whether they are ended is up to
  `process_control.py`, and nothing in the runner depends on them.
* A fit whose thread cannot be started (`surrogate/training.py:544-553`) is
  modelled (`StartFitFails`), and shutdown then waits for it for ever; the
  liveness properties of `Campaign` are stated for the other case.
* Of the job backends: resource planning (its numbers are arbitrary here), the
  writing and parsing of job folders (that either may raise is modelled),
  `condor_submit`, `condor_q` and `condor_history` that never return (they have no
  timeout of their own; `BatchEnds` assumes they end), progress reports, and the
  lock around imports of task code.
* Of surrogate training: fits without a session, started by hand with a generation of the
  caller's (`training.py:518`, `runtime.py:229`); the schedulers of `conditional_inr`, `hierarchical_cae` and
  `linear_subspace` (one executor thread with done-callbacks; their callback may run
  after a waiter of the future has gone on), exact recovery and `predict` (pure), a
  training row that left the evidence, artifacts that cannot be read, and the commands
  that clear a workspace while it trains.
* Command line, viewers, packaged resources, administration scripts.
