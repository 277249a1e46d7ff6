------------------------------ MODULE Campaign ------------------------------
(***************************************************************************)
(* One campaign session and the handles that live in it: the registry, the *)
(* generation boundary and the shutdown of recorded_data/session.py, the   *)
(* evaluation handles of evaluate_manager/lifecycle.py and the training    *)
(* handles of surrogate/training.py, each with the thread that owns it,    *)
(* the shared pool of fast workers, and the program scope of               *)
(* optimize/program.py that drives them from the main thread.              *)
(*                                                                         *)
(* What a batch or a fit computes is abstracted to how it ends; the writer *)
(* is up or stopped (Recorder has its inside).                             *)
(***************************************************************************)
EXTENDS Integers

CONSTANTS
  Evaluations,     \* evaluation handles, boundary policy "cancel"
  Trainings,       \* training handles, boundary policy "wait"
  MayNotStart,     \* handles whose owner thread may fail to start
  NoHandle,        \* the main thread is closing no handle
  MaxGenerations,  \* generations of the run
  MaxInterrupts    \* bound of the model: interrupts of a blocked close

Handles == Evaluations \cup Trainings

ASSUME CampaignAssumption ==
  /\ Evaluations \cap Trainings = {} /\ NoHandle \notin Handles
  /\ MayNotStart \subseteq Handles
  /\ MaxGenerations \in Nat /\ MaxInterrupts \in Nat

VARIABLES
  state,       \* EvaluationHandleState / TrainingHandleState ("none": not made)
  settled,     \* how the batch or the fit ended; "no" while it has not
  asked,       \* the cancel event is set
  owner,       \* where the owner thread is
  snapshotOf,  \* the generation snapshot its batch or fit was prepared for
  registry,    \* _generation_handles
  current,     \* current_snapshot, by generation number
  snapshots,   \* snapshots whose directories exist
  pool,        \* the registered pool of fast workers, 0: none
  made,        \* pools created so far
  shut,        \* pools that are closed
  poolOf,      \* the pool a batch was given
  session,     \* "open" | "closing" | "closed"
  writer,      \* the history writer runs and the workspace lock is held
  pc,          \* where the main thread is
  closing,     \* the handle it is closing
  todo,        \* the copied handle set it has yet to close
  hadOpen,     \* evaluation handles were open at the boundary
  raised,      \* a handle's close raised at the boundary
  completed,   \* generations whose completion is recorded
  interrupts,  \* interrupts so far
  cut          \* handles whose close was interrupted

handleVars == <<state, settled, asked, owner, snapshotOf>>
poolVars == <<pool, made, shut, poolOf>>
sessionVars == <<current, snapshots, session, writer>>
boundaryVars == <<hadOpen, raised, completed>>
interruptVars == <<interrupts, cut>>
vars == <<handleVars, registry, poolVars, sessionVars, boundaryVars, pc,
          closing, todo, interruptVars>>

Alive(h) == owner[h] \in {"begun", "queued", "working"}

\* Mutation: a batch keeps the lock when it is over.
LockKept(p) ==
  \A h \in Handles : ~(owner[h] \in {"working", "gone"} /\ poolOf[h] = p)

\* Mutation: the lock is not looked at.
LockIgnored(p) == TRUE

\* Nobody holds the lock of pool p.
PoolIdle(p) == \A h \in Handles : ~(owner[h] = "working" /\ poolOf[h] = p)

-----------------------------------------------------------------------------
(* The program scope: generations.                                          *)

\* The user's code runs: in a generation, between two, or after a failed one,
\* while the run scope is still entered.
UserRuns == pc \in {"between", "body", "failed"} /\ closing = NoHandle

\* begin_generation accepts: no lease is left and a new snapshot is frozen.
\* The pool survives unless the evaluation definition changed.
NoLeaseLeft == registry = {}

\* Mutation: one generation too many.
RunGoesOn == current <= MaxGenerations

\* generation(): the next index is within the run.
RunHasNext == current < MaxGenerations

\* A generation is asked for, the next one of the run.
MayBegin == pc = "between" /\ closing = NoHandle /\ RunHasNext

\* The new snapshot is current even if the scope then fails to be entered.
BeginGeneration(changed) ==
  /\ MayBegin /\ session = "open" /\ NoLeaseLeft
  /\ IF changed /\ pool # 0
     THEN PoolIdle(pool) /\ pool' = 0 /\ shut' = shut \cup {pool}
     ELSE UNCHANGED <<pool, shut>>
  /\ current' = current + 1
  /\ snapshots' = snapshots \cup {current + 1}
  /\ pc' \in {"body", "failed"}
  /\ UNCHANGED <<handleVars, registry, made, poolOf, session, writer,
                 boundaryVars, closing, todo, interruptVars>>

\* A lease is left, or the next snapshot cannot be made: the run has failed.
BeginRefused ==
  /\ MayBegin
  /\ pc' = "failed"
  /\ UNCHANGED <<handleVars, registry, poolVars, sessionVars, boundaryVars,
                 closing, todo, interruptVars>>

\* A KeyboardInterrupt reaches the wait for the pool of the old definition:
\* the session no longer knows it, and no generation begins.
BeginInterrupted ==
  /\ MayBegin /\ NoLeaseLeft
  /\ pool # 0 /\ ~PoolIdle(pool) /\ interrupts < MaxInterrupts
  /\ interrupts' = interrupts + 1
  /\ pool' = 0
  /\ pc' = "failed"
  /\ UNCHANGED <<handleVars, registry, made, shut, poolOf, sessionVars,
                 boundaryVars, closing, todo, cut>>

\* The run scope is left, with whatever is still open.
LeaveRun ==
  /\ pc \in {"between", "failed"} /\ closing = NoHandle
  /\ pc' = "close"
  /\ UNCHANGED <<handleVars, registry, poolVars, sessionVars, boundaryVars,
                 closing, todo, interruptVars>>

\* The user's generation body raises, whatever it was doing: the run has failed.
BodyRaises ==
  /\ pc = "body" /\ closing = NoHandle
  /\ pc' = "failed"
  /\ UNCHANGED <<handleVars, registry, poolVars, sessionVars, boundaryVars,
                 closing, todo, interruptVars>>

\* The body committed a result and returns: the open handles are counted and
\* copied before anything is closed.
BodyReturns ==
  /\ pc = "body" /\ closing = NoHandle
  /\ pc' = "finish"
  /\ todo' = registry
  /\ hadOpen' = (registry \cap Evaluations # {})
  /\ raised' = FALSE
  /\ UNCHANGED <<handleVars, registry, poolVars, sessionVars, completed,
                 closing, interruptVars>>

\* Mutation: the boundary resolves no handle that is to be waited for.
SkipsFits == todo \subseteq Trainings /\ closing = NoHandle

\* Every copied handle has been closed.
AllHandled == todo = {} /\ closing = NoHandle

\* Nothing raised and no evaluation was left open.
MayCommit == ~raised /\ ~hadOpen

\* Flush, generation metadata and the completion pointer, in that order; any
\* of them may fail, and so may the check for a hopeless generation after it.
Commit ==
  /\ pc = "finish" /\ AllHandled /\ MayCommit
  /\ \/ completed' = current /\ pc' \in {"between", "failed"}
     \/ completed' = completed /\ pc' = "failed"
  /\ UNCHANGED <<handleVars, registry, poolVars, sessionVars, hadOpen, raised,
                 closing, todo, interruptVars>>

BoundaryFails ==
  /\ pc = "finish" /\ AllHandled /\ ~MayCommit
  /\ hadOpen' = FALSE /\ raised' = FALSE
  /\ pc' = "failed"
  /\ UNCHANGED <<handleVars, registry, poolVars, sessionVars, completed,
                 closing, todo, interruptVars>>

-----------------------------------------------------------------------------
(* Handles, as the user's code uses them. Only a preparation asks for an     *)
(* entered generation; a batch that was prepared may be started later.      *)

InBody == pc = "body" /\ closing = NoHandle

\* prepare_evaluation freezes the batch with the snapshot of its generation.
Prepare(h) ==
  /\ InBody /\ h \in Evaluations /\ state[h] = "none"
  /\ snapshotOf' = [snapshotOf EXCEPT ![h] = current]
  /\ UNCHANGED <<state, settled, asked, owner, registry, poolVars, sessionVars,
                 boundaryVars, pc, closing, todo, interruptVars>>

\* _register_generation_handle: the snapshot must be the current one.
SnapshotIsCurrent(h) == snapshotOf[h] # 0 /\ snapshotOf[h] = current

\* EvaluationHandle(batch).
Create(h) ==
  /\ UserRuns /\ h \in Evaluations /\ state[h] = "none" /\ session = "open"
  /\ SnapshotIsCurrent(h)
  /\ state' = [state EXCEPT ![h] = "created"]
  /\ registry' = registry \cup {h}
  /\ UNCHANGED <<snapshotOf, settled, asked, owner, poolVars, sessionVars,
                 boundaryVars, pc, closing, todo, interruptVars>>

Start(h) ==
  /\ UserRuns /\ state[h] = "created"
  /\ state' = [state EXCEPT ![h] = "running"]
  /\ owner' = [owner EXCEPT ![h] = "begun"]
  /\ UNCHANGED <<settled, asked, snapshotOf, registry, poolVars, sessionVars,
                 boundaryVars, pc, closing, todo, interruptVars>>

\* thread.start() raises: waiters are woken with the failure.
StartFails(h) ==
  /\ UserRuns /\ state[h] = "created" /\ h \in MayNotStart
  /\ state' = [state EXCEPT ![h] = "failed"]
  /\ settled' = [settled EXCEPT ![h] = "failure"]
  /\ UNCHANGED <<asked, owner, snapshotOf, registry, poolVars, sessionVars,
                 boundaryVars, pc, closing, todo, interruptVars>>

\* start_fit: construct, register and start a training handle, with the
\* current snapshot.
StartFit(h) ==
  /\ UserRuns /\ h \in Trainings /\ current # 0
  /\ state[h] = "none" /\ session = "open"
  /\ state' = [state EXCEPT ![h] = "running"]
  /\ owner' = [owner EXCEPT ![h] = "working"]
  /\ snapshotOf' = [snapshotOf EXCEPT ![h] = current]
  /\ registry' = registry \cup {h}
  /\ UNCHANGED <<settled, asked, poolVars, sessionVars, boundaryVars, pc,
                 closing, todo, interruptVars>>

\* owner.start() raises: the handle is registered and says it is running.
StartFitFails(h) ==
  /\ UserRuns /\ h \in Trainings \cap MayNotStart /\ current # 0
  /\ state[h] = "none" /\ session = "open"
  /\ state' = [state EXCEPT ![h] = "running"]
  /\ snapshotOf' = [snapshotOf EXCEPT ![h] = current]
  /\ registry' = registry \cup {h}
  /\ UNCHANGED <<settled, asked, owner, poolVars, sessionVars, boundaryVars,
                 pc, closing, todo, interruptVars>>

\* Mutation: a batch that has not begun to work is settled by cancel().
NotWorking(h) == owner[h] # "working"

\* No owner thread will settle the handle: cancel() has to.
NotStarted(h) == state[h] = "created"

\* What cancel() changes.
CancelEffect(h) ==
  IF settled[h] # "no" \/ asked[h] \/ state[h] = "closed"
  THEN UNCHANGED <<state, settled, asked>>
  ELSE /\ asked' = [asked EXCEPT ![h] = TRUE]
       /\ IF NotStarted(h)
          THEN /\ state' = [state EXCEPT ![h] = "completed"]
               /\ settled' = [settled EXCEPT ![h] = "result"]
          ELSE /\ state' = [state EXCEPT ![h] = "cancelling"]
               /\ UNCHANGED settled

Cancel(h) ==
  /\ UserRuns /\ h \in registry
  /\ CancelEffect(h)
  /\ UNCHANGED <<owner, snapshotOf, registry, poolVars, sessionVars,
                 boundaryVars, pc, closing, todo, interruptVars>>

\* close() cancels; only a training at a normal boundary is waited for.
Cancels(h) == ~(h \in Trainings /\ pc = "finish")

\* The main thread turns to a handle: the user's code to any registered one,
\* the boundary and the shutdown to those they copied.
CloseStarts(h) ==
  /\ closing = NoHandle
  /\ \/ UserRuns /\ h \in registry
     \/ pc \in {"finish", "closing"} /\ h \in todo
  /\ IF Cancels(h) THEN CancelEffect(h) ELSE UNCHANGED <<state, settled, asked>>
  /\ closing' = h
  /\ todo' = todo \ {h}
  /\ UNCHANGED <<owner, snapshotOf, registry, poolVars, sessionVars,
                 boundaryVars, pc, interruptVars>>

\* Mutation: close does not wait for the owner thread.
NotWaited(h) == TRUE

\* wait() returns or raises what the owner thread left.
Awaited(h) == settled[h] # "no"

\* What the wait raises once it is over.
CloseRaises(h) ==
  \/ settled[h] = "failure"
  \/ settled[h] = "cancelled" /\ pc = "finish"

CloseReturns ==
  /\ closing # NoHandle /\ Awaited(closing)
  /\ state' = [state EXCEPT ![closing] = "closed"]
  /\ registry' = registry \ {closing}
  /\ raised' = (raised \/ (pc = "finish" /\ CloseRaises(closing)))
  /\ closing' = NoHandle
  /\ UNCHANGED <<settled, asked, owner, snapshotOf, poolVars, sessionVars,
                 hadOpen, completed, pc, todo, interruptVars>>

\* A KeyboardInterrupt reaches the blocked wait: the handle is closed and
\* released all the same. The user's code may go on or be left.
CloseInterrupted ==
  /\ closing # NoHandle /\ settled[closing] = "no"
  /\ interrupts < MaxInterrupts
  /\ interrupts' = interrupts + 1
  /\ cut' = cut \cup {closing}
  /\ state' = [state EXCEPT ![closing] = "closed"]
  /\ registry' = registry \ {closing}
  /\ raised' = (raised \/ pc = "finish")
  /\ closing' = NoHandle
  /\ \/ pc' = pc
     \/ pc = "body" /\ pc' = "failed"
  /\ UNCHANGED <<settled, asked, owner, snapshotOf, poolVars, sessionVars,
                 hadOpen, completed, todo>>

-----------------------------------------------------------------------------
(* CampaignSession.close.                                                   *)

ShutdownStarts ==
  /\ pc = "close"
  /\ session' = "closing"
  /\ todo' = registry
  /\ pc' = "closing"
  /\ UNCHANGED <<handleVars, registry, poolVars, current, snapshots, writer,
                 boundaryVars, closing, interruptVars>>

\* The pool's close waits for its lock.
ResourcesClose ==
  /\ pc = "closing" /\ AllHandled
  /\ pool # 0 => PoolIdle(pool)
  /\ shut' = IF pool = 0 THEN shut ELSE shut \cup {pool}
  /\ pool' = 0
  /\ pc' = "writer"
  /\ UNCHANGED <<handleVars, registry, made, poolOf, sessionVars, boundaryVars,
                 closing, todo, interruptVars>>

\* A KeyboardInterrupt reaches the wait for the pool: it stays open, and the
\* rest of the shutdown is done all the same.
ResourcesInterrupted ==
  /\ pc = "closing" /\ AllHandled
  /\ pool # 0 /\ ~PoolIdle(pool) /\ interrupts < MaxInterrupts
  /\ interrupts' = interrupts + 1
  /\ pool' = 0
  /\ pc' = "writer"
  /\ UNCHANGED <<handleVars, registry, made, shut, poolOf, sessionVars,
                 boundaryVars, closing, todo, cut>>

WriterStops ==
  /\ pc = "writer"
  /\ writer' = FALSE
  /\ snapshots' = {}
  /\ session' = "closed"
  /\ registry' = {}
  /\ pc' = "done"
  /\ UNCHANGED <<handleVars, poolVars, current, boundaryVars, closing, todo,
                 interruptVars>>

-----------------------------------------------------------------------------
(* The owner threads.                                                       *)

\* The terminal state is written whatever the state was.
Settle(h, how) ==
  /\ settled' = [settled EXCEPT ![h] = how]
  /\ state' = [state EXCEPT ![h] =
       CASE how = "result" -> "completed"
         [] how = "cancelled" -> "cancelled"
         [] how = "failure" -> "failed"]
  /\ owner' = [owner EXCEPT ![h] = "gone"]
  /\ UNCHANGED <<asked, snapshotOf, registry, sessionVars, boundaryVars, pc,
                 closing, todo, interruptVars>>

\* evaluation_resource: the batch gets the session's pool, made if needed.
FindsPool(h) ==
  /\ owner[h] = "begun" /\ session = "open"
  /\ IF pool = 0
     THEN pool' = made + 1 /\ made' = made + 1
     ELSE UNCHANGED <<pool, made>>
  /\ poolOf' = [poolOf EXCEPT ![h] = pool']
  /\ owner' = [owner EXCEPT ![h] = "queued"]
  /\ UNCHANGED <<state, settled, asked, snapshotOf, registry, shut,
                 sessionVars, boundaryVars, pc, closing, todo, interruptVars>>

FindsNoPool(h) ==
  /\ owner[h] = "begun" /\ session # "open"
  /\ Settle(h, "failure")
  /\ UNCHANGED poolVars

\* run_fast_population takes the pool's lock.
Enters(h) ==
  /\ owner[h] = "queued" /\ PoolIdle(poolOf[h]) /\ poolOf[h] \notin shut
  /\ owner' = [owner EXCEPT ![h] = "working"]
  /\ UNCHANGED <<state, settled, asked, snapshotOf, registry, poolVars,
                 sessionVars, boundaryVars, pc, closing, todo, interruptVars>>

EntersClosed(h) ==
  /\ owner[h] = "queued" /\ PoolIdle(poolOf[h]) /\ poolOf[h] \in shut
  /\ Settle(h, "failure")
  /\ UNCHANGED poolVars

\* The batch or the fit runs to its end; a batch needs the writer for that.
Completes(h) ==
  /\ owner[h] = "working"
  /\ Settle(h, IF h \in Evaluations /\ ~writer THEN "failure" ELSE "result")
  /\ UNCHANGED poolVars

Fails(h) ==
  /\ owner[h] = "working"
  /\ Settle(h, "failure")
  /\ UNCHANGED poolVars

\* The cancel event is seen: a batch returns its rows, a fit gives up.
SeesCancel(h) ==
  /\ owner[h] = "working" /\ asked[h]
  /\ Settle(h, IF h \in Trainings THEN "cancelled"
               ELSE IF writer THEN "result" ELSE "failure")
  /\ UNCHANGED poolVars

-----------------------------------------------------------------------------
Init ==
  /\ state = [h \in Handles |-> "none"]
  /\ settled = [h \in Handles |-> "no"]
  /\ asked = [h \in Handles |-> FALSE]
  /\ owner = [h \in Handles |-> "none"]
  /\ snapshotOf = [h \in Handles |-> 0]
  /\ registry = {} /\ current = 0 /\ snapshots = {}
  /\ pool = 0 /\ made = 0 /\ shut = {} /\ poolOf = [h \in Handles |-> 0]
  /\ session = "open" /\ writer = TRUE
  /\ pc = "between" /\ closing = NoHandle /\ todo = {}
  /\ hadOpen = FALSE /\ raised = FALSE /\ completed = 0
  /\ interrupts = 0 /\ cut = {}

\* What the main thread does without the user's leave.
Framework ==
  \/ Commit \/ BoundaryFails \/ CloseReturns \/ ShutdownStarts
  \/ ResourcesClose \/ WriterStops
  \/ pc \in {"finish", "closing"} /\ \E h \in Handles : CloseStarts(h)

Body ==
  \/ \E changed \in BOOLEAN : BeginGeneration(changed)
  \/ BeginRefused \/ BeginInterrupted
  \/ LeaveRun \/ BodyRaises \/ BodyReturns
  \/ CloseInterrupted \/ ResourcesInterrupted
  \/ \E h \in Handles :
       \/ Prepare(h) \/ Create(h) \/ Start(h) \/ StartFails(h)
       \/ StartFit(h) \/ StartFitFails(h) \/ Cancel(h)
       \/ UserRuns /\ CloseStarts(h)

\* The steps an owner thread takes however long its simulation runs.
Responds(h) ==
  \/ FindsPool(h) \/ FindsNoPool(h) \/ Enters(h) \/ EntersClosed(h)
  \/ SeesCancel(h)

Next ==
  \/ Framework \/ Body
  \/ \E h \in Handles : Responds(h) \/ Completes(h) \/ Fails(h)

Spec == Init /\ [][Next]_vars

\* The main thread is scheduled and so are the owner threads, which notice a
\* cancellation; a simulation without a timeout may still run for ever.
Unbounded ==
  /\ Spec /\ WF_vars(Framework)
  /\ \A h \in Handles : WF_vars(Responds(h))

\* With an evaluation timeout every batch ends in the end.
Bounded == Unbounded /\ \A h \in Handles : WF_vars(Completes(h))

-----------------------------------------------------------------------------
(* Properties.                                                              *)

\* Every variable keeps its type.
TypeOK ==
  /\ state \in [Handles -> {"none", "created", "running", "cancelling",
                            "completed", "cancelled", "failed", "closed"}]
  /\ settled \in [Handles -> {"no", "result", "cancelled", "failure"}]
  /\ asked \in [Handles -> BOOLEAN]
  /\ owner \in [Handles -> {"none", "begun", "queued", "working", "gone"}]
  /\ snapshotOf \in [Handles -> 0..MaxGenerations]
  /\ registry \subseteq Handles /\ todo \subseteq Handles
  /\ current \in 0..MaxGenerations /\ snapshots \subseteq 1..MaxGenerations
  /\ pool \in 0..made /\ made \in Nat /\ shut \subseteq 1..made
  /\ poolOf \in [Handles -> 0..made]
  /\ session \in {"open", "closing", "closed"} /\ writer \in BOOLEAN
  /\ pc \in {"between", "body", "failed", "finish", "close", "closing", "writer",
             "done"}
  /\ closing \in Handles \cup {NoHandle}
  /\ hadOpen \in BOOLEAN /\ raised \in BOOLEAN
  /\ completed \in 0..MaxGenerations /\ interrupts \in 0..MaxInterrupts
  /\ cut \subseteq Handles

\* A started batch or fit never outlives its lease, its snapshot or the
\* writer, whenever it was started, unless its own close was interrupted: while
\* its owner thread lives, it is registered, its snapshot is the current one
\* and on disk, and the writer is up.
NothingOutlives ==
  \A h \in Handles \ cut : Alive(h) =>
    /\ h \in registry /\ snapshotOf[h] = current
    /\ current \in snapshots /\ writer

\* Every lease is one of the current generation.
LeasesAreCurrent == \A h \in registry : snapshotOf[h] = current

\* The completion of a generation is recorded, and the next one begins, only
\* when each handle made so far, in whatever generation or between two, is
\* closed and its thread gone; and it is recorded only if no evaluation was
\* open at the boundary and no close raised. Handles whose own close was
\* interrupted are exempt from the first part.
Resolved ==
  \A h \in Handles \ cut : state[h] \in {"none", "closed"} /\ ~Alive(h)

CompletedIsResolved ==
  [][/\ completed' # completed \/ current' # current => Resolved
     /\ completed' # completed => ~hadOpen /\ ~raised]_vars

\* No evaluation is at work between two generations: a started evaluation
\* does not outlive the scope of its generation.  The documents say so; a start
\* between two generations breaks it.
EndsWithItsGeneration ==
  pc = "between" => \A h \in Evaluations : ~Alive(h)

\* A batch works only with a pool that is not closed, and alone.
PoolIsExclusive ==
  \A h \in Evaluations : owner[h] = "working" =>
    /\ poolOf[h] \notin shut
    /\ \A g \in Evaluations :
         owner[g] = "working" /\ poolOf[g] = poolOf[h] => g = h

\* A closed handle stays closed, unless its close was interrupted.
ClosedIsFinal ==
  [][\A h \in Handles \ cut : state[h] = "closed" => state'[h] = "closed"]_vars

\* What a handle ended with is cached: no late thread replaces the answer its
\* waiters were given, not even after an interrupted close.
SettledOnce ==
  [][\A h \in Handles : settled[h] # "no" => settled'[h] = settled[h]]_vars

\* At a normal boundary a fit that has not ended is waited for, not cancelled.
BoundaryWaits ==
  [][pc = "finish" => \A h \in Trainings : asked'[h] = asked[h]]_vars

\* The shutdown of a campaign ends, whatever its handles were doing.
ShutdownEnds == pc = "close" ~> pc = "done"

\* A handle that says it runs though its owner thread could not be started.
Unowned(h) == state[h] \in {"running", "cancelling"} /\ owner[h] = "none"

\* With a timeout on evaluations, shutdown ends if every thread was started.
BoundedShutdownEnds ==
  pc = "close" /\ (\A h \in registry : ~Unowned(h)) ~> pc = "done"

\* Under the same condition the boundary of a generation comes to a decision.
BoundaryDecides ==
  pc = "finish" /\ (\A h \in registry : ~Unowned(h)) ~> pc # "finish"

\* So neither a boundary nor a shutdown is stuck behind what the body left.
CampaignGoesOn == BoundaryDecides /\ BoundedShutdownEnds

=============================================================================
