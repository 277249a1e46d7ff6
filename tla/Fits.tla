-------------------------------- MODULE Fits --------------------------------
(***************************************************************************)
(* What a surrogate fit leaves behind and who is served it: the scheduler, *)
(* the runtime and the checkpoints of surrogate/amplitude_gp, whose        *)
(* handles are those of surrogate/training.py, under the runs of           *)
(* optimize/program.py.  retrieval_response has the same code but for what *)
(* the identity of a state binds.                                          *)
(*                                                                         *)
(* Fits run on threads of their own and publish in several steps; the main *)
(* thread selects with the newest compatible state it finds, in memory or  *)
(* on disk.  A model is its number, its evidence is always at hand.        *)
(***************************************************************************)
EXTENDS Integers, Sequences

CONSTANTS
  Programs,        \* strategy signatures
  NoProgram,       \* nothing is active yet
  Tasks,           \* current task sources, as far as a state is bound to them
  NoTask,          \* no generation is open
  MaxLag,          \* OPTIMIZE_SURROGATE_MAX_TRAINING_LAG
  LastGeneration,  \* bound of the model: generations of a run
  MaxFits          \* bound of the model: fits ever started

ASSUME FitsAssumption ==
  /\ NoProgram \notin Programs /\ NoTask \notin Tasks
  /\ MaxLag \in Nat /\ LastGeneration \in Nat /\ MaxFits \in Nat

VARIABLES
  active,      \* active.json: the program of the last run
  completion,  \* program_completion.json
  artifacts,   \* fits whose artifact directory exists
  manifests,   \* fits whose namespace manifest exists
  alias,       \* the root pointer of each generation: a fit, or 0
  fits,        \* every fit: what it is bound to, its handle and its thread
  leased,      \* fits whose handle is registered with the session
  pending,     \* _SCHEDULES: the handle of each program's schedule, or 0
  cache,       \* _STATES: the state of each program, or 0
  overtaken,   \* programs whose memory a recovery has left behind the disk
  pc,          \* where the main thread is
  call,        \* which call brought it there
  target,      \* the handle it waits for, or 0
  answer,      \* the state a recovery returns, or 0
  known,       \* fits a selection counts on: completed when it began
  gen, task,   \* the generation and its task
  todo,        \* handles the boundary has yet to finish
  raised       \* one of them raised

disk == <<active, completion, artifacts, manifests, alias>>
memory == <<pending, cache, overtaken>>
callVars == <<call, target, answer, known>>
runVars == <<gen, task, todo, raised>>
vars == <<disk, fits, leased, memory, pc, callVars, runVars>>

Ids == 1..Len(fits)
Generations == 0..LastGeneration
NoCompletion == [program |-> NoProgram, generation |-> 0]

Running(f) == fits[f].handle \in {"running", "cancelling"}

\* state_identity: the program and the task it was fitted for.
Compatible(f) == fits[f].program = active /\ fits[f].task = task

WithinLag(f) == gen - fits[f].generation \in 0..MaxLag

\* generation_*.json in reverse order.
Newest(S) == {f \in S : \A g \in S : fits[g].generation <= fits[f].generation}

\* cancel() sets the event of a running fit.
Cancelled(f) ==
  IF fits[f].handle = "running"
  THEN fits' = [fits EXCEPT ![f].handle = "cancelling"]
  ELSE UNCHANGED fits

-----------------------------------------------------------------------------
(* Runs and generations.                                                    *)

\* Mutation: a run goes one generation too far.
OneMore == gen <= LastGeneration + 1

RunHasNext == gen <= LastGeneration

\* deactivate_workspace: what is scheduled is waited for, and every schedule
\* and every state in memory is dropped.
Deactivates ==
  /\ \A q \in Programs : pending[q] # 0 => ~Running(pending[q])
  /\ pending' = [q \in Programs |-> 0]
  /\ cache' = [q \in Programs |-> 0]
  /\ overtaken' = {}

\* activate_strategy_state: only when another program was active.
Activates(p) ==
  /\ IF active \in {p, NoProgram} THEN UNCHANGED memory ELSE Deactivates
  /\ active' = p

\* A run of program p at generation g: a program that was the last to complete
\* a generation must go on with the next one.
Enter(p, g) ==
  /\ pc = "idle"
  /\ completion.program = p => g = completion.generation + 1
  /\ Activates(p)
  /\ gen' = g /\ pc' = "between"
  /\ UNCHANGED <<completion, artifacts, manifests, alias, fits, leased,
                 callVars, task, todo, raised>>

BeginGeneration(t) ==
  /\ pc = "between" /\ RunHasNext /\ leased = {}
  /\ task' = t /\ pc' = "body"
  /\ UNCHANGED <<disk, fits, leased, memory, callVars, gen, todo, raised>>

\* The run ends, or the generation body raises.
LeaveRun ==
  /\ pc \in {"between", "body"}
  /\ pc' = "close" /\ task' = NoTask
  /\ UNCHANGED <<disk, fits, leased, memory, callVars, gen, todo, raised>>

BodyReturns ==
  /\ pc = "body"
  /\ pc' = "boundary" /\ todo' = leased /\ task' = NoTask
  /\ UNCHANGED <<disk, fits, leased, memory, callVars, gen, raised>>

\* finish_generation finishes every open fit; one that did not complete raises.
\* The schedule keeps the handle.
BoundaryFinishes(f) ==
  /\ pc = "boundary" /\ f \in todo /\ ~Running(f)
  /\ todo' = todo \ {f} /\ leased' = leased \ {f}
  /\ raised' = (raised \/ fits[f].handle # "completed")
  /\ UNCHANGED <<disk, fits, memory, pc, callVars, gen, task>>

\* The completion is recorded, and the generation may still be found hopeless;
\* or what precedes it fails, or an open fit did.
BoundaryEnds ==
  /\ pc = "boundary" /\ todo = {}
  /\ \/ /\ ~raised
        /\ completion' = [program |-> active, generation |-> gen]
        /\ gen' = gen + 1 /\ pc' \in {"between", "close"}
     \/ pc' = "close" /\ UNCHANGED <<completion, gen>>
  /\ raised' = FALSE
  /\ UNCHANGED <<active, artifacts, manifests, alias, fits, leased, memory,
                 callVars, task, todo>>

\* The session closes handle after handle: cancel, then wait.
CloseTurns(f) ==
  /\ pc = "close" /\ target = 0 /\ f \in leased
  /\ Cancelled(f)
  /\ target' = f
  /\ UNCHANGED <<disk, leased, memory, pc, call, answer, known, runVars>>

CloseReleases ==
  /\ pc = "close" /\ target # 0 /\ ~Running(target)
  /\ leased' = leased \ {target}
  /\ target' = 0
  /\ UNCHANGED <<disk, fits, memory, pc, call, answer, known, runVars>>

RunOver ==
  /\ pc = "close" /\ leased = {}
  /\ pc' = "idle" /\ gen' = 0
  /\ UNCHANGED <<disk, fits, leased, memory, callVars, task, todo, raised>>

\* The process ends or is lost, wherever it is: of its memory only what was
\* reported completed is still counted on.
Exit ==
  /\ fits' = [f \in Ids |->
       IF fits[f].handle = "completed" THEN fits[f]
       ELSE [fits[f] EXCEPT !.handle = "lost", !.stage = "gone"]]
  /\ leased' = {} /\ todo' = {} /\ raised' = FALSE
  /\ pending' = [p \in Programs |-> 0] /\ cache' = [p \in Programs |-> 0]
  /\ overtaken' = {}
  /\ pc' = "idle" /\ call' = "none" /\ target' = 0 /\ answer' = 0
  /\ known' = {} /\ gen' = 0 /\ task' = NoTask
  /\ UNCHANGED disk

-----------------------------------------------------------------------------
(* Fits, as the generation body uses them.                                  *)

\* start_fit: the handle is made, registered and started.
StartsFit ==
  /\ Len(fits) < MaxFits
  /\ fits' = Append(fits, [program |-> active, generation |-> gen,
                           task |-> task, handle |-> "running",
                           stage |-> "fitting"])
  /\ leased' = leased \cup {Len(fits) + 1}

\* A fit of the program's own, or one of the schedule, which has at most one.
StartFit ==
  /\ pc = "body" /\ StartsFit
  /\ UNCHANGED <<disk, memory, pc, callVars, runVars>>

StartTraining ==
  /\ pc = "body" /\ pending[active] = 0 /\ StartsFit
  /\ pending' = [pending EXCEPT ![active] = Len(fits) + 1]
  /\ UNCHANGED <<disk, cache, overtaken, pc, callVars, runVars>>

Own(f) == f \in leased /\ pending[active] # f

Cancel(f) ==
  /\ pc = "body" /\ Own(f) /\ Cancelled(f)
  /\ UNCHANGED <<disk, leased, memory, pc, callVars, runVars>>

\* finish() or close() of a handle of the program's own.
FinishFit(f) ==
  /\ pc = "body" /\ Own(f)
  /\ UNCHANGED fits \/ Cancelled(f)
  /\ pc' = "join" /\ call' = "own" /\ target' = f
  /\ UNCHANGED <<disk, leased, memory, answer, known, runVars>>

\* finish(): with no handle it is idle.
FinishTraining ==
  /\ pc = "body" /\ pending[active] # 0
  /\ pc' = "join" /\ call' = "finish" /\ target' = pending[active]
  /\ UNCHANGED <<disk, fits, leased, memory, answer, known, runVars>>

\* The wait is over: the handle is closed and leaves its schedule.
Joined ==
  /\ pc = "join" /\ ~Running(target)
  /\ leased' = leased \ {target}
  /\ pending' = [p \in Programs |->
       IF pending[p] = target THEN 0 ELSE pending[p]]
  /\ target' = 0
  /\ IF call = "ensure"
     THEN pc' = "look" /\ call' = "again"
     ELSE pc' = "body" /\ call' = "none"
  /\ UNCHANGED <<disk, fits, cache, overtaken, answer, known, runVars>>

-----------------------------------------------------------------------------
(* Recovery: the state in memory, else the newest on disk.                  *)

\* The freshness check of a selection, or ensure_fresh_enough: the state in
\* memory is read under the lock and checked outside it.
Looks ==
  /\ \/ pc = "body" /\ call' \in {"select", "ensure"}
     \/ pc = "look" /\ UNCHANGED call
  /\ known' = IF call' = "select" /\ active \notin overtaken
              THEN {f \in Ids : fits[f].handle = "completed"} ELSE {}
  /\ IF cache[active] # 0 /\ Compatible(cache[active])
     THEN answer' = cache[active] /\ pc' = "served"
     ELSE answer' = 0 /\ pc' = "list"
  /\ UNCHANGED <<disk, fits, leased, memory, target, runVars>>

\* The manifests of the program's namespace, the newest first, up to one that
\* fits and whose artifact can be read.
Lists ==
  /\ pc = "list"
  /\ LET usable == {f \in manifests \cap artifacts : Compatible(f)} IN
     IF usable = {}
     THEN pc' = "served" /\ UNCHANGED answer
     ELSE pc' = "store" /\ answer' \in Newest(usable)
  /\ UNCHANGED <<disk, fits, leased, memory, call, target, known, runVars>>

\* Its state has been offered to the memory.
Offered(f) == fits[f].stage = "cached" \/ fits[f].handle = "completed"

\* What was found is stored whatever the memory holds by now: a newer fit may
\* have been through since the manifests were listed.
Stores ==
  /\ pc = "store"
  /\ cache' = [cache EXCEPT ![active] = answer]
  /\ overtaken' =
       IF \E f \in Ids : Offered(f) /\ Compatible(f)
                         /\ fits[answer].generation < fits[f].generation
       THEN overtaken \cup {active} ELSE overtaken \ {active}
  /\ pc' = "served"
  /\ UNCHANGED <<disk, fits, leased, pending, callVars, runVars>>

\* What a selection does with the answer, and ensure when it will do.
Returns ==
  /\ pc = "served"
  /\ \/ call = "select"
     \/ answer # 0 /\ WithinLag(answer)
     \/ call = "again" /\ Len(fits) = MaxFits
  /\ pc' = "body" /\ call' = "none" /\ answer' = 0 /\ known' = {}
  /\ UNCHANGED <<disk, fits, leased, memory, target, runVars>>

Unfit == pc = "served" /\ ~(answer # 0 /\ WithinLag(answer))

\* ensure: the pending fit is finished first and recovery tried again.
EnsureFinishes ==
  /\ Unfit /\ call = "ensure"
  /\ IF pending[active] # 0
     THEN pc' = "join" /\ target' = pending[active] /\ UNCHANGED call
     ELSE pc' = "look" /\ call' = "again" /\ UNCHANGED target
  /\ answer' = 0
  /\ UNCHANGED <<disk, fits, leased, memory, known, runVars>>

\* Then a fit of this generation is started and finished.
EnsureTrains ==
  /\ Unfit /\ call = "again" /\ StartsFit
  /\ pending' = [pending EXCEPT ![active] = Len(fits) + 1]
  /\ pc' = "join" /\ call' = "last" /\ target' = Len(fits) + 1
  /\ answer' = 0 /\ known' = {}
  /\ UNCHANGED <<disk, cache, overtaken, runVars>>

-----------------------------------------------------------------------------
(* The owner thread of a fit.                                               *)

Moves(f, from, to) ==
  /\ fits[f].stage = from
  /\ fits' = [fits EXCEPT ![f].stage = to]

Settles(f, how) ==
  fits' = [fits EXCEPT ![f].handle = how, ![f].stage = "gone"]

\* Mutation: the event is looked at once more after the rename.
LooksOnceMore == {"fitting", "staged", "renamed"}

\* Where check_cancelled is called: all through the fit, and for the last time
\* between the staging directory and its rename.
Checked == {"fitting", "staged"}

SeesCancel(f) ==
  /\ fits[f].stage \in Checked /\ fits[f].handle = "cancelling"
  /\ Settles(f, "cancelled")
  /\ UNCHANGED <<disk, leased, memory, pc, callVars, runVars>>

\* A check is passed: the model is fitted and staged, then cleared.
Passes(f) ==
  /\ fits[f].handle = "running"
  /\ Moves(f, "fitting", "staged") \/ Moves(f, "staged", "cleared")
  /\ UNCHANGED <<disk, leased, memory, pc, callVars, runVars>>

\* The fit, the rename or one of the two writes raises.
Raises(f) ==
  /\ fits[f].stage \in {"fitting", "staged", "cleared", "renamed", "listed"}
  /\ Settles(f, "failed")
  /\ UNCHANGED <<disk, leased, memory, pc, callVars, runVars>>

\* os.replace(staging, artifact).
Renames(f) ==
  /\ Moves(f, "cleared", "renamed")
  /\ artifacts' = artifacts \cup {f}
  /\ UNCHANGED <<active, completion, manifests, alias, leased, memory, pc,
                 callVars, runVars>>

\* Mutation: the manifest is written before the artifact is in place.
ListsEarly(f) == fits[f].stage = "cleared"

MayList(f) == fits[f].stage = "renamed"

\* The manifest of the namespace: recovery sees the fit from here on.
WritesManifest(f) ==
  /\ MayList(f)
  /\ fits' = [fits EXCEPT ![f].stage = "listed"]
  /\ manifests' = manifests \cup {f}
  /\ UNCHANGED <<active, completion, artifacts, alias, leased, memory, pc,
                 callVars, runVars>>

\* The pointer of its generation, which all programs share.
WritesAlias(f) ==
  /\ Moves(f, "listed", "published")
  /\ alias' = [alias EXCEPT ![fits[f].generation] = f]
  /\ UNCHANGED <<active, completion, artifacts, manifests, leased, memory, pc,
                 callVars, runVars>>

\* Mutation: the first state is kept.
OnlyFirst(f) == cache[active] = 0

\* No newer generation is replaced.
Replaces(f) ==
  \/ cache[active] = 0
  \/ fits[cache[active]].generation <= fits[f].generation

\* The key is computed anew, from active.json.
Caches(f) ==
  /\ Moves(f, "published", "cached")
  /\ IF Replaces(f)
     THEN /\ cache' = [cache EXCEPT ![active] = f]
          /\ overtaken' = overtaken \ {active}
     ELSE UNCHANGED <<cache, overtaken>>
  /\ UNCHANGED <<disk, leased, pending, pc, callVars, runVars>>

\* The fit is completed even if it was asked to stop meanwhile.
Completes(f) ==
  /\ fits[f].stage = "cached"
  /\ Settles(f, "completed")
  /\ UNCHANGED <<disk, leased, memory, pc, callVars, runVars>>

-----------------------------------------------------------------------------
Init ==
  /\ active = NoProgram /\ completion = NoCompletion
  /\ artifacts = {} /\ manifests = {} /\ alias = [g \in Generations |-> 0]
  /\ fits = <<>> /\ leased = {}
  /\ pending = [p \in Programs |-> 0] /\ cache = [p \in Programs |-> 0]
  /\ overtaken = {}
  /\ pc = "idle" /\ call = "none" /\ target = 0 /\ answer = 0 /\ known = {}
  /\ gen = 0 /\ task = NoTask /\ todo = {} /\ raised = FALSE

Framework ==
  \/ BoundaryEnds \/ CloseReleases \/ RunOver \/ Joined
  \/ Looks \/ Lists \/ Stores \/ Returns \/ EnsureFinishes \/ EnsureTrains
  \/ \E f \in Ids : BoundaryFinishes(f) \/ CloseTurns(f)

Body ==
  \/ \E p \in Programs, g \in Generations : Enter(p, g)
  \/ \E t \in Tasks : BeginGeneration(t)
  \/ LeaveRun \/ BodyReturns \/ StartFit \/ StartTraining \/ FinishTraining
  \/ \E f \in Ids : Cancel(f) \/ FinishFit(f)

Owner(f) ==
  \/ SeesCancel(f) \/ Passes(f) \/ Raises(f) \/ Renames(f)
  \/ WritesManifest(f) \/ WritesAlias(f) \/ Caches(f) \/ Completes(f)

Next == Framework \/ Body \/ Exit \/ \E f \in Ids : Owner(f)

Spec == Init /\ [][Next]_vars

-----------------------------------------------------------------------------
(* Properties.                                                              *)

\* Every variable keeps its type.
TypeOK ==
  /\ active \in Programs \cup {NoProgram}
  /\ completion \in [program : Programs \cup {NoProgram},
                     generation : Generations]
  /\ fits \in Seq([program : Programs, generation : Generations, task : Tasks,
                   handle : {"running", "cancelling", "completed",
                             "cancelled", "failed", "lost"},
                   stage : {"fitting", "staged", "cleared", "renamed",
                            "listed", "published", "cached", "gone"}])
  /\ artifacts \subseteq Ids /\ manifests \subseteq Ids
  /\ alias \in [Generations -> 0..Len(fits)]
  /\ leased \subseteq Ids /\ todo \subseteq leased /\ known \subseteq Ids
  /\ pending \in [Programs -> 0..Len(fits)]
  /\ cache \in [Programs -> 0..Len(fits)]
  /\ overtaken \subseteq Programs
  /\ pc \in {"idle", "between", "body", "join", "look", "list", "store",
             "served", "boundary", "close"}
  /\ call \in {"none", "own", "finish", "select", "ensure", "again", "last"}
  /\ target \in 0..Len(fits) /\ answer \in 0..Len(fits)
  /\ gen \in 0..LastGeneration + 1 /\ task \in Tasks \cup {NoTask}
  /\ raised \in BOOLEAN

\* How a handle ends is what is on disk: a cancelled fit has published
\* nothing, and one that completed, cancelled too late or not, is there to be
\* recovered, whatever was lost since.
OutcomeHolds ==
  \A f \in Ids :
    /\ fits[f].handle = "cancelled" =>
         f \notin artifacts \cup manifests /\ \A p \in Programs : cache[p] # f
    /\ fits[f].handle = "completed" => f \in manifests

\* Whatever can be found is whole: no manifest without its artifact, no root
\* pointer without its manifest, no state in memory that is not on disk or
\* that belongs to another program, at every point a process may be lost.
FoundIsWhole ==
  /\ manifests \subseteq artifacts
  /\ \A g \in Generations : alias[g] # 0 =>
       alias[g] \in manifests /\ fits[alias[g]].generation = g
  /\ \A p \in Programs : cache[p] # 0 =>
       cache[p] \in manifests /\ fits[cache[p]].program = p
  /\ pc \in {"store", "served"} /\ answer # 0 => Compatible(answer)

\* As long as its program has not been started over, generations only grow.
NeverBack ==
  \A f \in manifests : Compatible(f) =>
    /\ fits[f].generation <= gen
    /\ \A g \in f + 1..Len(fits) :
         Compatible(g) => fits[f].generation <= fits[g].generation

\* A selection is served a state within the lag if a compatible fit within it
\* was reported completed before, by this process or an earlier one; unless
\* the program was started over or the memory had been left behind the disk.
NewestWithinLag ==
  /\ pc = "served" /\ call = "select"
  /\ \E f \in known : Compatible(f) /\ WithinLag(f)
  /\ NeverBack
  => answer # 0 /\ WithinLag(answer)

=============================================================================
