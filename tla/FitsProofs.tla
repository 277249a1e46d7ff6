----------------------------- MODULE FitsProofs -----------------------------
(***************************************************************************)
(* Proofs about Fits, for any programs, tasks and lag and any numbers of   *)
(* generations and fits.                                                   *)
(***************************************************************************)
EXTENDS FitsInvariant, SequenceTheorems, TLAPS

-----------------------------------------------------------------------------
(* What a step does to the fits.                                            *)

Handles == {"running", "cancelling", "completed", "cancelled", "failed",
            "lost"}

Stages == {"fitting", "staged", "cleared", "renamed", "listed", "published",
           "cached", "gone"}

Fit == [program : Programs, generation : Generations, task : Tasks,
        handle : Handles, stage : Stages]

\* No fit is forgotten, and none is bound to anything else.
Kept ==
  /\ fits' \in Seq(Fit) /\ Len(fits) \in Nat /\ Len(fits') \in Nat
  /\ Len(fits) <= Len(fits')
  /\ \A g \in Ids :
       /\ fits'[g].program = fits[g].program
       /\ fits'[g].generation = fits[g].generation
       /\ fits'[g].task = fits[g].task

\* Only fit f moves, to this handle and stage.
Changes(f, how, to) ==
  /\ Kept /\ Len(fits') = Len(fits)
  /\ \A g \in Ids \ {f} : fits'[g] = fits[g]
  /\ fits'[f].handle = how /\ fits'[f].stage = to

\* One more fit, of the run that is going on.
Adds ==
  /\ Kept /\ Len(fits') = Len(fits) + 1
  /\ \A g \in Ids : fits'[g] = fits[g]
  /\ fits'[Len(fits) + 1] =
       [program |-> active, generation |-> gen, task |-> task,
        handle |-> "running", stage |-> "fitting"]

\* Every handle that did not complete is lost.
Loses ==
  /\ Kept /\ Len(fits') = Len(fits)
  /\ \A g \in Ids :
       IF fits[g].handle = "completed"
       THEN fits'[g] = fits[g]
       ELSE fits'[g].handle = "lost" /\ fits'[g].stage = "gone"

\* Numbers of fits are natural numbers, and what is at one is a fit.
LEMMA FitsType ==
  ASSUME TypeOK
  PROVE  /\ fits \in Seq(Fit) /\ Len(fits) \in Nat /\ DOMAIN fits = Ids
         /\ \A f \in Ids : f \in Nat /\ f >= 1 /\ fits[f] \in Fit
<1>1. fits \in Seq(Fit)
  BY DEF TypeOK, Fit, Handles, Stages
<1>2. Len(fits) \in Nat /\ DOMAIN fits = 1..Len(fits)
  BY <1>1, LenProperties, Zenon
<1>3. \A f \in Ids : fits[f] \in Fit
  BY <1>1, ElementOfSeq, Zenon DEF Ids
<1>. QED
  BY <1>1, <1>2, <1>3 DEF Ids

\* A step that leaves the fits alone keeps them.
LEMMA UnchangedKeeps ==
  ASSUME TypeOK, UNCHANGED fits
  PROVE  Kept /\ Len(fits') = Len(fits) /\ \A g \in Ids : fits'[g] = fits[g]
BY FitsType DEF Kept, Ids

\* Replacing one fit by another of the same binding.
LEMMA Replaced ==
  ASSUME TypeOK, NEW f \in Ids, NEW e \in Fit,
         fits' = [fits EXCEPT ![f] = e],
         e.program = fits[f].program, e.generation = fits[f].generation,
         e.task = fits[f].task
  PROVE  Changes(f, e.handle, e.stage)
<1>1. fits \in Seq(Fit) /\ Len(fits) \in Nat
  BY FitsType
<1>2. /\ fits' \in Seq(Fit) /\ Len(fits') = Len(fits)
      /\ \A j \in 1..Len(fits) : fits'[j] = IF j = f THEN e ELSE fits[j]
  <2>1. f \in 1..Len(fits)
    BY DEF Ids
  <2>. DEFINE s == [fits EXCEPT ![f] = e]
  <2>2. /\ s \in Seq(Fit) /\ Len(s) = Len(fits)
        /\ \A j \in 1..Len(fits) : s[j] = IF j = f THEN e ELSE fits[j]
    BY <1>1, <2>1, ExceptSeq
  <2>3. fits' = s
    OBVIOUS
  <2>. HIDE DEF s
  <2>. QED
    BY <2>2, <2>3, Zenon
<1>. QED
  BY <1>1, <1>2 DEF Changes, Kept, Ids

\* A fit whose handle is set.
LEMMA HandleSet ==
  ASSUME TypeOK, NEW f \in Ids, NEW how \in Handles,
         fits' = [fits EXCEPT ![f].handle = how]
  PROVE  Changes(f, how, fits[f].stage)
<1>. DEFINE e == [fits[f] EXCEPT !.handle = how]
<1>1. fits[f] \in Fit
  BY FitsType
<1>2. e \in Fit /\ e.handle = how /\ e.stage = fits[f].stage
      /\ e.program = fits[f].program /\ e.generation = fits[f].generation
      /\ e.task = fits[f].task
  BY <1>1 DEF Fit
<1>3. fits' = [fits EXCEPT ![f] = e]
  OBVIOUS
<1>. HIDE DEF e
<1>. QED
  BY <1>2, <1>3, Replaced

\* A fit whose stage is set.
LEMMA StageSet ==
  ASSUME TypeOK, NEW f \in Ids, NEW to \in Stages,
         fits' = [fits EXCEPT ![f].stage = to]
  PROVE  Changes(f, fits[f].handle, to)
<1>. DEFINE e == [fits[f] EXCEPT !.stage = to]
<1>1. fits[f] \in Fit
  BY FitsType
<1>2. e \in Fit /\ e.handle = fits[f].handle /\ e.stage = to
      /\ e.program = fits[f].program /\ e.generation = fits[f].generation
      /\ e.task = fits[f].task
  BY <1>1 DEF Fit
<1>3. fits' = [fits EXCEPT ![f] = e]
  OBVIOUS
<1>. HIDE DEF e
<1>. QED
  BY <1>2, <1>3, Replaced

\* A fit whose thread ends.
LEMMA Settled ==
  ASSUME TypeOK, NEW f \in Ids, NEW how \in Handles, Settles(f, how)
  PROVE  Changes(f, how, "gone")
<1>. DEFINE e == [fits[f] EXCEPT !.handle = how, !.stage = "gone"]
<1>1. fits[f] \in Fit
  BY FitsType
<1>2. e \in Fit /\ e.handle = how /\ e.stage = "gone"
      /\ e.program = fits[f].program /\ e.generation = fits[f].generation
      /\ e.task = fits[f].task
  BY <1>1 DEF Fit, Stages
<1>3. fits' = [fits EXCEPT ![f] = e]
  BY FitsType DEF Settles
<1>. HIDE DEF e
<1>. QED
  BY <1>2, <1>3, Replaced

\* cancel() leaves a fit alone or turns a running one.
LEMMA CancelChanges ==
  ASSUME TypeOK, NEW f \in Ids, Cancelled(f)
  PROVE  \/ UNCHANGED fits
         \/ fits[f].handle = "running"
            /\ Changes(f, "cancelling", fits[f].stage)
BY HandleSet DEF Cancelled, Handles

\* start_fit, in the run and the generation that are going on.
LEMMA StartAdds ==
  ASSUME TypeOK, RunInv, pc \in Working, StartsFit
  PROVE  Adds
<1>. DEFINE e == [program |-> active, generation |-> gen, task |-> task,
                  handle |-> "running", stage |-> "fitting"]
<1>1. active \in Programs /\ gen \in Generations /\ task \in Tasks
  BY DEF RunInv, Working
<1>2. e \in Fit
  BY <1>1 DEF Fit, Handles, Stages
<1>3. fits \in Seq(Fit) /\ Len(fits) \in Nat
  BY FitsType
<1>4. fits' = Append(fits, e)
  BY DEF StartsFit
<1>. HIDE DEF e
<1>5. fits' \in Seq(Fit) /\ Len(fits') = Len(fits) + 1
  BY <1>2, <1>3, <1>4
<1>6. \A g \in Ids : fits'[g] = fits[g]
  BY <1>2, <1>3, <1>4 DEF Ids
<1>7. fits'[Len(fits) + 1] = e
  BY <1>2, <1>3, <1>4
<1>. QED
  BY <1>3, <1>5, <1>6, <1>7 DEF Adds, Kept, e

\* The process is lost.
LEMMA ExitLoses ==
  ASSUME TypeOK, Exit
  PROVE  Loses
<1>1. fits \in Seq(Fit) /\ Len(fits) \in Nat
  BY FitsType
<1>. DEFINE e(f) == IF fits[f].handle = "completed" THEN fits[f]
                    ELSE [fits[f] EXCEPT !.handle = "lost", !.stage = "gone"]
<1>2. \A f \in 1..Len(fits) :
        /\ e(f) \in Fit
        /\ e(f).program = fits[f].program
        /\ e(f).generation = fits[f].generation
        /\ e(f).task = fits[f].task
        /\ IF fits[f].handle = "completed" THEN e(f) = fits[f]
           ELSE e(f).handle = "lost" /\ e(f).stage = "gone"
  <2>. SUFFICES ASSUME NEW f \in 1..Len(fits)
                PROVE  /\ e(f) \in Fit
                       /\ e(f).program = fits[f].program
                       /\ e(f).generation = fits[f].generation
                       /\ e(f).task = fits[f].task
                       /\ IF fits[f].handle = "completed" THEN e(f) = fits[f]
                          ELSE e(f).handle = "lost" /\ e(f).stage = "gone"
    OBVIOUS
  <2>1. fits[f] \in Fit
    BY FitsType DEF Ids
  <2>. QED
    BY <2>1 DEF Fit, Handles, Stages
<1>3. fits' = [f \in 1..Len(fits) |-> e(f)]
  BY DEF Exit, Ids
<1>. HIDE DEF e
<1>4. fits' \in [1..Len(fits) -> Fit]
  BY <1>2, <1>3
<1>5. fits' \in Seq(Fit)
  <2>1. Seq(Fit) = UNION {[1..n -> Fit] : n \in Nat}
    BY SeqDef, Zenon
  <2>2. [1..Len(fits) -> Fit] \in {[1..n -> Fit] : n \in Nat}
    BY <1>1, Zenon
  <2>. QED
    BY <1>4, <2>1, <2>2, Zenon
<1>6. Len(fits') = Len(fits)
  <2>1. DOMAIN fits' = 1..Len(fits) /\ DOMAIN fits' = 1..Len(fits')
        /\ Len(fits') \in Nat
    BY <1>4, <1>5, LenProperties, Zenon
  <2>. QED
    BY <1>1, <2>1
<1>. QED
  BY <1>1, <1>2, <1>3, <1>5, <1>6 DEF Loses, Kept, Ids

\* What each action of the owner thread does to its own fit.
LEMMA OwnerMoves ==
  ASSUME TypeOK, NEW f \in Ids
  PROVE  /\ SeesCancel(f) => Changes(f, "cancelled", "gone")
         /\ Passes(f) =>
              \/ fits[f].stage = "fitting"
                 /\ Changes(f, fits[f].handle, "staged")
              \/ fits[f].stage = "staged"
                 /\ Changes(f, fits[f].handle, "cleared")
         /\ Raises(f) => Changes(f, "failed", "gone")
         /\ Renames(f) => Changes(f, fits[f].handle, "renamed")
         /\ WritesManifest(f) => Changes(f, fits[f].handle, "listed")
         /\ WritesAlias(f) => Changes(f, fits[f].handle, "published")
         /\ Caches(f) => Changes(f, fits[f].handle, "cached")
         /\ Completes(f) => Changes(f, "completed", "gone")
<1>1. ASSUME SeesCancel(f) PROVE Changes(f, "cancelled", "gone")
  BY <1>1, Settled DEF SeesCancel, Handles
<1>2. ASSUME Passes(f)
      PROVE  \/ fits[f].stage = "fitting"
                /\ Changes(f, fits[f].handle, "staged")
             \/ fits[f].stage = "staged"
                /\ Changes(f, fits[f].handle, "cleared")
  BY <1>2, StageSet DEF Passes, Moves, Stages
<1>3. ASSUME Raises(f) PROVE Changes(f, "failed", "gone")
  BY <1>3, Settled DEF Raises, Handles
<1>4. ASSUME Renames(f) PROVE Changes(f, fits[f].handle, "renamed")
  BY <1>4, StageSet DEF Renames, Moves, Stages
<1>5. ASSUME WritesManifest(f) PROVE Changes(f, fits[f].handle, "listed")
  BY <1>5, StageSet DEF WritesManifest, Stages
<1>6. ASSUME WritesAlias(f) PROVE Changes(f, fits[f].handle, "published")
  BY <1>6, StageSet DEF WritesAlias, Moves, Stages
<1>7. ASSUME Caches(f) PROVE Changes(f, fits[f].handle, "cached")
  BY <1>7, StageSet DEF Caches, Moves, Stages
<1>8. ASSUME Completes(f) PROVE Changes(f, "completed", "gone")
  BY <1>8, Settled DEF Completes, Handles
<1>. QED
  BY <1>1, <1>2, <1>3, <1>4, <1>5, <1>6, <1>7, <1>8

\* No step of an owner thread touches another fit.
LEMMA OwnerChanges ==
  ASSUME TypeOK, NEW f \in Ids, Owner(f)
  PROVE  \E how \in Handles, to \in Stages : Changes(f, how, to)
<1>1. fits[f].handle \in Handles
  BY FitsType DEF Fit
<1>. QED
  BY <1>1, OwnerMoves DEF Owner, Handles, Stages

\* What a step of the main thread does to the fits: nothing, or it asks one
\* to stop, or it starts one.
Stays == UNCHANGED <<fits, artifacts, manifests, alias>>

Stops(f) ==
  /\ fits[f].handle = "running" /\ Changes(f, "cancelling", fits[f].stage)
  /\ UNCHANGED <<artifacts, manifests, alias, cache>>

Starts ==
  /\ Adds /\ pc \in Working /\ leased' = leased \cup {Len(fits) + 1}
  /\ UNCHANGED <<artifacts, manifests, alias, active, gen, cache, overtaken>>

\* Every step is of one of these kinds, or the process is lost, or an owner
\* thread takes it.
LEMMA StepFits ==
  ASSUME TypeOK, RunInv, [Next]_vars
  PROVE  \/ Stays \/ (\E f \in Ids : Stops(f)) \/ Starts
         \/ Exit \/ \E f \in Ids : Owner(f)
<1>. USE DEF disk, memory, callVars, runVars
<1>. SUFFICES ASSUME ~Exit, ~\E f \in Ids : Owner(f)
              PROVE  Stays \/ (\E f \in Ids : Stops(f)) \/ Starts
  OBVIOUS
<1>1. CASE UNCHANGED vars
  BY <1>1 DEF vars, Stays
<1>2. ASSUME NEW f \in Ids, Cancelled(f),
             UNCHANGED <<artifacts, manifests, alias, cache>>
      PROVE  Stays \/ Stops(f)
  BY <1>2, CancelChanges DEF Stays, Stops
<1>3. CASE Framework
  <2>1. CASE EnsureTrains
    BY <2>1, StartAdds DEF EnsureTrains, Unfit, StartsFit, Starts, Working
  <2>2. ASSUME NEW f \in Ids, CloseTurns(f)
        PROVE  Stays \/ Stops(f)
    BY <1>2, <2>2 DEF CloseTurns
  <2>. QED
    BY <1>3, <2>1, <2>2
    DEF Stays, Framework, BoundaryEnds, CloseReleases, RunOver, Joined, Looks,
        Lists, Stores, Returns, EnsureFinishes, BoundaryFinishes
<1>4. CASE Body
  <2>1. CASE StartFit \/ StartTraining
    BY <2>1, StartAdds
    DEF StartFit, StartTraining, StartsFit, Starts, Working
  <2>2. ASSUME NEW f \in Ids, Cancel(f) \/ FinishFit(f)
        PROVE  Stays \/ Stops(f)
    BY <1>2, <2>2 DEF Cancel, FinishFit, Stays
  <2>. QED
    BY <1>4, <2>1, <2>2
    DEF Stays, Body, Enter, BeginGeneration, LeaveRun, BodyReturns,
        FinishTraining
<1>. QED
  BY <1>1, <1>3, <1>4 DEF Next

\* No step forgets a fit or binds it to another program, task or generation.
LEMMA StepKeeps ==
  ASSUME TypeOK, RunInv, [Next]_vars
  PROVE  Kept
BY StepFits, UnchangedKeeps, ExitLoses, OwnerChanges
DEF Stays, Stops, Starts, Changes, Adds, Loses

-----------------------------------------------------------------------------
(* The steps, conjunct by conjunct.                                         *)

\* Every step keeps the types of files, fits, memory and calls.
LEMMA TypeOKStep ==
  Inv /\ [Next]_vars => TypeOK'
<1> SUFFICES ASSUME Inv, [Next]_vars PROVE TypeOK'
  OBVIOUS
<1>. USE FitsAssumption DEF disk, memory, callVars, runVars
<1>. DEFINE n == Len(fits)
            m == Len(fits')
            Before ==
       /\ active \in Programs \cup {NoProgram}
       /\ completion \in [program : Programs \cup {NoProgram},
                           generation : Generations]
       /\ artifacts \subseteq 1..n
       /\ manifests \subseteq 1..n
       /\ alias \in [Generations -> 0..n]
       /\ leased \subseteq 1..n /\ todo \subseteq leased
       /\ known \subseteq 1..n
       /\ pending \in [Programs -> 0..n]
       /\ cache \in [Programs -> 0..n]
       /\ overtaken \subseteq Programs
       /\ pc \in {"idle", "between", "body", "join", "look", "list",
                   "store", "served", "boundary", "close"}
       /\ call \in {"none", "own", "finish", "select", "ensure", "again",
                     "last"}
       /\ target \in 0..n /\ answer \in 0..n
       /\ gen \in 0..LastGeneration + 1 /\ task \in Tasks \cup {NoTask}
       /\ raised \in BOOLEAN
            After ==
       /\ active' \in Programs \cup {NoProgram}
       /\ completion' \in [program : Programs \cup {NoProgram},
                           generation : Generations]
       /\ artifacts' \subseteq 1..m
       /\ manifests' \subseteq 1..m
       /\ alias' \in [Generations -> 0..m]
       /\ leased' \subseteq 1..m /\ todo' \subseteq leased'
       /\ known' \subseteq 1..m
       /\ pending' \in [Programs -> 0..m]
       /\ cache' \in [Programs -> 0..m]
       /\ overtaken' \subseteq Programs
       /\ pc' \in {"idle", "between", "body", "join", "look", "list",
                   "store", "served", "boundary", "close"}
       /\ call' \in {"none", "own", "finish", "select", "ensure", "again",
                     "last"}
       /\ target' \in 0..m /\ answer' \in 0..m
       /\ gen' \in 0..LastGeneration + 1 /\ task' \in Tasks \cup {NoTask}
       /\ raised' \in BOOLEAN
<1>0. TypeOK /\ RunInv
  BY DEF Inv
<1>1. Before
  BY <1>0 DEF TypeOK, Ids, n
<1>2. n \in Nat /\ m \in Nat /\ n <= m
  BY <1>0, StepKeeps DEF Kept
<1>3. UNCHANGED fits => m = n
  OBVIOUS
<1>. HIDE DEF n, m
<1>4. /\ 1..n \subseteq 1..m
      /\ 0..n \subseteq 0..m
      /\ [Programs -> 0..n] \subseteq [Programs -> 0..m]
      /\ [Generations -> 0..n] \subseteq [Generations -> 0..m]
  BY <1>2
<1>. SUFFICES After
  BY <1>0, StepKeeps DEF TypeOK, Ids, Kept, Fit, Handles, Stages, m
<1>5. CASE UNCHANGED vars
  BY <1>1, <1>3, <1>5 DEF vars
<1>6. CASE Framework
  <2>1. CASE BoundaryEnds
    <3>1. gen \in Generations /\ todo = {}
      BY <1>0, <2>1 DEF BoundaryEnds, RunInv
    <3>2. completion' \in [program : Programs \cup {NoProgram},
                          generation : Generations]
      BY <1>1, <2>1, <3>1 DEF BoundaryEnds
    <3>3. gen' \in 0..LastGeneration + 1
      BY <1>1, <2>1, <3>1 DEF BoundaryEnds, Generations
    <3>. QED
      BY <1>1, <1>3, <2>1, <3>1, <3>2, <3>3 DEF BoundaryEnds
  <2>2. CASE CloseReleases
    <3>1. todo = {}
      BY <1>0, <2>2 DEF CloseReleases, RunInv
    <3>. QED
      BY <1>1, <1>2, <1>3, <2>2, <3>1 DEF CloseReleases
  <2>3. CASE RunOver
    BY <1>1, <1>3, <1>2, <2>3 DEF RunOver
  <2>4. CASE Joined
    <3>1. todo = {}
      BY <1>0, <2>4 DEF Joined, RunInv
    <3>2. pending' \in [Programs -> 0..m]
      BY <1>1, <1>2, <1>3, <2>4 DEF Joined
    <3>3. call' \in {"again", "none"} /\ pc' \in {"look", "body"}
      BY <2>4 DEF Joined
    <3>. QED
      BY <1>1, <1>2, <1>3, <2>4, <3>1, <3>2, <3>3 DEF Joined
  <2>5. CASE Looks
    BY <1>0, <1>1, <1>3, <2>5 DEF Looks, RunInv, Working, Ids, n
  <2>6. CASE Lists
    <3>1. answer' \in 0..m
      <4>1. answer \in 0..n /\ manifests \subseteq 1..n
        BY <1>1
      <4>2. CASE answer' = answer
        BY <1>2, <4>1, <4>2
      <4>3. CASE answer' \in manifests
        BY <1>2, <4>1, <4>3
      <4>. QED
        BY <2>6, <4>2, <4>3 DEF Lists, Newest
    <3>2. pc' \in {"served", "store"}
      BY <2>6 DEF Lists
    <3>. QED
      BY <1>1, <1>3, <2>6, <3>1, <3>2 DEF Lists
  <2>7. CASE Stores
    BY <1>0, <1>1, <1>3, <2>7 DEF Stores, RunInv, Working
  <2>8. CASE Returns
    BY <1>1, <1>3, <1>2, <2>8 DEF Returns
  <2>9. CASE EnsureFinishes
    <3>1. active \in Programs
      BY <1>0, <2>9 DEF EnsureFinishes, Unfit, RunInv
    <3>2. pending[active] \in 0..n
      BY <1>1, <3>1
    <3>. QED
      BY <1>1, <1>2, <1>3, <2>9, <3>2 DEF EnsureFinishes
  <2>10. CASE EnsureTrains
    <3>1. Adds
      BY <1>0, <2>10, StartAdds DEF EnsureTrains, Unfit, Working
    <3>2. m = n + 1
      BY <3>1 DEF Adds, n, m
    <3>3. leased' \subseteq 1..m
      <4>1. leased' = leased \cup {n + 1}
        BY <2>10, Zenon DEF EnsureTrains, StartsFit, n
      <4>2. leased \subseteq 1..n
        BY <1>1
      <4>. QED
        BY <1>2, <3>2, <4>1, <4>2
    <3>4. pending' \in [Programs -> 0..m]
      <4>1. pending' = [pending EXCEPT ![active] = n + 1]
        BY <2>10, Zenon DEF EnsureTrains, n
      <4>2. pending \in [Programs -> 0..m]
        BY <1>1, <1>4
      <4>3. n + 1 \in 0..m
        BY <1>2, <3>2
      <4>. QED
        BY <4>1, <4>2, <4>3
    <3>. QED
      BY <1>0, <1>1, <1>2, <1>4, <2>10, <3>2, <3>3, <3>4
      DEF EnsureTrains, Unfit, n, RunInv, Working
  <2>11. ASSUME NEW f \in Ids, BoundaryFinishes(f)
        PROVE  After
    BY <1>1, <1>3, <1>2, <2>11 DEF BoundaryFinishes
  <2>12. ASSUME NEW f \in Ids, CloseTurns(f)
        PROVE  After
    BY <1>1, <1>2, <2>12 DEF CloseTurns, Ids, n
  <2>. QED
    BY <1>6, <2>1, <2>2, <2>3, <2>4, <2>5, <2>6, <2>7, <2>8, <2>9, <2>10,
       <2>11, <2>12
    DEF Framework
<1>7. CASE Body
  <2>1. ASSUME NEW p \in Programs, NEW g \in Generations, Enter(p, g)
        PROVE  After
    <3>1. /\ pending' \in [Programs -> 0..m]
          /\ cache' \in [Programs -> 0..m]
          /\ overtaken' \subseteq Programs
      BY <1>1, <1>2, <2>1 DEF Enter, Activates, Deactivates
    <3>. QED
      BY <1>1, <1>3, <2>1, <3>1 DEF Enter, Activates, Generations
  <2>2. ASSUME NEW t \in Tasks, BeginGeneration(t)
        PROVE  After
    BY <1>1, <1>3, <1>2, <2>2 DEF BeginGeneration
  <2>3. CASE LeaveRun
    BY <1>1, <1>3, <1>2, <2>3 DEF LeaveRun
  <2>4. CASE BodyReturns
    BY <1>1, <1>3, <1>2, <2>4 DEF BodyReturns
  <2>5. CASE FinishTraining
    BY <1>0, <1>1, <1>3, <1>2, <2>5 DEF FinishTraining, RunInv, Working
  <2>6. CASE StartFit
    <3>1. Adds
      BY <1>0, <2>6, StartAdds DEF StartFit, Working
    <3>2. m = n + 1
      BY <3>1 DEF Adds, n, m
    <3>3. leased' \subseteq 1..m
      <4>1. leased' = leased \cup {n + 1}
        BY <2>6, Zenon DEF StartFit, StartsFit, n
      <4>2. leased \subseteq 1..n
        BY <1>1
      <4>. QED
        BY <1>2, <3>2, <4>1, <4>2
    <3>. QED
      BY <1>0, <1>1, <1>2, <1>4, <2>6, <3>2, <3>3
      DEF StartFit, RunInv, Working
  <2>7. CASE StartTraining
    <3>1. Adds
      BY <1>0, <2>7, StartAdds DEF StartTraining, Working
    <3>2. m = n + 1
      BY <3>1 DEF Adds, n, m
    <3>3. leased' \subseteq 1..m
      <4>1. leased' = leased \cup {n + 1}
        BY <2>7, Zenon DEF StartTraining, StartsFit, n
      <4>2. leased \subseteq 1..n
        BY <1>1
      <4>. QED
        BY <1>2, <3>2, <4>1, <4>2
    <3>4. pending' \in [Programs -> 0..m]
      <4>1. pending' = [pending EXCEPT ![active] = n + 1]
        BY <2>7, Zenon DEF StartTraining, n
      <4>2. pending \in [Programs -> 0..m]
        BY <1>1, <1>4
      <4>3. n + 1 \in 0..m
        BY <1>2, <3>2
      <4>. QED
        BY <4>1, <4>2, <4>3
    <3>. QED
      BY <1>0, <1>1, <1>2, <1>4, <2>7, <3>2, <3>3, <3>4
      DEF StartTraining, RunInv, Working
  <2>8. ASSUME NEW f \in Ids, Cancel(f)
        PROVE  After
    BY <1>1, <1>2, <2>8 DEF Cancel, Ids, n
  <2>9. ASSUME NEW f \in Ids, FinishFit(f)
        PROVE  After
    BY <1>1, <1>2, <2>9 DEF FinishFit, Ids, n
  <2>. QED
    BY <1>7, <2>1, <2>2, <2>3, <2>4, <2>5, <2>6, <2>7, <2>8, <2>9 DEF Body
<1>8. CASE Exit
  <2>1. m = n
    BY <1>0, <1>8, ExitLoses DEF Loses, n, m
  <2>2. /\ pending' = [p \in Programs |-> 0] /\ cache' = [p \in Programs |-> 0]
        /\ leased' = {} /\ todo' = {} /\ raised' = FALSE /\ overtaken' = {}
        /\ pc' = "idle" /\ call' = "none" /\ target' = 0 /\ answer' = 0
        /\ known' = {} /\ gen' = 0 /\ task' = NoTask /\ UNCHANGED disk
    BY <1>8, Zenon DEF Exit
  <2>3. /\ pending' \in [Programs -> 0..m]
        /\ cache' \in [Programs -> 0..m]
    BY <1>2, <2>2
  <2>. QED
    <3>1. /\ active' \in Programs \cup {NoProgram}
          /\ completion' \in [program : Programs \cup {NoProgram},
                              generation : Generations]
          /\ artifacts' \subseteq 1..m
          /\ manifests' \subseteq 1..m
          /\ alias' \in [Generations -> 0..m]
      BY <1>1, <2>1, <2>2
    <3>2. 0 \in 0..m /\ 0 \in 0..LastGeneration + 1
      BY <1>2
    <3>. QED
      BY <2>2, <2>3, <3>1, <3>2
<1>9. ASSUME NEW f \in Ids, Owner(f)
      PROVE  After
  <2>0. f \in 1..n /\ m = n
    BY <1>0, <1>9, OwnerChanges DEF Changes, Ids, n, m
  <2>1. CASE SeesCancel(f)
    BY <1>1, <1>2, <2>1 DEF SeesCancel
  <2>2. CASE Passes(f)
    BY <1>1, <1>2, <2>2 DEF Passes
  <2>3. CASE Raises(f)
    BY <1>1, <1>2, <2>3 DEF Raises
  <2>4. CASE Renames(f)
    BY <1>1, <1>2, <2>4 DEF Renames, Ids, n
  <2>5. CASE WritesManifest(f)
    BY <1>1, <1>2, <2>5 DEF WritesManifest, Ids, n
  <2>6. CASE WritesAlias(f)
    <3>1. alias' \in [Generations -> 0..m]
      <4>1. alias' = [alias EXCEPT ![fits[f].generation] = f]
        BY <2>6, Zenon DEF WritesAlias
      <4>2. alias \in [Generations -> 0..m]
        BY <1>1, <2>0
      <4>3. f \in 0..m
        BY <1>2, <2>0
      <4>. QED
        BY <4>1, <4>2, <4>3
    <3>. QED
      BY <1>1, <2>0, <2>6, <3>1 DEF WritesAlias
  <2>7. CASE Caches(f)
    <3>1. cache' \in [Programs -> 0..m]
      BY <1>1, <1>2, <2>0, <2>7 DEF Caches
    <3>2. overtaken' \subseteq Programs
      BY <1>1, <2>7 DEF Caches
    <3>. QED
      BY <1>1, <2>0, <2>7, <3>1, <3>2 DEF Caches
  <2>8. CASE Completes(f)
    BY <1>1, <1>2, <2>8 DEF Completes
  <2>. QED
    BY <1>9, <2>1, <2>2, <2>3, <2>4, <2>5, <2>6, <2>7, <2>8 DEF Owner
<1>. QED
  BY <1>5, <1>6, <1>7, <1>8, <1>9 DEF Next

\* Every step keeps whose handles are left and where the run is.
LEMMA RunInvStep ==
  Inv /\ [Next]_vars => RunInv'
<1> SUFFICES ASSUME Inv, [Next]_vars PROVE RunInv'
  OBVIOUS
<1>. USE DEF disk, memory, callVars, runVars, RunInv, Working
<1>0. RunInv
  BY DEF Inv
<1>1. gen \in 0..LastGeneration + 1 /\ LastGeneration \in Nat
  BY FitsAssumption DEF Inv, TypeOK
<1>2. CASE UNCHANGED vars
  BY <1>0, <1>2 DEF vars
<1>3. CASE Framework
  <2>1. CASE BoundaryEnds
    BY <1>0, <2>1 DEF BoundaryEnds
  <2>2. CASE CloseReleases
    BY <1>0, <2>2 DEF CloseReleases
  <2>3. CASE RunOver
    BY <1>0, <2>3 DEF RunOver
  <2>4. CASE Joined
    BY <1>0, <2>4 DEF Joined
  <2>5. CASE Looks
    BY <1>0, <2>5 DEF Looks
  <2>6. CASE Lists
    BY <1>0, <2>6 DEF Lists
  <2>7. CASE Stores
    BY <1>0, <2>7 DEF Stores
  <2>8. CASE Returns
    BY <1>0, <2>8 DEF Returns
  <2>9. CASE EnsureFinishes
    BY <1>0, <2>9 DEF EnsureFinishes, Unfit
  <2>10. CASE EnsureTrains
    BY <1>0, <2>10 DEF EnsureTrains, Unfit, StartsFit
  <2>11. ASSUME NEW f \in Ids, BoundaryFinishes(f)
        PROVE  RunInv'
    BY <1>0, <2>11 DEF BoundaryFinishes
  <2>12. ASSUME NEW f \in Ids, CloseTurns(f)
        PROVE  RunInv'
    BY <1>0, <2>12 DEF CloseTurns
  <2>. QED
    BY <1>3, <2>1, <2>2, <2>3, <2>4, <2>5, <2>6, <2>7, <2>8, <2>9, <2>10,
       <2>11, <2>12
    DEF Framework
<1>4. CASE Body
  <2>1. ASSUME NEW p \in Programs, NEW g \in Generations, Enter(p, g)
        PROVE  RunInv'
    BY <1>0, <2>1 DEF Enter, Activates
  <2>2. ASSUME NEW t \in Tasks, BeginGeneration(t)
        PROVE  RunInv'
    <3>1. gen \in Generations
      BY <1>1, <2>2 DEF BeginGeneration, RunHasNext, Generations
    <3>. QED
      BY <1>0, <2>2, <3>1 DEF BeginGeneration
  <2>3. CASE LeaveRun
    BY <1>0, <2>3 DEF LeaveRun
  <2>4. CASE BodyReturns
    BY <1>0, <2>4 DEF BodyReturns
  <2>5. CASE StartFit
    BY <1>0, <2>5 DEF StartFit, StartsFit
  <2>6. CASE StartTraining
    BY <1>0, <2>6 DEF StartTraining, StartsFit
  <2>7. CASE FinishTraining
    BY <1>0, <2>7 DEF FinishTraining
  <2>8. ASSUME NEW f \in Ids, Cancel(f)
        PROVE  RunInv'
    BY <1>0, <2>8 DEF Cancel
  <2>9. ASSUME NEW f \in Ids, FinishFit(f)
        PROVE  RunInv'
    BY <1>0, <2>9 DEF FinishFit
  <2>. QED
    BY <1>4, <2>1, <2>2, <2>3, <2>4, <2>5, <2>6, <2>7, <2>8, <2>9 DEF Body
<1>5. CASE Exit
  BY <1>5 DEF Exit
<1>6. ASSUME NEW f \in Ids, Owner(f)
      PROVE  RunInv'
  BY <1>0, <1>6
  DEF Owner, SeesCancel, Passes, Raises, Renames, WritesManifest, WritesAlias,
      Caches, Completes
<1>. QED
  BY <1>2, <1>3, <1>4, <1>5, <1>6 DEF Next

\* Unless the process is lost, the handle of a fit at work stays registered
\* and neither the program nor the generation of the run changes.
LEMMA StepBinds ==
  ASSUME Inv, [Next]_vars, ~Exit, NEW x \in Ids, Running(x)
  PROVE  x \in leased' /\ active' = active /\ gen' = gen
<1>. USE DEF disk, memory, callVars, runVars
<1>0. /\ x \in leased /\ leased # {} /\ pc # "idle"
      /\ pc = "boundary" => todo # {}
  BY DEF Inv, FitInv, RunInv
<1>1. CASE UNCHANGED vars
  BY <1>0, <1>1 DEF vars
<1>2. CASE Framework
  <2>1. CASE BoundaryEnds
    BY <1>0, <2>1 DEF BoundaryEnds
  <2>2. CASE CloseReleases
    BY <1>0, <2>2 DEF CloseReleases
  <2>3. CASE RunOver
    BY <1>0, <2>3 DEF RunOver
  <2>4. CASE Joined
    BY <1>0, <2>4 DEF Joined
  <2>5. CASE Looks
    BY <1>0, <2>5 DEF Looks
  <2>6. CASE Lists
    BY <1>0, <2>6 DEF Lists
  <2>7. CASE Stores
    BY <1>0, <2>7 DEF Stores
  <2>8. CASE Returns
    BY <1>0, <2>8 DEF Returns
  <2>9. CASE EnsureFinishes
    BY <1>0, <2>9 DEF EnsureFinishes, Unfit
  <2>10. CASE EnsureTrains
    BY <1>0, <2>10 DEF EnsureTrains, StartsFit
  <2>11. ASSUME NEW f \in Ids, BoundaryFinishes(f)
        PROVE  x \in leased' /\ active' = active /\ gen' = gen
    BY <1>0, <2>11 DEF BoundaryFinishes
  <2>12. ASSUME NEW f \in Ids, CloseTurns(f)
        PROVE  x \in leased' /\ active' = active /\ gen' = gen
    BY <1>0, <2>12 DEF CloseTurns
  <2>. QED
    BY <1>2, <2>1, <2>2, <2>3, <2>4, <2>5, <2>6, <2>7, <2>8, <2>9, <2>10,
       <2>11, <2>12
    DEF Framework
<1>3. CASE Body
  <2>1. ASSUME NEW p \in Programs, NEW g \in Generations, Enter(p, g)
        PROVE  x \in leased' /\ active' = active /\ gen' = gen
    BY <1>0, <2>1 DEF Enter
  <2>2. ASSUME NEW t \in Tasks, BeginGeneration(t)
        PROVE  x \in leased' /\ active' = active /\ gen' = gen
    BY <1>0, <2>2 DEF BeginGeneration
  <2>3. CASE LeaveRun
    BY <1>0, <2>3 DEF LeaveRun
  <2>4. CASE BodyReturns
    BY <1>0, <2>4 DEF BodyReturns
  <2>5. CASE StartFit
    BY <1>0, <2>5 DEF StartFit, StartsFit
  <2>6. CASE StartTraining
    BY <1>0, <2>6 DEF StartTraining, StartsFit
  <2>7. CASE FinishTraining
    BY <1>0, <2>7 DEF FinishTraining
  <2>8. ASSUME NEW f \in Ids, Cancel(f)
        PROVE  x \in leased' /\ active' = active /\ gen' = gen
    BY <1>0, <2>8 DEF Cancel
  <2>9. ASSUME NEW f \in Ids, FinishFit(f)
        PROVE  x \in leased' /\ active' = active /\ gen' = gen
    BY <1>0, <2>9 DEF FinishFit
  <2>. QED
    BY <1>3, <2>1, <2>2, <2>3, <2>4, <2>5, <2>6, <2>7, <2>8, <2>9 DEF Body
<1>4. ASSUME NEW f \in Ids, Owner(f)
      PROVE  x \in leased' /\ active' = active /\ gen' = gen
  BY <1>0, <1>4
  DEF Owner, SeesCancel, Passes, Raises, Renames, WritesManifest, WritesAlias,
      Caches, Completes
<1>. QED
  BY <1>1, <1>2, <1>3, <1>4 DEF Next

\* Every step keeps a fit at work bound to the run that is going on.
LEMMA FitInvStep ==
  Inv /\ [Next]_vars => FitInv'
<1> SUFFICES ASSUME Inv, [Next]_vars PROVE FitInv'
  OBVIOUS
<1>0. TypeOK /\ RunInv /\ FitInv
  BY DEF Inv
<1>1. Kept /\ Len(fits) \in Nat
  BY <1>0, StepKeeps DEF Kept
<1>. SUFFICES ASSUME NEW x \in Ids'
              PROVE  /\ Running(x)' <=> fits'[x].stage # "gone"
                     /\ Running(x)' =>
                          /\ x \in leased' /\ fits'[x].program = active'
                          /\ \A g \in x..Len(fits') :
                               fits'[g].generation = gen'
  BY DEF FitInv
<1>2. ASSUME NEW y \in Ids, Running(y), ~Exit
      PROVE  /\ y \in leased' /\ fits[y].program = active'
             /\ \A g \in y..Len(fits) : fits[g].generation = gen'
  BY <1>0, <1>2, StepBinds DEF FitInv
<1>3. ASSUME Len(fits') = Len(fits), ~Exit, Running(x)
      PROVE  /\ x \in leased' /\ fits'[x].program = active'
             /\ \A g \in x..Len(fits') : fits'[g].generation = gen'
  BY <1>1, <1>2, <1>3 DEF Kept, Ids
<1>4. CASE Exit
  BY <1>0, <1>4, ExitLoses DEF Loses, Running, Ids, FitInv
<1>5. CASE Stays /\ ~Exit
  BY <1>0, <1>3, <1>5 DEF Stays, Running, Ids, FitInv
<1>6. ASSUME NEW f \in Ids, ~Exit, Running(f), NEW how, NEW to,
             Changes(f, how, to),
             how \in {"running", "cancelling"} <=> to # "gone"
      PROVE  /\ Running(x)' <=> fits'[x].stage # "gone"
             /\ Running(x)' =>
                  /\ x \in leased' /\ fits'[x].program = active'
                  /\ \A g \in x..Len(fits') : fits'[g].generation = gen'
  <2>1. x \in Ids /\ Len(fits') = Len(fits)
    BY <1>6 DEF Changes, Ids
  <2>2. CASE x = f
    BY <1>3, <1>6, <2>1, <2>2 DEF Changes, Running
  <2>3. CASE x # f
    BY <1>0, <1>3, <1>6, <2>1, <2>3 DEF Changes, Running, FitInv
  <2>. QED
    BY <2>2, <2>3
<1>7. ASSUME NEW f \in Ids, Stops(f), ~Exit
      PROVE  /\ Running(x)' <=> fits'[x].stage # "gone"
             /\ Running(x)' =>
                  /\ x \in leased' /\ fits'[x].program = active'
                  /\ \A g \in x..Len(fits') : fits'[g].generation = gen'
  <2>1. Running(f) /\ fits[f].stage # "gone"
    BY <1>0, <1>7 DEF Stops, Running, FitInv
  <2>. QED
    BY <1>6, <1>7, <2>1 DEF Stops
<1>8. CASE Starts /\ ~Exit
  <2>1. CASE x \in Ids
    BY <1>0, <1>1, <1>2, <1>8, <2>1
    DEF Starts, Adds, Kept, Running, FitInv, Ids
  <2>2. CASE x = Len(fits) + 1
    BY <1>1, <1>8, <2>2 DEF Starts, Adds, Running
  <2>. QED
    BY <1>1, <1>8, <2>1, <2>2 DEF Starts, Adds, Ids
<1>9. ASSUME NEW f \in Ids, Owner(f), ~Exit
      PROVE  /\ Running(x)' <=> fits'[x].stage # "gone"
             /\ Running(x)' =>
                  /\ x \in leased' /\ fits'[x].program = active'
                  /\ \A g \in x..Len(fits') : fits'[g].generation = gen'
  <2>1. Running(f)
    BY <1>0, <1>9
    DEF Owner, SeesCancel, Passes, Raises, Renames, WritesManifest,
        WritesAlias, Caches, Completes, Moves, Checked, MayList, FitInv,
        Running
  <2>2. fits[f].handle \in {"running", "cancelling"}
    BY <2>1 DEF Running
  <2>3. \E how, to : /\ Changes(f, how, to)
                     /\ how \in {"running", "cancelling"} <=> to # "gone"
    BY <1>0, <1>9, <2>2, OwnerMoves DEF Owner
  <2>. QED
    BY <1>6, <1>9, <2>1, <2>3
<1>. QED
  BY <1>0, <1>4, <1>5, <1>7, <1>8, <1>9, StepFits

\* Every step keeps disk and stage of a fit in line.
LEMMA DiskInvStep ==
  Inv /\ [Next]_vars => DiskInv'
<1> SUFFICES ASSUME Inv, [Next]_vars PROVE DiskInv'
  OBVIOUS
<1>. USE DEF disk
<1>0. TypeOK /\ RunInv /\ FitInv /\ DiskInv
  BY DEF Inv
<1>1. artifacts \subseteq Ids /\ manifests \subseteq Ids /\ Len(fits) \in Nat
  BY <1>0, FitsType DEF TypeOK
<1>. SUFFICES ASSUME NEW x \in Ids'
              PROVE  DiskOf(x)'
  BY DEF DiskInv, DiskOf
<1>2. \A f \in Ids : DiskOf(f)
  BY <1>0 DEF DiskInv, DiskOf
<1>3. CASE Stays
  BY <1>2, <1>3 DEF Stays, DiskOf, Ids
<1>4. ASSUME NEW f \in Ids, Stops(f)
      PROVE  DiskOf(x)'
  <2>1. x \in Ids
    BY <1>4 DEF Stops, Changes, Ids
  <2>. QED
    BY <1>2, <1>4, <2>1 DEF Stops, Changes, DiskOf
<1>5. CASE Starts
  <2>1. x \in Ids \/ x = Len(fits) + 1
    BY <1>1, <1>5 DEF Starts, Adds, Ids
  <2>2. Len(fits) + 1 \notin artifacts
    BY <1>1 DEF Ids
  <2>. QED
    BY <1>2, <1>5, <2>1, <2>2 DEF Starts, Adds, DiskOf
<1>6. CASE Exit
  <2>1. x \in Ids /\ UNCHANGED disk
    BY <1>0, <1>6, ExitLoses DEF Loses, Ids, Exit
  <2>. QED
    BY <1>0, <1>2, <1>6, <2>1, ExitLoses DEF Loses, DiskOf
<1>7. ASSUME NEW f \in Ids, Owner(f)
      PROVE  DiskOf(x)'
  <2>0. x \in Ids
    BY <1>0, <1>7, OwnerChanges DEF Changes, Ids
  <2>1. DiskOf(x) /\ DiskOf(f)
    BY <1>2, <2>0
  <2>2. fits[f].stage # "gone" => fits[f].handle \in {"running", "cancelling"}
    BY <1>0 DEF FitInv, Running
  <2>. USE <1>0, <2>0, <2>1, <2>2, OwnerMoves DEF Changes, Moves, DiskOf
  <2>3. CASE SeesCancel(f)
    BY <2>3 DEF SeesCancel, Checked
  <2>4. CASE Passes(f)
    BY <2>4 DEF Passes
  <2>5. CASE Raises(f)
    BY <2>5 DEF Raises
  <2>6. CASE Renames(f)
    BY <2>6 DEF Renames
  <2>7. CASE WritesManifest(f)
    BY <2>7 DEF WritesManifest, MayList
  <2>8. CASE WritesAlias(f)
    BY <2>8 DEF WritesAlias
  <2>9. CASE Caches(f)
    BY <2>9 DEF Caches
  <2>10. CASE Completes(f)
    BY <2>10 DEF Completes
  <2>. QED
    BY <1>7, <2>3, <2>4, <2>5, <2>6, <2>7, <2>8, <2>9, <2>10 DEF Owner
<1>. QED
  BY <1>0, <1>3, <1>4, <1>5, <1>6, <1>7, StepFits

\* Files are only added.
LEMMA StepFiles ==
  ASSUME TypeOK, RunInv, [Next]_vars
  PROVE  manifests \subseteq manifests' /\ artifacts \subseteq artifacts'
<1>1. CASE \E f \in Ids : Owner(f)
  BY <1>1
  DEF Owner, SeesCancel, Passes, Raises, Renames, WritesManifest, WritesAlias,
      Caches, Completes, disk
<1>2. CASE Exit
  BY <1>2 DEF Exit, disk
<1>. QED
  BY <1>1, <1>2, StepFits DEF Stays, Stops, Starts

\* What completed stays completed.
LEMMA StepCompleted ==
  ASSUME Inv, [Next]_vars, NEW x \in Ids, fits[x].handle = "completed"
  PROVE  fits'[x].handle = "completed"
<1>0. TypeOK /\ RunInv /\ fits[x].stage = "gone"
  BY DEF Inv, FitInv, Running
<1>1. ASSUME NEW f \in Ids, Owner(f)
      PROVE  fits'[x].handle = "completed"
  <2>1. fits[f].stage # "gone" /\ f # x
    BY <1>0, <1>1
    DEF Owner, SeesCancel, Passes, Raises, Renames, WritesManifest,
        WritesAlias, Caches, Completes, Moves, Checked, MayList
  <2>. QED
    BY <1>0, <1>1, <2>1, OwnerChanges DEF Changes
<1>. QED
  BY <1>0, <1>1, StepFits, ExitLoses
  DEF Stays, Stops, Starts, Changes, Adds, Loses

\* Most steps leave the files alone, and memory and answer too unless they
\* drop them.
Still ==
  /\ UNCHANGED <<artifacts, manifests, alias>>
  /\ UNCHANGED <<cache, overtaken>> \/ cache' = [q \in Programs |-> 0]
  /\ known' \subseteq known
  /\ answer' # 0 \/ pc' \in {"store", "served"} =>
       UNCHANGED <<pc, answer, known, active, task>>

\* The steps that do not are these.
LEMMA StepStill ==
  ASSUME Inv, [Next]_vars
  PROVE  \/ Still \/ Looks \/ Lists \/ Stores \/ Exit
         \/ \E f \in Ids : \/ Renames(f) \/ WritesManifest(f)
                           \/ WritesAlias(f) \/ Caches(f)
<1>. USE DEF disk, memory, callVars, runVars, Still
<1>0. answer # 0 => pc \in {"store", "served"}
  BY DEF Inv, FoundInv
<1>. SUFFICES ASSUME ~Looks, ~Lists, ~Stores, ~Exit,
                     ~\E f \in Ids : \/ Renames(f) \/ WritesManifest(f)
                                     \/ WritesAlias(f) \/ Caches(f)
              PROVE  Still
  OBVIOUS
<1>1. CASE UNCHANGED vars
  BY <1>1 DEF vars
<1>2. CASE Framework
  <2>1. CASE BoundaryEnds
    BY <1>0, <2>1 DEF BoundaryEnds
  <2>2. CASE CloseReleases
    BY <1>0, <2>2 DEF CloseReleases
  <2>3. CASE RunOver
    BY <1>0, <2>3 DEF RunOver
  <2>4. CASE Joined
    BY <1>0, <2>4 DEF Joined
  <2>5. CASE Returns
    BY <1>0, <2>5 DEF Returns
  <2>6. CASE EnsureFinishes
    BY <1>0, <2>6 DEF EnsureFinishes
  <2>7. CASE EnsureTrains
    BY <1>0, <2>7 DEF EnsureTrains, StartsFit
  <2>8. ASSUME NEW f \in Ids, BoundaryFinishes(f)
        PROVE  Still
    BY <1>0, <2>8 DEF BoundaryFinishes
  <2>9. ASSUME NEW f \in Ids, CloseTurns(f)
        PROVE  Still
    BY <1>0, <2>9 DEF CloseTurns
  <2>. QED
    BY <1>2, <2>1, <2>2, <2>3, <2>4, <2>5, <2>6, <2>7, <2>8, <2>9 DEF Framework
<1>3. CASE Body
  <2>1. ASSUME NEW p \in Programs, NEW g \in Generations, Enter(p, g)
        PROVE  Still
    BY <1>0, <2>1 DEF Enter, Activates, Deactivates
  <2>2. ASSUME NEW t \in Tasks, BeginGeneration(t)
        PROVE  Still
    BY <1>0, <2>2 DEF BeginGeneration
  <2>3. CASE LeaveRun
    BY <1>0, <2>3 DEF LeaveRun
  <2>4. CASE BodyReturns
    BY <1>0, <2>4 DEF BodyReturns
  <2>5. CASE StartFit
    BY <1>0, <2>5 DEF StartFit, StartsFit
  <2>6. CASE StartTraining
    BY <1>0, <2>6 DEF StartTraining, StartsFit
  <2>7. CASE FinishTraining
    BY <1>0, <2>7 DEF FinishTraining
  <2>8. ASSUME NEW f \in Ids, Cancel(f)
        PROVE  Still
    BY <1>0, <2>8 DEF Cancel
  <2>9. ASSUME NEW f \in Ids, FinishFit(f)
        PROVE  Still
    BY <1>0, <2>9 DEF FinishFit
  <2>. QED
    BY <1>3, <2>1, <2>2, <2>3, <2>4, <2>5, <2>6, <2>7, <2>8, <2>9 DEF Body
<1>4. ASSUME NEW f \in Ids, Owner(f)
      PROVE  Still
  BY <1>4 DEF Owner, SeesCancel, Passes, Raises, Completes
<1>. QED
  BY <1>1, <1>2, <1>3, <1>4 DEF Next

\* Every step keeps what a selection counts on completed.
LEMMA KnownInvStep ==
  Inv /\ [Next]_vars => KnownInv'
<1> SUFFICES ASSUME Inv, [Next]_vars, NEW x \in known'
             PROVE  fits'[x].handle = "completed"
  BY DEF KnownInv
<1>0. KnownInv /\ known \subseteq Ids
  BY DEF Inv, TypeOK
<1>1. x \in known \/ (x \in Ids /\ fits[x].handle = "completed")
  <2>1. CASE Still
    BY <2>1 DEF Still
  <2>2. CASE Looks
    BY <2>2 DEF Looks
  <2>3. CASE Lists \/ Stores \/ Exit
    BY <2>3 DEF Lists, Stores, Exit, callVars
  <2>4. ASSUME NEW f \in Ids,
               Renames(f) \/ WritesManifest(f) \/ WritesAlias(f) \/ Caches(f)
        PROVE  x \in known
    BY <2>4 DEF Renames, WritesManifest, WritesAlias, Caches, callVars
  <2>. QED
    BY <2>1, <2>2, <2>3, <2>4, StepStill
<1>2. x \in Ids /\ fits[x].handle = "completed"
  BY <1>0, <1>1 DEF KnownInv
<1>. QED
  BY <1>2, StepCompleted

\* Every step keeps what can be found whole.
LEMMA FoundInvStep ==
  Inv /\ [Next]_vars => FoundInv'
<1> SUFFICES ASSUME Inv, [Next]_vars PROVE FoundInv'
  OBVIOUS
<1>. USE DEF disk, memory, callVars, runVars
<1>0. TypeOK /\ RunInv /\ FitInv /\ DiskInv /\ FoundInv
  BY DEF Inv
<1>1. Kept
  BY <1>0, StepKeeps
<1>2. \A g \in Ids : /\ fits'[g].program = fits[g].program
                     /\ fits'[g].generation = fits[g].generation
                     /\ fits'[g].task = fits[g].task
  BY <1>1 DEF Kept
<1>3. /\ manifests \subseteq artifacts /\ manifests \subseteq Ids
      /\ \A g \in Generations : alias[g] # 0 =>
           alias[g] \in manifests /\ fits[alias[g]].generation = g
      /\ \A p \in Programs : cache[p] # 0 =>
           cache[p] \in manifests /\ fits[cache[p]].program = p
      /\ pc = "store" => answer # 0
      /\ answer # 0 =>
           pc \in {"store", "served"} /\ answer \in manifests
           /\ fits[answer].program = active /\ fits[answer].task = task
  BY <1>0 DEF FoundInv, TypeOK, Compatible
<1>4. /\ alias \in [Generations -> 0..Len(fits)]
      /\ cache \in [Programs -> 0..Len(fits)]
  BY <1>0 DEF TypeOK
<1>. DEFINE A == \A g \in Generations : alias'[g] # 0 =>
                   /\ alias'[g] \in manifests'
                   /\ fits'[alias'[g]].generation = g
            C == \A p \in Programs : cache'[p] # 0 =>
                   /\ cache'[p] \in manifests'
                   /\ fits'[cache'[p]].program = p
            D == /\ pc' = "store" => answer' # 0
                 /\ answer' # 0 =>
                      /\ pc' \in {"store", "served"} /\ answer' \in manifests'
                      /\ fits'[answer'].program = active'
                      /\ fits'[answer'].task = task'
<1>5. SUFFICES manifests' \subseteq artifacts' /\ A /\ C /\ D
  BY DEF FoundInv, Compatible
<1>6. manifests \subseteq manifests' /\ artifacts \subseteq artifacts'
  BY <1>0, StepFiles
<1>7. UNCHANGED alias => A
  BY <1>2, <1>3, <1>6
<1>8. UNCHANGED cache => C
  BY <1>2, <1>3, <1>6
<1>9. UNCHANGED <<pc, answer, active, task>> => D
  BY <1>2, <1>3, <1>6
<1>10. CASE Still
  <2>1. C
    BY <1>8, <1>10 DEF Still
  <2>2. D
    BY <1>3, <1>9, <1>10 DEF Still
  <2>. QED
    BY <1>3, <1>7, <1>10, <2>1, <2>2 DEF Still
<1>11. CASE Looks
  <2>0. active \in Programs
    BY <1>0, <1>11 DEF Looks, RunInv, Working
  <2>1. D
    BY <1>2, <1>3, <1>6, <1>11, <2>0 DEF Looks, Compatible
  <2>. QED
    BY <1>3, <1>7, <1>8, <1>11, <2>1 DEF Looks
<1>12. CASE Lists
  <2>1. D
    <3>1. CASE pc' = "served" /\ answer' = answer
      BY <1>3, <1>12, <3>1 DEF Lists
    <3>2. CASE /\ pc' = "store"
               /\ answer' \in Newest({f \in manifests \cap artifacts :
                                       Compatible(f)})
      <4>1. answer' \in manifests /\ Compatible(answer')
        BY <3>2 DEF Newest
      <4>2. answer' # 0
        BY <1>3, <4>1 DEF Ids
      <4>. QED
        BY <1>2, <1>3, <1>6, <1>12, <3>2, <4>1, <4>2 DEF Lists, Compatible
    <3>. QED
      BY <1>12, <3>1, <3>2 DEF Lists
  <2>. QED
    BY <1>3, <1>7, <1>8, <1>12, <2>1 DEF Lists
<1>13. CASE Stores
  <2>0. active \in Programs /\ answer # 0
    BY <1>0, <1>3, <1>13 DEF Stores, RunInv, Working
  <2>1. C
    BY <1>2, <1>3, <1>4, <1>6, <1>13, <2>0 DEF Stores
  <2>2. D
    BY <1>2, <1>3, <1>6, <1>13 DEF Stores
  <2>. QED
    BY <1>3, <1>7, <1>13, <2>1, <2>2 DEF Stores
<1>14. CASE Exit
  <2>1. UNCHANGED <<alias, manifests, artifacts>>
        /\ cache' = [p \in Programs |-> 0] /\ answer' = 0 /\ pc' = "idle"
    BY <1>14, Zenon DEF Exit, disk
  <2>. QED
    BY <1>3, <1>7, <2>1
<1>15. ASSUME NEW f \in Ids,
              Renames(f) \/ WritesManifest(f) \/ WritesAlias(f) \/ Caches(f)
       PROVE  manifests' \subseteq artifacts' /\ A /\ C /\ D
  <2>0. D
    BY <1>9, <1>15 DEF Renames, WritesManifest, WritesAlias, Caches
  <2>d. DiskOf(f)
    BY <1>0 DEF DiskInv
  <2>1. CASE Renames(f)
    BY <1>3, <1>7, <1>8, <2>0, <2>1 DEF Renames
  <2>2. CASE WritesManifest(f)
    BY <1>3, <1>7, <1>8, <2>0, <2>2, <2>d
    DEF WritesManifest, MayList, DiskOf
  <2>3. CASE WritesAlias(f)
    <3>1. f \in manifests
      BY <2>3, <2>d DEF WritesAlias, Moves, DiskOf
    <3>2. alias' = [alias EXCEPT ![fits[f].generation] = f]
          /\ UNCHANGED <<manifests, artifacts, cache>>
      BY <2>3 DEF WritesAlias
    <3>3. A
      BY <1>2, <1>3, <1>4, <3>1, <3>2
    <3>. QED
      BY <1>3, <1>8, <2>0, <3>2, <3>3
  <2>4. CASE Caches(f)
    <3>1. f \in manifests /\ fits[f].program = active
      BY <1>0, <2>4, <2>d DEF Caches, Moves, DiskOf, FitInv
    <3>2. UNCHANGED <<manifests, artifacts, alias>>
          /\ (UNCHANGED cache \/ cache' = [cache EXCEPT ![active] = f])
      BY <2>4 DEF Caches
    <3>3. C
      BY <1>2, <1>3, <1>4, <1>8, <3>1, <3>2
    <3>. QED
      BY <1>3, <1>7, <2>0, <3>2, <3>3
  <2>. QED
    BY <1>15, <2>1, <2>2, <2>3, <2>4
<1>. QED
  BY <1>10, <1>11, <1>12, <1>13, <1>14, <1>15, StepStill

-----------------------------------------------------------------------------
(* Memory and answers are as new as what was completed.                     *)

\* Being alike is shared.
LEMMA SameShared ==
  \A f, g, h : Same(f, g) /\ Same(g, h) => Same(f, h) /\ Same(g, f)
BY DEF Same

\* What is published and started later only adds to what growing generations
\* ask: they can be lost, never regained.
LEMMA GrowsBack ==
  ASSUME Inv, [Next]_vars, NEW f \in Ids, Grows(f)'
  PROVE  Grows(f)
<1>0. TypeOK /\ RunInv
  BY DEF Inv
<1>1. Kept /\ manifests \subseteq manifests' /\ manifests \subseteq Ids
  BY <1>0, StepKeeps, StepFiles DEF TypeOK
<1>2. SUFFICES ASSUME NEW m \in manifests, NEW g \in m + 1..Len(fits),
                      Same(m, f), Same(g, f)
               PROVE  fits[m].generation <= fits[g].generation
  BY DEF Grows
<1>3. m \in Ids /\ m \in Nat /\ g \in Ids
  BY <1>1, <1>2 DEF Kept, Ids
<1>4. m \in manifests' /\ g \in m + 1..Len(fits')
  BY <1>1, <1>3 DEF Kept
<1>5. Same(m, f)' /\ Same(g, f)'
  BY <1>1, <1>2, <1>3 DEF Kept, Same
<1>6. fits'[m].generation <= fits'[g].generation
  BY <1>4, <1>5 DEF Grows
<1>. QED
  BY <1>1, <1>3, <1>6 DEF Kept

\* Growing generations are a matter of what a fit is like.
LEMMA GrowsAlike ==
  ASSUME NEW f, NEW g, Same(f, g), Grows(f)
  PROVE  Grows(g)
BY SameShared DEF Grows, Same

\* Only Caches and Completes show a fit to the memory, and the latter one
\* that had been shown.
LEMMA StepOffers ==
  ASSUME Inv, [Next]_vars, ~Exit, NEW f \in Ids', Offered(f)'
  PROVE  f \in Ids /\ (Offered(f) \/ Caches(f))
<1>0. TypeOK /\ RunInv /\ FitInv
  BY DEF Inv
<1>1. Len(fits) \in Nat
  BY <1>0, FitsType
<1>2. CASE Stays
  BY <1>2 DEF Stays, Offered, Ids
<1>3. ASSUME NEW g \in Ids, Stops(g)
      PROVE  f \in Ids /\ Offered(f)
  BY <1>3 DEF Stops, Changes, Offered, Ids
<1>4. CASE Starts
  BY <1>1, <1>4 DEF Starts, Adds, Offered, Ids
<1>5. ASSUME NEW g \in Ids, Owner(g)
      PROVE  f \in Ids /\ (Offered(f) \/ Caches(f))
  <2>1. f \in Ids
    BY <1>0, <1>5, OwnerChanges DEF Changes, Ids
  <2>2. CASE f # g
    <3>1. fits'[f] = fits[f]
      BY <1>0, <1>5, <2>1, <2>2, OwnerChanges DEF Changes
    <3>. QED
      BY <2>1, <3>1 DEF Offered
  <2>3. CASE f = g
    <3>1. fits[g].stage # "gone" => fits[g].handle # "completed"
      BY <1>0 DEF FitInv, Running
    <3>. QED
      BY <1>0, <1>5, <2>1, <2>3, <3>1, OwnerMoves
      DEF Owner, Changes, Offered, SeesCancel, Passes, Raises, Renames,
          WritesManifest, WritesAlias, Completes, Moves, Checked, MayList
  <2>. QED
    BY <2>2, <2>3
<1>. QED
  BY <1>0, <1>2, <1>3, <1>4, <1>5, StepFits

\* What was offered is published, and numbers are numbers.
LEMMA Numbers ==
  ASSUME Inv
  PROVE  /\ manifests \subseteq Ids /\ Len(fits) \in Nat
         /\ \A f \in Ids : /\ f \in Nat /\ fits[f].generation \in Nat
                           /\ Offered(f) => f \in manifests
         /\ active \notin Programs \/ cache[active] \in Nat
<1>1. TypeOK /\ DiskInv
  BY DEF Inv
<1>2. \A f \in Ids : f \in Nat /\ fits[f].generation \in Nat
  BY <1>1, FitsType DEF Fit, Generations
<1>3. \A f \in Ids : Offered(f) => f \in manifests
  BY <1>1 DEF DiskInv, DiskOf, Offered
<1>. QED
  BY <1>1, <1>2, <1>3, FitsType DEF TypeOK

\* Every step keeps the memory that was not left behind as new as what was
\* offered to it.
LEMMA CacheInvStep ==
  Inv /\ [Next]_vars => CacheInv'
<1> SUFFICES ASSUME Inv, [Next]_vars, NEW p \in Programs, NEW c \in Ids',
                    cache'[p] = c, p \notin overtaken', Grows(c)',
                    NEW f \in Ids', Offered(f)', Same(f, c)'
             PROVE  fits'[f].generation <= fits'[c].generation
  BY DEF CacheInv
<1>0. TypeOK /\ RunInv /\ FitInv /\ FoundInv /\ CacheInv
  BY DEF Inv
<1>1. Kept
  BY <1>0, StepKeeps
<1>2. c \in Nat /\ c # 0
  BY <1>1 DEF Kept, Ids
<1>3. ~Exit
  <2>1. Exit => cache' = [q \in Programs |-> 0]
    BY Zenon DEF Exit
  <2>. QED
    BY <1>2, <2>1
<1>4. f \in Ids /\ (Offered(f) \/ Caches(f))
  BY <1>3, StepOffers
<1>5. ASSUME c \in Ids
      PROVE  /\ Grows(c) /\ Same(f, c)
             /\ fits[f].generation <= fits[c].generation =>
                  fits'[f].generation <= fits'[c].generation
  <2>1. Grows(c)
    BY <1>5, GrowsBack
  <2>2. Same(f, c)
    BY <1>1, <1>4, <1>5 DEF Kept, Same
  <2>. QED
    BY <1>1, <1>4, <1>5, <2>1, <2>2 DEF Kept
<1>6. ASSUME cache'[p] = cache[p], p \in overtaken => p \in overtaken',
             Offered(f)
      PROVE  fits'[f].generation <= fits'[c].generation
  <2>1. c \in Ids /\ cache[p] = c
    BY <1>0, <1>1, <1>6, Numbers DEF FoundInv, Kept, Ids
  <2>. QED
    BY <1>0, <1>4, <1>5, <1>6, <2>1 DEF CacheInv
<1>7. CASE Stores
  <2>1. /\ cache' = [cache EXCEPT ![active] = answer]
        /\ answer # 0 /\ answer \in Ids /\ Compatible(answer)
        /\ active \in Programs
    BY <1>0, <1>7, Numbers DEF Stores, FoundInv, RunInv, Working
  <2>2. Offered(f)
    BY <1>4, <1>7 DEF Caches, Stores, Moves, disk, memory, callVars, runVars
  <2>3. CASE p # active
    BY <1>0, <1>6, <1>7, <2>1, <2>2, <2>3 DEF Stores, TypeOK
  <2>4. CASE p = active
    <3>1. c = answer
      BY <1>0, <2>1, <2>4 DEF TypeOK
    <3>2. Same(f, answer)
      BY <1>5, <2>1, <3>1
    <3>3. Compatible(f)
      BY <2>1, <3>2 DEF Same, Compatible
    <3>4. ~(fits[answer].generation < fits[f].generation)
      BY <1>4, <1>7, <2>2, <2>4, <3>3 DEF Stores
    <3>5. fits[f].generation <= fits[answer].generation
      BY <1>4, <2>1, <3>4, Numbers
    <3>. QED
      BY <1>5, <2>1, <3>1, <3>5
  <2>. QED
    BY <2>3, <2>4
<1>8. ASSUME NEW g \in Ids, Caches(g)
      PROVE  fits'[f].generation <= fits'[c].generation
  <2>1. /\ fits[g].stage # "gone"
        /\ IF Replaces(g)
           THEN /\ cache' = [cache EXCEPT ![active] = g]
                /\ overtaken' = overtaken \ {active}
           ELSE UNCHANGED <<cache, overtaken>>
    BY <1>8 DEF Caches, Moves
  <2>2. /\ Running(g) /\ fits[g].program = active /\ active \in Programs
        /\ \A h \in g..Len(fits) : fits[h].generation = gen
    <3>1. Running(g) /\ g \in leased
      BY <1>0, <2>1 DEF FitInv
    <3>. QED
      BY <1>0, <3>1 DEF FitInv, RunInv
  <2>3. f = g \/ Offered(f)
    <3>1. CASE f # g
      <4>1. fits'[f] = fits[f]
        BY <1>0, <1>4, <1>8, <3>1, OwnerMoves DEF Changes
      <4>. QED
        BY <4>1 DEF Offered
    <3>. QED
      BY <3>1
  <2>4. CASE p # active
    <3>1. cache'[p] = cache[p] /\ (p \in overtaken => p \in overtaken')
      BY <1>0, <2>1, <2>4 DEF TypeOK
    <3>2. cache[p] \in Ids /\ fits[cache[p]].program = p
      BY <1>0, <1>2, <3>1, Numbers DEF FoundInv
    <3>3. fits[f].program = p
      BY <1>5, <3>1, <3>2 DEF Same
    <3>. QED
      BY <1>6, <2>2, <2>3, <2>4, <3>1, <3>3
  <2>5. CASE p = active /\ Replaces(g)
    <3>1. c = g
      BY <1>0, <2>1, <2>2, <2>5 DEF TypeOK
    <3>2. Grows(g) /\ Same(f, g)
      BY <1>5, <3>1
    <3>3. CASE f < g
      <4>1. f \in manifests /\ g \in f + 1..Len(fits) /\ Same(g, g)
        BY <1>4, <2>3, <3>3, Numbers DEF Ids, Same
      <4>. QED
        BY <1>5, <3>1, <3>2, <4>1 DEF Grows
    <3>4. CASE f >= g
      <4>1. f \in g..Len(fits) /\ g \in g..Len(fits)
        BY <1>4, <3>4 DEF Ids
      <4>2. fits[f].generation = fits[g].generation
        BY <2>2, <4>1
      <4>. QED
        BY <1>4, <1>5, <3>1, <4>2, Numbers
    <3>. QED
      BY <1>4, <3>3, <3>4, Numbers
  <2>6. CASE p = active /\ ~Replaces(g)
    <3>1. cache'[p] = cache[p] /\ overtaken' = overtaken
      BY <2>1, <2>6
    <3>2. CASE Offered(f)
      BY <1>6, <3>1, <3>2
    <3>3. CASE f = g
      <4>1. cache[p] \in Ids
        BY <1>0, <1>2, <3>1, Numbers DEF FoundInv
      <4>2. ~(fits[cache[p]].generation <= fits[g].generation)
        BY <2>6 DEF Replaces
      <4>3. fits[g].generation <= fits[cache[p]].generation
        BY <4>1, <4>2, Numbers
      <4>. QED
        BY <1>5, <3>1, <3>3, <4>1, <4>3
    <3>. QED
      BY <2>3, <3>2, <3>3
  <2>. QED
    BY <2>4, <2>5, <2>6
<1>9. CASE ~Stores /\ ~\E g \in Ids : Caches(g)
  <2>1. UNCHANGED <<cache, overtaken>>
    <3>1. CASE Still
      BY <1>2, <3>1 DEF Still
    <3>2. CASE Looks \/ Lists
      BY <3>2 DEF Looks, Lists, memory
    <3>3. ASSUME NEW g \in Ids,
                 Renames(g) \/ WritesManifest(g) \/ WritesAlias(g)
          PROVE  UNCHANGED <<cache, overtaken>>
      BY <3>3 DEF Renames, WritesManifest, WritesAlias, memory
    <3>. QED
      BY <1>3, <1>9, <3>1, <3>2, <3>3, StepStill
  <2>. QED
    BY <1>4, <1>6, <1>9, <2>1
<1>. QED
  BY <1>7, <1>8, <1>9

\* Every step keeps an answer as new as what its selection counts on.
LEMMA AnswerInvStep ==
  Inv /\ [Next]_vars => AnswerInv'
<1> SUFFICES ASSUME Inv, [Next]_vars, pc' \in {"store", "served"},
                    NEW f \in known', Compatible(f)', Grows(f)'
             PROVE  /\ answer' # 0
                    /\ fits'[f].generation <= fits'[answer'].generation
  BY DEF AnswerInv
<1>0. TypeOK /\ RunInv /\ FoundInv /\ KnownInv /\ CacheInv /\ AnswerInv
  BY DEF Inv
<1>1. Kept
  BY <1>0, StepKeeps
<1>2. ASSUME f \in Ids
      PROVE  Grows(f)
  BY <1>2, GrowsBack
<1>3. ASSUME f \in Ids, answer' # 0, answer' \in Ids,
             fits[f].generation <= fits[answer'].generation
      PROVE  /\ answer' # 0
             /\ fits'[f].generation <= fits'[answer'].generation
  BY <1>1, <1>3 DEF Kept
<1>4. ASSUME f \in known, pc \in {"store", "served"},
             UNCHANGED <<answer, active, task>>
      PROVE  /\ answer' # 0
             /\ fits'[f].generation <= fits'[answer'].generation
  <2>1. f \in Ids
    BY <1>0, <1>4 DEF TypeOK
  <2>2. Compatible(f)
    BY <1>1, <1>4, <2>1 DEF Kept, Compatible
  <2>3. answer # 0 /\ fits[f].generation <= fits[answer].generation
    BY <1>0, <1>2, <1>4, <2>1, <2>2 DEF AnswerInv
  <2>4. answer \in Ids
    BY <1>0, <2>3, Numbers DEF FoundInv
  <2>. QED
    BY <1>3, <1>4, <2>1, <2>3, <2>4
<1>5. CASE Still
  BY <1>4, <1>5 DEF Still
<1>6. CASE Looks
  <2>1. /\ f \in Ids /\ fits[f].handle = "completed"
        /\ active \notin overtaken
        /\ UNCHANGED <<active, task>>
    BY <1>6 DEF Looks, disk, runVars
  <2>2. active \in Programs
    BY <1>0, <1>6 DEF Looks, RunInv, Working
  <2>3. /\ answer' = cache[active] /\ answer' # 0 /\ Compatible(answer')
    BY <1>6 DEF Looks
  <2>4. answer' \in Ids
    BY <1>0, <2>2, <2>3, Numbers DEF FoundInv
  <2>5. Compatible(f)
    BY <1>1, <2>1 DEF Kept, Compatible
  <2>6. Same(f, answer') /\ Offered(f)
    BY <2>1, <2>3, <2>5 DEF Same, Compatible, Offered
  <2>7. Grows(answer')
    BY <1>2, <2>1, <2>6, GrowsAlike
  <2>8. fits[f].generation <= fits[answer'].generation
    BY <1>0, <2>1, <2>2, <2>3, <2>4, <2>6, <2>7 DEF CacheInv
  <2>. QED
    BY <1>3, <2>1, <2>3, <2>4, <2>8
<1>7. CASE Lists
  <2>1. f \in known /\ UNCHANGED <<active, task, fits>>
    BY <1>7 DEF Lists, disk, runVars
  <2>2. f \in Ids /\ Offered(f) /\ Compatible(f)
    BY <1>0, <2>1 DEF TypeOK, KnownInv, Offered, Compatible
  <2>3. f \in manifests \cap artifacts
    BY <1>0, <2>2, Numbers DEF FoundInv
  <2>. DEFINE U == {g \in manifests \cap artifacts : Compatible(g)}
  <2>4. f \in U
    BY <2>2, <2>3
  <2>5. answer' \in Newest(U)
    BY <1>7, <2>4 DEF Lists
  <2>6. answer' \in manifests /\ fits[f].generation <= fits[answer'].generation
    BY <2>4, <2>5 DEF Newest
  <2>7. answer' \in Ids /\ answer' # 0
    BY <2>6, Numbers DEF Ids
  <2>. QED
    BY <1>3, <2>2, <2>6, <2>7
<1>8. CASE Stores
  BY <1>4, <1>8 DEF Stores, disk, callVars, runVars
<1>9. CASE Exit
  BY <1>9, Zenon DEF Exit
<1>10. ASSUME NEW g \in Ids,
              Renames(g) \/ WritesManifest(g) \/ WritesAlias(g) \/ Caches(g)
       PROVE  /\ answer' # 0
              /\ fits'[f].generation <= fits'[answer'].generation
  <2>1. UNCHANGED <<pc, known, answer, active, task>>
    BY <1>10
    DEF Renames, WritesManifest, WritesAlias, Caches, disk, callVars, runVars
  <2>. QED
    BY <1>4, <2>1
<1>. QED
  BY <1>5, <1>6, <1>7, <1>8, <1>9, <1>10, StepStill

-----------------------------------------------------------------------------
(* Theorems.                                                                *)

\* The invariant holds of every run.
THEOREM Invariance == Spec => []Inv
<1>1. Init => Inv
  <2>. SUFFICES ASSUME Init PROVE Inv
    OBVIOUS
  <2>. USE FitsAssumption DEF Init
  <2>1. fits = <<>> /\ Len(fits) = 0 /\ Ids = {}
    BY DEF Ids
  <2>2. TypeOK
    <3>1. fits \in Seq(Fit)
      BY EmptySeq, Zenon DEF Init
    <3>2. /\ completion \in [program : Programs \cup {NoProgram},
                             generation : Generations]
          /\ alias \in [Generations -> 0..0]
          /\ pending \in [Programs -> 0..0] /\ cache \in [Programs -> 0..0]
          /\ gen \in 0..LastGeneration + 1
      BY DEF NoCompletion, Generations
    <3>. QED
      BY <2>1, <3>1, <3>2 DEF TypeOK, Fit, Handles, Stages
  <2>3. RunInv /\ FoundInv
    BY DEF RunInv, Working, FoundInv
  <2>4. FitInv /\ DiskInv /\ KnownInv /\ CacheInv /\ AnswerInv
    BY <2>1 DEF FitInv, DiskInv, KnownInv, CacheInv, AnswerInv
  <2>. QED
    BY <2>2, <2>3, <2>4 DEF Inv
<1>2. Inv /\ [Next]_vars => Inv'
  BY TypeOKStep, RunInvStep, FitInvStep, DiskInvStep, FoundInvStep,
     KnownInvStep, CacheInvStep, AnswerInvStep DEF Inv
<1>. QED
  BY <1>1, <1>2, PTL DEF Spec

\* Every variable keeps its type, whatever is lost and whenever.
THEOREM TypeCorrect == Spec => []TypeOK
<1>1. Inv => TypeOK
  BY DEF Inv
<1>. QED
  BY <1>1, Invariance, PTL

\* What a handle says of its fit is what is on disk: a cancelled one has
\* published nothing, a completed one can be recovered.
THEOREM OutcomesHold == Spec => []OutcomeHolds
<1>1. Inv => OutcomeHolds
  <2>. SUFFICES ASSUME Inv, NEW f \in Ids
                PROVE  /\ fits[f].handle = "cancelled" =>
                            /\ f \notin artifacts \cup manifests
                            /\ \A p \in Programs : cache[p] # f
                       /\ fits[f].handle = "completed" => f \in manifests
    BY DEF OutcomeHolds
  <2>1. DiskOf(f) /\ FoundInv /\ f # 0
    BY FitsType DEF Inv, DiskInv
  <2>. QED
    BY <2>1 DEF DiskOf, FoundInv
<1>. QED
  BY <1>1, Invariance, PTL

\* No reader is led to a state that is not whole, wherever the process that
\* wrote it stopped.
THEOREM FoundStatesAreWhole == Spec => []FoundIsWhole
<1>1. Inv => FoundIsWhole
  BY DEF Inv, FoundInv, FoundIsWhole
<1>. QED
  BY <1>1, Invariance, PTL

\* A selection is served a state within the lag if it counted on one.
THEOREM NewestIsServed == Spec => []NewestWithinLag
<1>1. Inv => NewestWithinLag
  <2>. SUFFICES ASSUME Inv, pc = "served", NeverBack,
                       NEW f \in known, Compatible(f), WithinLag(f)
                PROVE  answer # 0 /\ WithinLag(answer)
    BY DEF NewestWithinLag
  <2>0. TypeOK /\ FoundInv /\ AnswerInv /\ known \subseteq Ids
    BY DEF Inv, TypeOK
  <2>1. Grows(f)
    BY DEF Grows, NeverBack, Same, Compatible
  <2>2. answer # 0 /\ fits[f].generation <= fits[answer].generation
    BY <2>0, <2>1 DEF AnswerInv
  <2>3. answer \in manifests /\ Compatible(answer)
    BY <2>0, <2>2 DEF FoundInv
  <2>4. fits[answer].generation <= gen
    BY <2>3 DEF NeverBack
  <2>5. /\ fits[f].generation \in Nat /\ fits[answer].generation \in Nat
        /\ gen \in Nat /\ MaxLag \in Nat
    BY <2>0, <2>3, Numbers, FitsAssumption DEF TypeOK
  <2>. QED
    BY <2>2, <2>4, <2>5 DEF WithinLag
<1>. QED
  BY <1>1, Invariance, PTL

=============================================================================
